SPECIFICATION TSpec
CONSTANTS
    GOV_INIT_TIMEOUT_MS = 1
    GOV_RECOVER_MS = 1
    GOV_DEGRADE_MAX_MS = 2
    TimeMod = 4
    DriverFault = {SENSOR_DROP}
    GOV_DIVERGE_TICKS = 1
    BootMs = 1
INVARIANTS
    ControlNeverOvertaken
PROPERTIES
    HaltOnlyDuringTrouble
