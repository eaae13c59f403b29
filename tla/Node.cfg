SPECIFICATION FairSpec
CONSTANTS
    GOV_INIT_TIMEOUT_MS = 2
    GOV_RECOVER_MS = 2
    GOV_DEGRADE_MAX_MS = 3
    TimeMod = 5
    DriverFault = {SENSOR_DROP}
    GOV_DIVERGE_TICKS = 2
    BootMs = 1
INVARIANTS
    TypeOK
    RunIsClean
    DwellIffHealthy
    SpecificCauseShown
PROPERTIES
    HaltOnlyIfClockWentBack
    RecoveryNeedsStability
    LatchedReasonPersists
    ActuationOnlyAfterBringUp
    StopReachesActuator
