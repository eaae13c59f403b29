SPECIFICATION Spec
CONSTANTS
    SeqMod = 4
    GOV_MAX_RETRIES = 1
    MaxRecords = 0
    MaxCommands = 2
    MaxEach = 0
    WireCap = 2
    MaxRestarts = 1
CHECK_DEADLOCK FALSE
INVARIANT
    NoSilentDrop
