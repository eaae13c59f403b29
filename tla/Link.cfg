SPECIFICATION FairSpec
CONSTANTS
    SeqMod = 3
    GOV_MAX_RETRIES = 1
    MaxRecords = 4
    MaxCommands = 4
    MaxEach = 1
    WireCap = 3
    MaxRestarts = 1
CHECK_DEADLOCK FALSE
INVARIANTS
    TypeOK
    InOrderOnce
    AckedWasDelivered
    NothingForgotten
    FaultAfterAllRetries
PROPERTY
    EveryFrameSettles
