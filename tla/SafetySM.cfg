SPECIFICATION SMSpec
CONSTANTS
    GOV_INIT_TIMEOUT_MS = 3
    GOV_RECOVER_MS = 2
    GOV_DEGRADE_MAX_MS = 5
    TimeMod = 8
INVARIANTS
    SMTypeOK
    StampsOrdered
    TimersServed
    FaultsExplainState
PROPERTY
    LatchedUntilBringUp
