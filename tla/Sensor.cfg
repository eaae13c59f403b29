SPECIFICATION Spec
CONSTANTS
    Raw = {0, 7, 200}
    range_min = 0
    range_max = 100
    dropout_limit = 2
    stuck_limit = 2
    nak_retries = 1
    MaxPolls = 6
CHECK_DEADLOCK FALSE
INVARIANTS
    TypeOK
    FlagsMatchHistory
    ControlGetsAccepted
    PublishedIsRecent
