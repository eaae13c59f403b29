SPECIFICATION Spec
CONSTANTS
    Threshold = 2
    Window = 6
    GOV_MISS_LIMIT = 1
    TimeMod = 11
    MaxRaces = 2
INVARIANTS
    TypeOK
    HealthyNeverTrips
    HungIsResetInTime
