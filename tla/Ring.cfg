SPECIFICATION Spec
CONSTANTS
    GOV_TELEM_RING_DEPTH = 3
    Value = {1, 2}
    MaxDrops = 1
INVARIANT
    TypeOK
PROPERTY
    QueueSpec
