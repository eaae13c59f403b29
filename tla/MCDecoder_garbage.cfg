SPECIFICATION Spec
CONSTANTS
    GOV_MAX_PAYLOAD = 125
    Lines <- AllLines
    Noise = {126, 1, 0}
    MaxNoise = 6
    MaxFrames = 2
CHECK_DEADLOCK FALSE
INVARIANT
    GarbageThenFrame
