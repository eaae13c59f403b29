SPECIFICATION Spec
CONSTANTS
    Value = {v1, v2, v3}
    Default = dflt
    SeqMod = 6
INVARIANTS
    TypeOK
    SlotsAdjacent
    CtxMatchesMedium
PROPERTIES
    AtomicSpec
