SPECIFICATION Spec
CONSTANTS
    w1 = w1  w2 = w2
    v1 = v1  v2 = v2
    GC = GC
    Null = Null
    Workers <- OneWorker
    Values <- TwoValues
    MaxCount = 4
INVARIANTS NotDeletedInUse
