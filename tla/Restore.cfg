SPECIFICATION FairSpec
CONSTANTS
    Pubs = {p1, p2}
    Ops = {o1, o2}
    Objects = {x}
    Finalizers = 1
    MaxAttempts = 2
    Older = p1
    CapturedAt <- TwoCheckpoints
    MaxVersion = 2
    MaxFaults = 2
    NoPub = NoPub
    NoOp = NoOp
    Other = Other
INVARIANTS RestoreInv
PROPERTIES NothingAfterFence NotSweptUndelivered ImplementsContract RestoresSettle
