CONSTANTS
    Pids = {r, a, b}
    Root = r
    RootLimit = 2
    Limits <- ChildLimits
    Amounts = {1, 2}
    Overages = {2}
    Calls = {k1}
    UsageCap = 3
    Unlimited = Unlimited
    NoPid = NoPid
    NoCall = NoCall
    NoCheckpoint = NoCheckpoint
SPECIFICATION Spec
SYMMETRY Interchangeable
INVARIANTS RecoverySettles
