CONSTANTS
    p1 = p1
    p2 = p2
    p3 = p3
    n1 = n1
    n2 = n2
    k1 = k1
    k2 = k2
    Procs = {p1, p2, p3}
    Crashable = {p1}
    Slow = {}
    PowerFails = TRUE
    NoLock = NoLock
    Names = {n1}
    Keys = {k1}
    URLs = {u1}
    DefaultURL = u1
    NoName = NoName
    NoKey = NoKey
    NoURL = NoURL
    NoProfile = NoProfile
    Torn = Torn
    InitialStores <- OneName
SPECIFICATION Spec
SYMMETRY WaiterSymmetry
INVARIANTS
    MutualExclusionUntilBreach
    LockHasHolderOrCorpse
    BreachNeedsTwoRecoverers
PROPERTIES
    NeverBecomesTorn
CHECK_DEADLOCK FALSE
