CONSTANTS
    p1 = p1
    p2 = p2
    p3 = p3
    n1 = n1
    n2 = n2
    k1 = k1
    k2 = k2
    Procs = {p1, p2, p3}
    Crashable = {p1}
    Slow = {}
    PowerFails = FALSE
    NoLock = NoLock
    Names = {n1, n2}
    Keys = {k1}
    URLs = {u1}
    DefaultURL = u1
    NoName = NoName
    NoKey = NoKey
    NoURL = NoURL
    NoProfile = NoProfile
    Torn = Torn
    InitialStores <- Empty
SPECIFICATION Spec
SYMMETRY WaiterSymmetry
PROPERTIES
    WritesApplyToLatest
CHECK_DEADLOCK FALSE
