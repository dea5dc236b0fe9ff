SPECIFICATION Spec
CONSTANTS
    n1 = n1
    n2 = n2
    k1 = k1
    k2 = k2
    k3 = k3
    u1 = u1
    u2 = u2
    u3 = u3
    http = http
    prod = prod
    Names = {n1, n2}
    Keys = {k1, k2, k3}
    URLs = {u1, u2, u3, http, prod}
    InsecureURLs = {http}
    DefaultURL = prod
    NoName = NoName
    NoKey = NoKey
    NoURL = NoURL
    NoProfile = NoProfile
    NoClient = NoClient
    Unreadable = Unreadable
    MaxFlags = 3
    Files <- MCFiles
    Environments <- MCEnvironments
INVARIANTS
    TypeOK
    NoFlagDropped
    NoLateRefusal
    ReportsComplete
    KeysMeetTheirEndpoint
    TagsReplacedWhenAgreed
CHECK_DEADLOCK FALSE
