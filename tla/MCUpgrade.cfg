CONSTANTS
    u1 = u1
    u2 = u2
    Upgraders = {u1, u2}
    Releases <- MCReleases
    WithInstaller <- MCWithInstaller
    NoVersion = NoVersion
    Malformed = Malformed
    Dev = Dev
    Absent = Absent
    Broken = Broken
    Link = Link
SPECIFICATION Spec
SYMMETRY Symmetric
CHECK_DEADLOCK FALSE
INVARIANTS
    NoticesTrue
PROPERTIES
    KeepsABinary
    FailureUndone
    NothingElseInstalled
    UpgradeDelivers
