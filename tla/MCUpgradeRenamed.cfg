CONSTANTS
    u1 = u1
    u2 = u2
    Upgraders = {u1}
    Releases <- MCReleases
    WithInstaller <- MCWithInstaller
    NoVersion = NoVersion
    Malformed = Malformed
    Dev = Dev
    Absent = Absent
    Broken = Broken
    Link = Link
SPECIFICATION Spec
CHECK_DEADLOCK FALSE
PROPERTY ReplacesRunningBinary
