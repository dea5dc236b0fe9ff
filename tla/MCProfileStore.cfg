CONSTANTS
    Names = {n1, n2, n3}
    Keys = {k1, k2}
    URLs = {u1, u2}
    DefaultURL = u1
    NoName = NoName
    NoKey = NoKey
    NoURL = NoURL
    NoProfile = NoProfile
    InitialStores <- MCInitialStores
SPECIFICATION Spec
PROPERTIES
    WritesRepairSelection
    SelectionMovesOnlyByUse
    OneProfilePerWrite
    WritesKeepKeys
