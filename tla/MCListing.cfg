CONSTANTS
    Rows <- MCRows
    InitialRows <- MCInitialRows
    SourceOrder <- MCSourceOrder
    PageSize = 2
    MaxPages = 3
    MaxChanges = 1
SPECIFICATION Spec
CHECK_DEADLOCK FALSE
INVARIANTS
    StableListingExact
    GrowthKeepsRows
    NoOutputUnlessAllFetched
PROPERTY ListingEnds
