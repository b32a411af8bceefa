SPECIFICATION Spec
CONSTANTS
    Listings <- MCListings
    Skus <- MCSkus
    Issues <- MCIssues
    Changes <- MCChanges
    Traits <- MCTraits
    Fixes <- MCFixes
    Cover <- MCCover
    LongCover = 2
    AlertCap = 3
    OverviewCap = 2
    RowCap = 2
    Nothing = Nothing
    MaxTurns = 2
    MaxSpent = 4
CHECK_DEADLOCK FALSE
INVARIANTS
    CardsTellTheLedger
    PagesAreCurrent
