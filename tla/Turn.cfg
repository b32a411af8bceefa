SPECIFICATION FairSpec
CONSTANTS
    Streams = {s1, s2}
    Components = {plan, tracker}
    Whole = {tracker}
    Skeletons = {plan, tracker}
    MaxItems = 3
    MaxQueue = 2
    None = None
CHECK_DEADLOCK FALSE
INVARIANTS
    TypeOK
    NothingStranded
    EndShowsLatest
    CardPerAttempt
PROPERTIES
    ShownGrows
    CatchesUp
