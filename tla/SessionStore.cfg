SPECIFICATION Spec
CONSTANTS
    t1 = t1
    t2 = t2
    b1 = b1
    Turns = {t1, t2}
    Routes = {b1}
    Backings = {"redis", "process"}
    OneTurnPerTab = FALSE
SYMMETRY Symmetry
CHECK_DEADLOCK FALSE
INVARIANTS
    TypeOK
    RefusedLeavesNoTrace
    AcceptedEventAccounted
    ToldOnce
    SettledTurnStored
PROPERTY
    ReplacesWhatItRead
