SPECIFICATION Spec
CONSTANTS
    t1 = t1
    t2 = t2
    Turns = {t1, t2}
    Routes = {}
    Backings = {"redis"}
    OneTurnPerTab = TRUE
SYMMETRY Symmetry
CHECK_DEADLOCK FALSE
PROPERTY RequestAppends
