SPECIFICATION Spec
CONSTANTS
    c1 = c1
    k1 = k1
    k2 = k2
    k3 = k3
    t1 = t1
    Changes = {c1}
    Clicks = {k1, k2, k3}
    Turns = {t1}
    Products = 3
    Delistable = {2}
    Void = {3}
    Ledgers = {"process", "custom object"}
SYMMETRY Symmetry
INVARIANTS
    TypeOK
    ModelNeverApplies
    NeverMoreThanApproved
    AppliedIsComplete
    UndisturbedIsExact
    AlertsFollowWrites
PROPERTY
    ResolvedIsFinal
