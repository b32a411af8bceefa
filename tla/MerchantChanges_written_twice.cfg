SPECIFICATION Spec
CONSTANTS
    c1 = c1
    k1 = k1
    k2 = k2
    t1 = t1
    Changes = {c1}
    Clicks = {k1, k2}
    Turns = {t1}
    Products = 1
    Delistable = {}
    Void = {}
    Ledgers = {"process"}
SYMMETRY Symmetry
INVARIANT WrittenAtMostOnce
