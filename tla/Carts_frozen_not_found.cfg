SPECIFICATION Spec
CONSTANTS
    a = a
    r1 = r1
    r2 = r2
    r3 = r3
    None = None
    CartIds = {a}
    Requests = {r1, r2, r3}
SYMMETRY Symmetry
CHECK_DEADLOCK FALSE
PROPERTY FrozenCartIsFound
