SPECIFICATION CacheSpec
CONSTANTS
    c1 = c1
    c2 = c2
    c3 = c3
    Callers = {c1, c2, c3}
    MaxWrites = 2
    Nil = Nil
INVARIANTS
    CacheTypeOK
    LoadedOnce
    StaleOnlyByRace
PROPERTIES
    NeverBackwards
    WaitEnds
