SPECIFICATION Spec
CONSTANTS
    Worker = {w1, w2}
    Key = {s1, s2}
    Data = {d1, d2}
    TTL = 1
    MaxTime = 3
    IsMemory = TRUE
    None = None
SYMMETRY Symmetry
INVARIANTS
    TypeOK
    SharedConnectionGuarded
PROPERTIES
    LiveRowSurvives
    KeepsContract
