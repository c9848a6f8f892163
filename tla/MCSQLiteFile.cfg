SPECIFICATION Spec
CONSTANTS
    Worker = {w1, w2}
    Key = {s1}
    Data = {d1, d2}
    TTL = 1
    MaxTime = 3
    IsMemory = FALSE
    None = None
SYMMETRY Symmetry
PROPERTIES
    LiveRowSurvives
