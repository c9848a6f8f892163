SPECIFICATION Spec
CONSTANTS
    Task = {t1, t2}
    MaxChange = 2
    None = None
INVARIANT
    FinalStateCommitted
