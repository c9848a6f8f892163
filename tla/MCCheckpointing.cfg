SPECIFICATION Spec
CONSTANTS
    Task = {t1, t2}
    MaxChange = 2
    None = None
INVARIANTS
    TypeOK
    NoTornSnapshot
    FinalStateCommittedAlone
    CleanupDrains
PROPERTIES
    OnlyRivalsRegress
    NothingHangs
