SPECIFICATION Spec
CONSTANTS
    Key = {k1}
    Field = {f1, f2}
    Dynamic = {f2}
    TTL = 2
    Stale = 0
    MaxClock = 2
    MaxTurn = 1
    MaxDepartures = 1
    None = None
CHECK_DEADLOCK FALSE
INVARIANTS
    TypeOK
    PromptKept
PROPERTIES
    ResumesLastCheckpoint
    NoticesTellOutcome
    RestoredIsRecent
    FieldsKept
