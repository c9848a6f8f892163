SPECIFICATION Spec
CONSTANTS
    Exporter = {e1, e2}
    Request = {r1}
    MaxOps = 4
CHECK_DEADLOCK FALSE
INVARIANTS
    TypeOK
    Isolated
    OverCountsOnly
