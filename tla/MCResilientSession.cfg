SPECIFICATION Spec
CONSTANTS
    Session = {s1, s2}
    Socket = {w1, w2}
    Task = {t1, t2}
    MaxAttempts = 2
    MaxMishaps = 1
    None = None
INVARIANTS
    TypeOK
    OneConnection
    NeverStranded
    EndCallConcludes
    OneSessionsCredentials
PROPERTIES
    RetriesEnd
