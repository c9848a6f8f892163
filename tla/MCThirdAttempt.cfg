SPECIFICATION FacadeSpec
CONSTANTS
    k1 = k1
    k2 = k2
    c1 = c1
    c2 = c2
    c3 = c3
    c4 = c4
    Key <- OneKey
    CallId <- ThreeCallIds
    KeyOf <- OneKeyOf
    Result = {ok}
    InitialStatus = {"pending"}
    None = None
    OnlyFreshIds = TRUE
    OnlyNewestName = TRUE
INVARIANTS
    SameAnswers
