SPECIFICATION Spec
CONSTANTS
    k1 = k1
    c1 = c1
    c2 = c2
    Key <- MCKey
    CallId <- MCCallId
    KeyOf <- MCKeyOf
    Result = {ok}
    InitialStatus = {"pending"}
    None = None
    Conn = {a, b}
    MaxWrites = 2
    MaxAccidents = 1
INVARIANTS
    TypeOK
    NoDuplicateEffect
    EffectsRemembered
    TrueBeliefs
SYMMETRY Alike
