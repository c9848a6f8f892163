SPECIFICATION Spec
CONSTANTS
    c1 = c1
    c2 = c2
    c3 = c3
    Key <- MCKey
    CallId <- MCCallId
    KeyOf <- MCKeyOf
    Result = {ok}
    InitialStatus = {"pending"}
    None = None
    Atom <- MCAtom
    Foreign <- MCForeign
    ForeignKey = {3}
    Value <- MCValue
    Depth <- MCDepth
    ToolOf <- MCToolOf
    ArgumentsOf <- MCArgumentsOf
    TokenOf <- MCTokenOf
    Attempted <- MCAttempted
INVARIANTS
    TypeOK
    DualLookup
    RoundTrip
    AttemptsShareRecord
    CanonicalByMeaning
    ClientAgrees
PROPERTIES
    CompletedSticks
    StoredCompletionSticks
