----------------------------- MODULE ToolRequests -----------------------------
(***************************************************************************)
(* The registry with keys that generate_idempotency_key has made: which    *)
(* attempts are taken for one request.  Each call has a tool, arguments    *)
(* and perhaps a client's token.                                           *)
(***************************************************************************)
EXTENDS IdempotencyRegistry, ToolArguments

CONSTANTS
    ToolOf,
    ArgumentsOf,
    TokenOf,    \* "" without one
    Attempted   \* further arguments to compare the calls' with

KeyText == [c \in CallId |-> GenerateKey(ToolOf[c], ArgumentsOf[c], TokenOf[c])]

\* Keys stand for the texts generate_idempotency_key returns.
ASSUME RequestsAssumption ==
    /\ ArgumentsOf \in [CallId -> Argument]
    /\ Attempted \subseteq Argument
    /\ \A c, d \in CallId : KeyOf[c] = KeyOf[d] <=> KeyText[c] = KeyText[d]

SameRequest(c, d) ==
    /\ ToolOf[c] = ToolOf[d]
    /\ TokenOf[c] = TokenOf[d]
    /\ TokenOf[c] # "" \/ SameArguments(ArgumentsOf[c], ArgumentsOf[d])

\* Two attempts are one request exactly if they carry the same token, or none and
\* arguments that mean the same, in any order of keys, as a structure or as its text:
\* then the second attempt is trapped under its new id, whatever has happened to the
\* first, and requests that differ never answer for each other.
AttemptsShareRecord ==
    \A c, d \in CallId :
        LET a == Check(reg, KeyOf[c], c)
            b == Check(reg, KeyOf[d], d) IN
        IF SameRequest(c, d) THEN a = b ELSE a = None \/ a # b

\* The calls that have a key, and those without a token that mean the same.
Keyed(key) == {c \in CallId : KeyText[c] = key}
Meant(tool, a) == {c \in CallId : /\ ToolOf[c] = tool /\ TokenOf[c] = ""
                                  /\ SameArguments(a, ArgumentsOf[c])}

Tools == {ToolOf[c] : c \in CallId}

\* For any attempt, the calls it is trapped with and those it repeats; and for a
\* client that names its requests itself, by its own canonical text.
Attempts == {<<Keyed(GenerateKey(t, a, "")), Meant(t, a)>> : t \in Tools, a \in Attempted}

Structured == Attempted \cap Structure

ClientAttempts ==
    {<<Keyed(<<"det", t, ClientCanonicalize(v)>>), Meant(t, v)>> :
        t \in Tools, v \in {w \in Structured : Plain(w)}}

Answered == {c \in CallId : Check(reg, KeyOf[c], c) # None}

ToldApart == \A a, b \in Attempted :
    (Canonicalize(a) = Canonicalize(b)) <=> SameArguments(a, b)

SameText == \A v \in Structured : (ClientCanonicalize(v) = Canonicalize(v)) <=> Plain(v)

\* canonicalize_arguments tells arguments apart by their meaning, and only by it: of
\* all attempts those are trapped that repeat a recorded request.
CanonicalByMeaning ==
    /\ ToldApart
    /\ \A p \in Attempts :
          (p[1] \cap Answered # {}) <=> (p[2] \cap Answered # {})

\* The client's canonicalizeArguments writes structured arguments as the server does,
\* and so names the request alike, exactly if there is nothing in them, at any depth,
\* that the two write differently: a null, which the client takes for {}, and text
\* beyond ASCII or a number such as 1.0, which json.dumps spells in its own way.
ClientAgrees ==
    /\ SameText
    /\ \A p \in ClientAttempts :
          (p[1] \cap Answered # {}) <=> (p[2] \cap Answered # {})
=============================================================================
