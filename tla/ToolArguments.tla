---------------------------- MODULE ToolArguments ----------------------------
(***************************************************************************)
(* What makes two tool calls one request: canonicalize_arguments and       *)
(* generate_idempotency_key (idempotency.py), and the client's             *)
(* canonicalizeArguments (client-sdk/src/idempotency.ts).                  *)
(*                                                                         *)
(* A value is a tuple, its kind first: Null, <<"atom", x>> for a number,   *)
(* truth value or string inside a structure, <<"list", values>> and        *)
(* <<"dict", pairs>> in insertion order with its keys, numbers that stand  *)
(* for strings, in any order.  Arguments may also be a string:             *)
(* <<"json", v>> if it is the text of v, a list or dict, <<"text", x>> if  *)
(* it is not.  A JSON text is the value it is the text of, dicts sorted or *)
(* not, and with each atom and key whether it is escaped: json.dumps       *)
(* escapes what is not ASCII, JSON.stringify leaves it as it is.  The hash *)
(* of the text is taken to be free of collisions.                          *)
(***************************************************************************)
EXTENDS Integers, SequencesExt

CONSTANTS
    Atom,       \* what may stand in a structure, and the text that is no JSON
    Foreign,    \* the atoms that json.dumps spells in a way of its own: text
                \* beyond ASCII, and numbers such as 1.0
    ForeignKey, \* the keys beyond ASCII
    Value,      \* the values arguments are made of
    Depth       \* how deeply each is nested

Null == <<"null">>
EmptyDict == <<"dict", <<>>>>

\* The keys "_raw" and "_val"; a caller's own keys are positive.
RawKey == 0
ValKey == -1
CallerKey == Nat \ {0}

\* How json.dumps spells an atom or a key.
Spelling(x, foreign) == IF x \in foreign THEN "escaped" ELSE "plain"

\* The text of an atom as json.dumps writes it, and of a dict of one key.
AtomText(x) == <<"atom", x, Spelling(x, Foreign)>>
Only(key, x) == <<"dict", <<<<key, "plain", AtomText(x)>>>>>>

\* A dictionary has a key once.
Pairs(V) == {s \in Seq(CallerKey \X V) :
                \A i, j \in DOMAIN s : s[i][1] = s[j][1] => i = j}

\* The values a value consists of.
Items(v) == CASE v[1] = "list" -> {v[2][i] : i \in DOMAIN v[2]}
              [] v[1] = "dict" -> {v[2][i][2] : i \in DOMAIN v[2]}
              [] OTHER -> {}

\* Values are made of values, and finitely nested.
ASSUME ValueAssumption ==
    /\ EmptyDict \in Value
    /\ Value \subseteq {Null} \cup ({"atom"} \X Atom) \cup ({"list"} \X Seq(Value))
                       \cup ({"dict"} \X Pairs(Value))
    /\ Depth \in [Value -> Nat]
    /\ \A v \in Value : \A w \in Items(v) : Depth[w] < Depth[v]

Structure == {v \in Value : v[1] \in {"list", "dict"}}

Argument == Value \cup ({"json"} \X Structure) \cup ({"text"} \X Atom)

\* Slip: in the order they were inserted.
Unsorted(s) == s

\* sort_keys and Array.sort: the same pairs, their keys increasing.
Sorted(s) == CHOOSE t \in [DOMAIN s -> ToSet(s)] :
                /\ ToSet(t) = ToSet(s)
                /\ \A i, j \in DOMAIN s : i < j => t[i][1] < t[j][1]

\* json.dumps(v, sort_keys=True, ...).
Dumps[v \in Value] ==
    CASE v[1] = "list" -> <<"list", [i \in DOMAIN v[2] |-> Dumps[v[2][i]]]>>
      [] v[1] = "dict" ->
           LET sorted == Sorted(v[2]) IN
           <<"dict", [i \in DOMAIN v[2] |->
                        <<sorted[i][1], Spelling(sorted[i][1], ForeignKey), Dumps[sorted[i][2]]>>]>>
      [] v[1] = "atom" -> AtomText(v[2])
      [] OTHER -> v

\* Slip: a string is not parsed.
CanonicalizeRaw(a) ==
    CASE a[1] = "null" -> EmptyDict
      [] a[1] \in {"json", "text"} -> <<"dict", <<<<RawKey, "plain", a>>>>>>
      [] a[1] \in {"list", "dict"} -> Dumps[a]
      [] OTHER -> Only(ValKey, a[2])

\* canonicalize_arguments.
Canonicalize(a) ==
    CASE a[1] = "null" -> EmptyDict
      [] a[1] = "json" -> Dumps[a[2]]
      [] a[1] = "text" -> Only(RawKey, a[2])
      [] a[1] \in {"list", "dict"} -> Dumps[a]
      [] OTHER -> Only(ValKey, a[2])

\* generate_idempotency_key.
GenerateKey(tool, a, token) ==
    IF token # "" THEN <<"token", tool, token>>
    ELSE <<"det", tool, Canonicalize(a)>>

\* canonicalizeArguments of the client, which calls itself for every item: a null
\* anywhere becomes {}.  Strings are just strings, and nothing is escaped.
ClientDumps[v \in Value] ==
    CASE v[1] = "null" -> EmptyDict
      [] v[1] = "list" -> <<"list", [i \in DOMAIN v[2] |-> ClientDumps[v[2][i]]]>>
      [] v[1] = "dict" ->
           LET sorted == Sorted(v[2]) IN
           <<"dict", [i \in DOMAIN v[2] |->
                        <<sorted[i][1], "plain", ClientDumps[sorted[i][2]]>>]>>
      [] OTHER -> <<"atom", v[2], "plain">>

\* Slip: an array is an object like any other.
ClientCanonicalizeObject(a) ==
    IF a[1] = "list"
    THEN <<"dict", [i \in DOMAIN a[2] |-> <<i, "plain", ClientDumps[a[2][i]]>>]>>
    ELSE ClientDumps[a]

ClientCanonicalize(a) == ClientDumps[a]

-----------------------------------------------------------------------------
(* For reference: what arguments mean, whatever the order of their keys.     *)

KeysOf(v) == {v[2][i][1] : i \in DOMAIN v[2]}
At(v, k) == v[2][CHOOSE i \in DOMAIN v[2] : v[2][i][1] = k][2]

\* The JSON value: a dict is a function of its keys.
Denote[v \in Value] ==
    CASE v[1] = "list" -> <<"list", [i \in DOMAIN v[2] |-> Denote[v[2][i]]]>>
      [] v[1] = "dict" -> <<"dict", [k \in KeysOf(v) |-> Denote[At(v, k)]]>>
      [] OTHER -> v

\* None are no arguments, the text of arguments is those.
Meaning(a) == CASE a[1] = "null" -> Denote[EmptyDict]
                [] a[1] = "json" -> Denote[a[2]]
                [] a[1] = "text" -> a
                [] OTHER -> Denote[a]

SameArguments(a, b) == Meaning(a) = Meaning(b)

\* A value and all it consists of.
Parts[v \in Value] == {v} \cup UNION {Parts[w] : w \in Items(v)}

\* There is nothing in it that client and server write differently.
PlainHere(v) ==
    /\ v # Null
    /\ v[1] = "atom" => v[2] \notin Foreign
    /\ v[1] = "dict" => KeysOf(v) \cap ForeignKey = {}

Plain(v) == \A w \in Parts[v] : PlainHere(w)
=============================================================================
