----------------------- MODULE MCIdempotencyRegistry -----------------------
(***************************************************************************)
(* Two requests with the same arguments.  The LLM makes the first one      *)
(* twice, once with the arguments as a dictionary and once as a text with  *)
(* its keys in another order; the second carries a client's token.         *)
(***************************************************************************)
EXTENDS ToolRequests
CONSTANTS c1, c2, c3

X == <<"atom", "x">>
Dict1(k, v) == <<"dict", <<<<k, v>>>>>>
Dict2(k, v, l, w) == <<"dict", <<<<k, v>>, <<l, w>>>>>>

\* Values of two levels with at most two keys or items, all leaves and two inner ones.
\* The atom y and the key 3 are beyond ASCII.
MCAtom == {"x", "y"}
MCForeign == {"y"}
Leaf == {Null, X, <<"atom", "y">>}
Inner == {EmptyDict, Dict1(1, Null), Dict2(2, X, 1, X), Dict2(1, X, 2, X)}
Branch == Leaf \cup Inner
Outer == {<<"list", <<>>>>}
         \cup {Dict1(k, v) : k \in 1..3, v \in Branch}
         \cup {Dict2(k, v, 3 - k, w) : k \in 1..2, v \in Branch, w \in Branch}
         \cup {<<"list", s>> : s \in [1..1 -> Branch] \cup [1..2 -> Branch]}
MCValue == Branch \cup Outer
MCDepth == [v \in MCValue |-> IF v \in Leaf THEN 0 ELSE IF v \in Inner THEN 1 ELSE 2]

MCAttempted == Inner \cup Outer \cup {<<"json", v>> : v \in Inner \cup Outer}
               \cup {Null, X, <<"text", "x">>}

MCCallId == {c1, c2, c3}
MCToolOf == [c \in MCCallId |-> "book"]
MCArgumentsOf == [c \in MCCallId |->
    IF c = c2 THEN <<"json", Dict2(2, Dict2(1, X, 2, X), 1, X)>>
    ELSE Dict2(1, X, 2, Dict2(2, X, 1, X))]
MCTokenOf == [c \in MCCallId |-> IF c = c3 THEN "token" ELSE ""]

\* A key is represented by the calls that have it.
MCKeyOf == [c \in MCCallId |-> {d \in MCCallId : KeyText[d] = KeyText[c]}]
MCKey == {MCKeyOf[c] : c \in MCCallId}
=============================================================================
