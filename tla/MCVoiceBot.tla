------------------------------ MODULE MCVoiceBot ------------------------------
(* One request, which the LLM may make twice, and every kind of accident. *)
EXTENDS VoiceBot
CONSTANTS k1, c1, c2

MCKey == {k1}
MCCallId == {c1, c2}
MCKeyOf == [c \in MCCallId |-> k1]

\* The connections and the two calls of the request are interchangeable.
Alike == Permutations(Conn) \cup Permutations(MCCallId)
=============================================================================
