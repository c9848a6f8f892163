-------------------------- MODULE MCToolCallFacade --------------------------
(* Requests the LLM attempts at most twice: two ids for k1, two for k2. *)
EXTENDS ToolCallFacade
CONSTANTS k1, k2, c1, c2, c3, c4

MCKey == {k1, k2}
MCCallId == {c1, c2, c3, c4}
MCKeyOf == [c \in MCCallId |-> IF c \in {c1, c2} THEN k1 ELSE k2]

\* One request, attempted a third time.
OneKey == {k1}
ThreeCallIds == {c1, c2, c3}
OneKeyOf == [c \in ThreeCallIds |-> k1]
=============================================================================
