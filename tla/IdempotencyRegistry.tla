------------------------- MODULE IdempotencyRegistry -------------------------
(***************************************************************************)
(* The registry of one session and the save/resume cycle its contents go   *)
(* through: the host registers, completes and fails calls on the live      *)
(* registry, a checkpoint stores to_dict(), a reconnecting client gets a   *)
(* registry rebuilt from the stored dictionary.                            *)
(***************************************************************************)
EXTENDS ToolRegistry

VARIABLES
    reg,        \* the registry of the live session
    saved       \* the dictionary in storage, None when there is none

vars == <<reg, saved>>

Init ==
    /\ reg = EmptyRegistry
    /\ saved = None

\* record_tool_call for a call the LLM makes, with its id ...
Register(c, s) ==
    /\ reg' = RegisterCall(reg, KeyOf[c], c, s)
    /\ UNCHANGED saved

\* ... or without one: tool_call_id is optional.
RegisterNoId(k, s) ==
    /\ reg' = RegisterCall(reg, k, None, s)
    /\ UNCHANGED saved

Complete(n, res) ==
    /\ reg' = CompleteCall(reg, n, res)
    /\ UNCHANGED saved

Fail(n, err) ==
    /\ reg' = FailCall(reg, n, err)
    /\ UNCHANGED saved

\* checkpoint stores to_dict() of the registry it is given.
Checkpoint ==
    /\ saved' = ToDict(reg)
    /\ UNCHANGED reg

\* resume_or_start: the stored dictionary becomes the registry of the new
\* connection; with nothing stored the session starts with an empty one.  What
\* the old connection did since its last checkpoint is gone.
Resume ==
    /\ reg' = IF saved = None THEN EmptyRegistry ELSE LoadFromDict(saved)
    /\ UNCHANGED saved

\* clear, at the deliberate end of a call.
Clear ==
    /\ saved' = None
    /\ UNCHANGED reg

Next ==
    \/ \E c \in CallId, s \in InitialStatus : Register(c, s)
    \/ \E k \in Key, s \in InitialStatus : RegisterNoId(k, s)
    \/ \E n \in Name, res \in Result : Complete(n, res)
    \/ \E n \in Name, err \in Result \cup {None} : Fail(n, err)
    \/ Checkpoint
    \/ Resume
    \/ Clear

Spec == Init /\ [][Next]_vars

-----------------------------------------------------------------------------
TypeOK ==
    /\ reg \in Registry
    /\ saved \in Dict \cup {None}

\* The two lookups never disagree: whether check finds a call by its id or by
\* its key, across any number of re-registrations and reconnects, the answer
\* is the one record of the request (idempotency.py "Supports dual lookup").
DualLookup ==
    /\ RecordsOwnTheirCalls(reg)
    /\ IndexLeadsHome(reg)
    /\ \A c \in CallId : Check(reg, KeyOf[c], c) = reg.records[KeyOf[c]]

\* Storing a registry and loading it back loses no request and no outcome, and
\* once loaded further round trips change nothing at all.
RoundTrip ==
    LET back == LoadFromDict(ToDict(reg)) IN
    /\ Preserves(reg, back)
    /\ LoadFromDict(ToDict(back)) = back

\* Within a connection a completed call never becomes pending again, whoever
\* registers it once more: only a reconnect that loads an older checkpoint can
\* take the completion back.
CompletedSticks ==
    [][\A k \in Key :
          /\ Recorded(reg, k)
          /\ reg.records[k].status = "completed"
          /\ ~ Resume
          => Recorded(reg', k) /\ reg'.records[k].status # "pending"]_vars

\* A completion that reached storage is never taken back: over any sequence of
\* reconnects, repeated attempts and later checkpoints of the session, the
\* stored record of the request does not vanish or return to pending, so no
\* reconnect is ever told that a finished call is unconfirmed.
StoredCompletionSticks ==
    [][\A k \in Key :
          /\ saved # None
          /\ saved' # None
          /\ saved[k] # None
          /\ saved[k].status = "completed"
          => saved'[k] # None /\ saved'[k].status # "pending"]_vars
=============================================================================
