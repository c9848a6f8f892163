----------------------------- MODULE ToolRegistry -----------------------------
(***************************************************************************)
(* The methods of IdempotencyRegistry (pipecat_session_continuity/         *)
(* idempotency.py) as operators on registries, and the dictionaries they   *)
(* are stored as.                                                          *)
(*                                                                         *)
(* An idempotency key stands for one logical request (tool name plus       *)
(* canonical arguments, or a client token); a tool call id is what the LLM *)
(* mints for one attempt at it.  Timestamps, tool name and arguments are   *)
(* functions of the key or play no part in any decision, and are left out. *)
(***************************************************************************)
CONSTANTS
    Key,        \* idempotency keys, "idemp:..." strings
    CallId,     \* tool call ids minted by the LLM
    Result,     \* what a tool returns, or the error text of a failed one
    InitialStatus, \* the statuses hosts record a call with
    KeyOf,      \* the key generate_idempotency_key computes for a call
    None

\* A call id belongs to one call, hence to one tool and one set of arguments:
\* KeyOf is a function.  Ids and "idemp:" keys never collide.
ASSUME RegistryAssumption ==
    /\ Key \cap CallId = {}
    /\ KeyOf \in [CallId -> Key]
    /\ None \notin Key \cup CallId \cup Result

\* The strings that name a record: dictionary keys and lookup arguments.
Name == Key \cup CallId

Status == {"pending", "completed", "failed"}

Record == [key : Key, call : Name \cup {None},
           status : Status, result : Result \cup {None}]

ASSUME RecordAssumption ==
    /\ None \notin Record
    /\ InitialStatus \subseteq Status

Registry == [records : [Key -> Record \cup {None}],
             index   : [Name -> Key \cup {None}]]

\* What to_dict returns and a checkpoint stores.  Its order is immaterial: all
\* the entries of one key hold the same record (ToolCallFacade models the
\* ordered dictionaries for which this is not so).
Dict == [Name -> Record \cup {None}]

EmptyRegistry == [records |-> [k \in Key |-> None],
                  index   |-> [n \in Name |-> None]]

-----------------------------------------------------------------------------
(* The methods of IdempotencyRegistry, as functions of the registry. *)

\* _resolve_key: a key that has a record first, then the call-id index.
Resolve(r, n) ==
    IF n \in Key /\ r.records[n] # None THEN n ELSE r.index[n]

GetRecord(r, n) ==
    LET k == Resolve(r, n) IN IF k = None THEN None ELSE r.records[k]

NewRecord(k, c, s) == [key |-> k, call |-> c, status |-> s, result |-> None]

NoteCall(rec, c) == IF c = None THEN rec ELSE [rec EXCEPT !.call = c]

\* Slip: an existing record starts over.
RegisterCallAnew(r, k, c, s) ==
    [records |-> [r.records EXCEPT ![k] = NewRecord(k, c, s)],
     index   |-> IF c = None THEN r.index ELSE [r.index EXCEPT ![c] = k]]

\* Slip: the id of a repeated attempt is not indexed.
RegisterCallUnindexed(r, k, c, s) ==
    [records |-> [r.records EXCEPT ![k] =
                    IF @ = None THEN NewRecord(k, c, s) ELSE NoteCall(@, c)],
     index   |-> IF c = None \/ r.records[k] # None THEN r.index
                 ELSE [r.index EXCEPT ![c] = k]]

\* register_call: an existing record keeps its status and takes the new id.
RegisterCall(r, k, c, s) ==
    [records |-> [r.records EXCEPT ![k] =
                    IF @ = None THEN NewRecord(k, c, s) ELSE NoteCall(@, c)],
     index   |-> IF c = None THEN r.index ELSE [r.index EXCEPT ![c] = k]]

\* complete_call and fail_call: nothing happens to a name that resolves to none.
Settle(r, n, s, res) ==
    LET k == Resolve(r, n) IN
    IF k = None \/ r.records[k] = None THEN r
    ELSE [r EXCEPT !.records[k] = [@ EXCEPT !.status = s, !.result = res]]

CompleteCall(r, n, res) == Settle(r, n, "completed", res)
FailCall(r, n, err)     == Settle(r, n, "failed", err)

\* check: the record of the call id when the id is known, else that of the key.
Check(r, k, c) ==
    IF c # None /\ r.index[c] # None /\ r.records[r.index[c]] # None
    THEN r.records[r.index[c]]
    ELSE r.records[k]

\* Slip: only the calls still pending are stored.
ToDictPending(r) ==
    [n \in Name |-> LET rec == GetRecord(r, n) IN
        IF rec = None THEN None
        ELSE IF rec.status = "pending" THEN rec ELSE None]

\* to_dict: the records, and one more entry per indexed call id.
ToDict(r) ==
    [n \in Name |-> IF n \in Key THEN r.records[n]
                    ELSE IF r.index[n] = None THEN None
                    ELSE r.records[r.index[n]]]

\* val.get("tool_call_id") or key
CallOf(n, rec) == IF rec.call = None THEN n ELSE rec.call

\* Slip: the index maps a call id to the entry it was found in.
LoadIndexByEntry(d) ==
    [records |-> [k \in Key |->
        IF d[k] = None THEN None ELSE [d[k] EXCEPT !.call = CallOf(k, d[k])]],
     index |-> [n \in Name |->
        LET from == {m \in Name : d[m] # None /\ CallOf(m, d[m]) = n}
        IN  IF from = {} THEN None
            ELSE IF from \subseteq Key THEN CHOOSE m \in from : TRUE
            ELSE CHOOSE m \in from \ Key : TRUE]]

\* Slip: the stored status is not read back.
LoadAsPending(d) ==
    [records |-> [k \in Key |->
        IF d[k] = None THEN None
        ELSE [d[k] EXCEPT !.call = CallOf(k, d[k]), !.status = "pending"]],
     index |-> [n \in Name |->
        LET from == {m \in Name : d[m] # None /\ CallOf(m, d[m]) = n}
        IN  IF from = {} THEN None ELSE d[CHOOSE m \in from : TRUE].key]]

\* _load_from_dict on a dictionary to_dict made: of the entries of one key the
\* last one wins, they are equal, and the one named by the key is among them.
\* Only the call id stored IN a record is indexed, not the entry's own name.
LoadFromDict(d) ==
    [records |-> [k \in Key |->
        IF d[k] = None THEN None ELSE [d[k] EXCEPT !.call = CallOf(k, d[k])]],
     index |-> [n \in Name |->
        LET from == {m \in Name : d[m] # None /\ CallOf(m, d[m]) = n}
        IN  IF from = {} THEN None ELSE d[CHOOSE m \in from : TRUE].key]]

-----------------------------------------------------------------------------
(* What is to be true of a registry. *)

Recorded(r, k) == r.records[k] # None

\* The request a name belongs to.
Home(n) == IF n \in Key THEN n ELSE KeyOf[n]

\* A record sits under its own key, and the call id it carries leads back to it.
RecordsOwnTheirCalls(r) ==
    \A k \in Key : Recorded(r, k) =>
        /\ r.records[k].key = k
        /\ r.records[k].call # None => r.index[r.records[k].call] = k

\* The index never dangles and never crosses calls: what a name resolves to has
\* a record, and it is the record of the name's own request.
IndexLeadsHome(r) ==
    \A n \in Name : r.index[n] # None =>
        /\ r.index[n] = Home(n)
        /\ Recorded(r, Home(n))
        /\ r.records[Home(n)].call # None

\* What a reconnect preserves of a registry: every request, its outcome, and a
\* way to complete it by the id of its latest attempt.
Preserves(r, back) ==
    \A k \in Key :
        /\ Recorded(back, k) <=> Recorded(r, k)
        /\ Recorded(r, k) =>
            /\ back.records[k].status = r.records[k].status
            /\ back.records[k].result = r.records[k].result
            /\ r.records[k].call # None => Resolve(back, r.records[k].call) = k
=============================================================================
