----------------------------- MODULE SessionStore -----------------------------
(***************************************************************************)
(* What a storage backend promises (storage/base.py): a string saved under *)
(* a key can be loaded until it is deleted or its time to live runs out.   *)
(* Saves, loads and deletes take effect one at a time; a backend may fail  *)
(* an operation, which then changes nothing and, for a load, finds         *)
(* nothing.  SQLiteStorage is shown to implement this with its in-memory   *)
(* database.                                                               *)
(***************************************************************************)
EXTENDS Integers

CONSTANTS Worker, Key, Data, TTL, None

VARIABLES
    rows,       \* the stored row of each key
    now,        \* wall-clock time
    reply       \* what each worker's last load returned

storeVars == <<rows, now, reply>>

Expired(row, t) == t - row.at > TTL

Lapsed == {k \in Key : rows[k] # None /\ Expired(rows[k], now)}

Drop(S) == [k \in Key |-> IF k \in S THEN None ELSE rows[k]]

StoreInit ==
    /\ rows = [k \in Key |-> None]
    /\ now = 0
    /\ reply = [w \in Worker |-> None]

\* A save is stamped with the time it was made and never goes behind the row it
\* replaces.
Put(k, v, t) ==
    /\ t <= now
    /\ rows[k] # None => rows[k].at <= t
    /\ rows' = [rows EXCEPT ![k] = [data |-> v, at |-> t]]
    /\ UNCHANGED <<now, reply>>

Remove(k) ==
    /\ rows' = Drop({k})
    /\ UNCHANGED <<now, reply>>

\* Only rows whose time has run out may go away by themselves.
Purge(S) ==
    /\ S \subseteq Lapsed
    /\ rows' = Drop(S)
    /\ UNCHANGED <<now, reply>>

Read(w, k) ==
    /\ rows[k] # None
    /\ k \notin Lapsed
    /\ reply' = [reply EXCEPT ![w] = rows[k].data]
    /\ UNCHANGED <<rows, now>>

\* Nothing stored, an expired row (which may be dropped), or a failed load.
ReadNothing(w, S) ==
    /\ S \subseteq Lapsed
    /\ rows' = Drop(S)
    /\ reply' = [reply EXCEPT ![w] = None]
    /\ UNCHANGED now

Tick ==
    /\ now' = now + 1
    /\ UNCHANGED <<rows, reply>>

StoreNext ==
    \/ \E k \in Key, v \in Data, t \in 0..now : Put(k, v, t)
    \/ \E k \in Key : Remove(k)
    \/ \E S \in SUBSET Key : Purge(S)
    \/ \E w \in Worker, k \in Key : Read(w, k)
    \/ \E w \in Worker, S \in SUBSET Key : ReadNothing(w, S)
    \/ Tick

StoreSpec == StoreInit /\ [][StoreNext]_storeVars
=============================================================================
