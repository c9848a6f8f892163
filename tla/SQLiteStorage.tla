---------------------------- MODULE SQLiteStorage ----------------------------
(***************************************************************************)
(* storage/sqlite_storage.py.  Every save, load and delete runs in a       *)
(* worker thread (asyncio.to_thread), purge_expired in its caller's.  With *)
(* an in-memory database the threads share one connection and take         *)
(* self._lock; with a file each opens its own connection and               *)
(*     with self._lock if self.is_memory else threading.Lock():            *)
(* locks a lock nobody else has, so their statements interleave and SQLite *)
(* serialises only the single statements.                                  *)
(***************************************************************************)
EXTENDS Integers

CONSTANTS
    Worker,     \* threads of the default executor
    Key,        \* session keys
    Data,       \* serialised contexts
    TTL,        \* ttl_seconds, the same for every save of a manager
    IsMemory,   \* is_memory
    MaxTime,    \* bound on the clock
    None

ASSUME StorageAssumption ==
    /\ TTL \in Nat
    /\ MaxTime \in Nat
    /\ IsMemory \in BOOLEAN
    /\ None \notin Data \cup Worker \cup Key

VARIABLES
    rows,       \* table sessions: [data, at] or None, committed
    now,        \* time.time()
    reply,      \* what each worker's last load returned
    lock,       \* the worker holding self._lock
    op          \* the operation each worker is executing

vars == <<rows, now, reply, lock, op>>

Row == [data : Data, at : Nat]

ASSUME RowAssumption == None \notin Row

\* An operation in a thread: its arguments, how far it has come, the time it
\* is stamped with and the row it has fetched.
Call(kind, k, v) == [kind |-> kind, pc |-> "enter", key |-> k, data |-> v,
                     at |-> 0, row |-> None]

Idle == [Call("none", None, None) EXCEPT !.pc = "idle"]

Expired(row, t) == t - row.at > TTL

Init ==
    /\ rows = [k \in Key |-> None]
    /\ now = 0
    /\ reply = [w \in Worker |-> None]
    /\ lock = None
    /\ op = [w \in Worker |-> Idle]

-----------------------------------------------------------------------------
(* The async methods hand the operation to a thread. *)

Begin(w, new) ==
    /\ op[w] = Idle
    /\ op' = [op EXCEPT ![w] = new]
    /\ UNCHANGED <<rows, now, reply, lock>>

BeginSave(w, k, v) == Begin(w, Call("save", k, v))
BeginLoad(w, k)    == Begin(w, Call("load", k, None))
BeginDelete(w, k)  == Begin(w, Call("delete", k, None))
BeginPurge(w)      == Begin(w, Call("purge", None, None))

-----------------------------------------------------------------------------
(* The steps of a thread. *)

\* Slip: every thread locks a lock of its own.
EnterUnlocked(w) ==
    /\ op[w].pc = "enter"
    /\ lock' = lock
    /\ op' = [op EXCEPT ![w].pc = "run"]
    /\ UNCHANGED <<rows, now, reply>>

\* The with statement.
Enter(w) ==
    /\ op[w].pc = "enter"
    /\ IsMemory => lock = None
    /\ lock' = IF IsMemory THEN w ELSE lock
    /\ op' = [op EXCEPT ![w].pc = "run"]
    /\ UNCHANGED <<rows, now, reply>>

\* Leaving it, normally or by an exception.
Leave(w) ==
    /\ lock' = IF IsMemory THEN None ELSE lock
    /\ op' = [op EXCEPT ![w] = Idle]

\* Slip: stamped with the oldest time that is still alive.
StampBack(w) ==
    /\ op[w].kind \in {"save", "purge"}
    /\ op[w].pc = "run"
    /\ op' = [op EXCEPT ![w].pc = "execute", ![w].at = now - TTL]
    /\ UNCHANGED <<rows, now, reply, lock>>

\* _save_sync and purge_expired evaluate time.time() before their statement,
\* which may then wait for SQLite's write lock (timeout, busy_timeout).
Stamp(w) ==
    /\ op[w].kind \in {"save", "purge"}
    /\ op[w].pc = "run"
    /\ op' = [op EXCEPT ![w].pc = "execute", ![w].at = now]
    /\ UNCHANGED <<rows, now, reply, lock>>

\* INSERT ... ON CONFLICT DO UPDATE, commit.
Upsert(w) ==
    /\ op[w].kind = "save"
    /\ op[w].pc = "execute"
    /\ rows' = [rows EXCEPT ![op[w].key] =
                   [data |-> op[w].data, at |-> op[w].at]]
    /\ Leave(w)
    /\ UNCHANGED <<now, reply>>

\* DELETE ... WHERE (? - updated_at) > ttl_seconds, commit.
DeleteExpired(w) ==
    /\ op[w].kind = "purge"
    /\ op[w].pc = "execute"
    /\ rows' = [k \in Key |->
                   IF rows[k] # None /\ Expired(rows[k], op[w].at)
                   THEN None ELSE rows[k]]
    /\ Leave(w)
    /\ UNCHANGED <<now, reply>>

\* _delete_sync.
DeleteRow(w) ==
    /\ op[w].kind = "delete"
    /\ op[w].pc = "run"
    /\ rows' = [rows EXCEPT ![op[w].key] = None]
    /\ Leave(w)
    /\ UNCHANGED <<now, reply>>

\* _load_sync: SELECT and fetchone.  Outside a transaction the read is over
\* once the row is fetched.
Select(w) ==
    /\ op[w].kind = "load"
    /\ op[w].pc = "run"
    /\ IF rows[op[w].key] = None
       THEN /\ reply' = [reply EXCEPT ![w] = None]
            /\ Leave(w)
       ELSE /\ op' = [op EXCEPT ![w].pc = "check", ![w].row = rows[op[w].key]]
            /\ UNCHANGED <<reply, lock>>
    /\ UNCHANGED <<rows, now>>

\* Slip: the age is compared the wrong way round at the boundary.
ReturnLate(w) ==
    /\ op[w].pc = "check"
    /\ now - op[w].row.at <= TTL + 1
    /\ reply' = [reply EXCEPT ![w] = op[w].row.data]
    /\ Leave(w)
    /\ UNCHANGED <<rows, now>>

\* return json_data
ReturnRow(w) ==
    /\ op[w].pc = "check"
    /\ ~ Expired(op[w].row, now)
    /\ reply' = [reply EXCEPT ![w] = op[w].row.data]
    /\ Leave(w)
    /\ UNCHANGED <<rows, now>>

\* "Expired, lazily delete": the age of the fetched row has been found too old.
FindExpired(w) ==
    /\ op[w].pc = "check"
    /\ Expired(op[w].row, now)
    /\ op' = [op EXCEPT ![w].pc = "lapse"]
    /\ UNCHANGED <<rows, now, reply, lock>>

\* DELETE ... WHERE session_id = ?, commit, return None: whatever row the key
\* has by now goes.
DeleteLapsed(w) ==
    /\ op[w].pc = "lapse"
    /\ rows' = [rows EXCEPT ![op[w].key] = None]
    /\ reply' = [reply EXCEPT ![w] = None]
    /\ Leave(w)
    /\ UNCHANGED now

\* The statement raises (database locked, disk full): nothing is committed, the
\* async method logs the error and returns normally, a load None.
Fail(w) ==
    /\ op[w].pc \notin {"idle", "enter"}
    /\ reply' = IF op[w].kind = "load" THEN [reply EXCEPT ![w] = None] ELSE reply
    /\ Leave(w)
    /\ UNCHANGED <<rows, now>>

Tick ==
    /\ now < MaxTime
    /\ now' = now + 1
    /\ UNCHANGED <<rows, reply, lock, op>>

Step(w) ==
    \/ Stamp(w) \/ Upsert(w) \/ DeleteExpired(w) \/ DeleteRow(w)
    \/ Select(w) \/ ReturnRow(w) \/ FindExpired(w) \/ DeleteLapsed(w)

Next ==
    \/ \E w \in Worker :
        \/ \E k \in Key, v \in Data : BeginSave(w, k, v)
        \/ \E k \in Key : BeginLoad(w, k)
        \/ \E k \in Key : BeginDelete(w, k)
        \/ BeginPurge(w)
        \/ Enter(w)
        \/ Step(w)
        \/ Fail(w)
    \/ Tick

Spec == Init /\ [][Next]_vars

-----------------------------------------------------------------------------
Op == [kind : {"none", "save", "load", "delete", "purge"},
       pc : {"idle", "enter", "run", "execute", "check", "lapse"},
       key : Key \cup {None}, data : Data \cup {None},
       at : Nat, row : Row \cup {None}]

TypeOK ==
    /\ rows \in [Key -> Row \cup {None}]
    /\ now \in 0..MaxTime
    /\ reply \in [Worker -> Data \cup {None}]
    /\ lock \in Worker \cup {None}
    /\ op \in [Worker -> Op]

Inside(w) == op[w].pc \notin {"idle", "enter"}

\* The one sqlite3 connection of an in-memory database (check_same_thread is
\* off) is never used by two threads at once, and no path out of a statement,
\* an exception included, keeps the lock.
SharedConnectionGuarded ==
    IsMemory => \A w \in Worker : Inside(w) <=> lock = w

\* A row that has not expired goes away only because somebody deleted that
\* session: a reconnecting client that finds an old row expired never takes a
\* newer save with it (storage/base.py, load; "Expired, lazily delete").
LiveRowSurvives ==
    [][\A k \in Key :
          rows[k] # None /\ ~ Expired(rows[k], now) /\ rows'[k] = None =>
              \E w \in Worker :
                  op[w].kind = "delete" /\ op[w].key = k /\ op'[w] = Idle]_vars

Contract == INSTANCE SessionStore WITH rows <- rows, now <- now, reply <- reply

\* The backend is the store of storage/base.py: each operation takes effect at
\* one moment between its call and its return.
KeepsContract == Contract!StoreSpec
=============================================================================
