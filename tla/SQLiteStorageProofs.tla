------------------------- MODULE SQLiteStorageProofs -------------------------
(***************************************************************************)
(* Proofs about SQLiteStorage, for any threads, session keys, contexts,    *)
(* time to live and bound on the clock: its types and its lock for any     *)
(* database, and for an in-memory one that live rows survive and that the  *)
(* statements of the threads implement SessionStore.                       *)
(***************************************************************************)
EXTENDS SQLiteStorage, TLAPS

-----------------------------------------------------------------------------
(* The types. *)

LEMMA InitType == Init => TypeOK
BY StorageAssumption DEF Init, TypeOK, Idle, Call, Op

\* What a thread is handed is an operation that has not begun.
LEMMA CallType ==
    ASSUME NEW kind \in {"save", "load", "delete", "purge"},
           NEW k \in Key \cup {None}, NEW v \in Data \cup {None}
    PROVE  /\ Call(kind, k, v) \in Op
           /\ Call(kind, k, v).pc = "enter"
           /\ Call(kind, k, v).at = 0
BY DEF Call, Op

LEMMA IdleType == Idle \in Op /\ Idle.pc = "idle" /\ Idle.kind = "none" /\ Idle.at = 0
BY DEF Idle, Call, Op

\* An operation has its arguments, and a fetched row belongs to a load.
Formed ==
    \A w \in Worker :
        /\ op[w].kind = "save" => op[w].key \in Key /\ op[w].data \in Data
        /\ op[w].kind \in {"load", "delete"} => op[w].key \in Key
        /\ op[w].pc \in {"check", "lapse"} => op[w].kind = "load" /\ op[w].row \in Row

LEMMA NextType == TypeOK /\ Formed /\ [Next]_vars => TypeOK' /\ Formed'
<1> SUFFICES ASSUME TypeOK, Formed, [Next]_vars PROVE TypeOK' /\ Formed'
  OBVIOUS
<1> USE DEF TypeOK, Formed
<1>1. ASSUME NEW w \in Worker, NEW kind \in {"save", "load", "delete", "purge"},
             NEW k \in Key \cup {None}, NEW v \in Data \cup {None},
             kind # "purge" => k \in Key, kind = "save" => v \in Data,
             Begin(w, Call(kind, k, v))
      PROVE  TypeOK' /\ Formed'
  <2>1. Call(kind, k, v) \in Op
    BY CallType
  <2>. QED BY <1>1, <2>1 DEF Begin, Call
<1>2. ASSUME NEW w \in Worker, Enter(w)
      PROVE  TypeOK' /\ Formed'
  BY <1>2 DEF Enter, Op
<1>3. ASSUME NEW w \in Worker, Leave(w),
             rows' \in [Key -> Row \cup {None}],
             reply' \in [Worker -> Data \cup {None}],
             now' = now
      PROVE  TypeOK' /\ Formed'
  BY <1>3, IdleType DEF Leave
<1>4. ASSUME NEW w \in Worker, Stamp(w)
      PROVE  TypeOK' /\ Formed'
  <2>1. now \in Nat
    BY StorageAssumption
  <2>2. [op[w] EXCEPT !.pc = "execute", !.at = now] \in Op
    BY <2>1 DEF Op
  <2>3. op' = [op EXCEPT ![w] = [op[w] EXCEPT !.pc = "execute", !.at = now]]
    BY <1>4 DEF Stamp
  <2>. QED BY <1>4, <2>2, <2>3 DEF Stamp, Op
<1>5. ASSUME NEW w \in Worker, Upsert(w)
      PROVE  TypeOK' /\ Formed'
  <2>1. [data |-> op[w].data, at |-> op[w].at] \in Row
    BY <1>5 DEF Upsert, Op, Row
  <2>. QED BY <1>3, <1>5, <2>1 DEF Upsert
<1>6. ASSUME NEW w \in Worker, DeleteExpired(w) \/ DeleteRow(w) \/ DeleteLapsed(w)
      PROVE  TypeOK' /\ Formed'
  BY <1>3, <1>6 DEF DeleteExpired, DeleteRow, DeleteLapsed
<1>7. ASSUME NEW w \in Worker, Select(w)
      PROVE  TypeOK' /\ Formed'
  <2>1. CASE rows[op[w].key] = None
    BY <1>3, <1>7, <2>1 DEF Select
  <2>2. CASE rows[op[w].key] # None
    BY <1>7, <2>2 DEF Select, Op
  <2>. QED BY <2>1, <2>2
<1>8. ASSUME NEW w \in Worker, ReturnRow(w)
      PROVE  TypeOK' /\ Formed'
  BY <1>3, <1>8 DEF ReturnRow, Row
<1>9. ASSUME NEW w \in Worker, FindExpired(w)
      PROVE  TypeOK' /\ Formed'
  BY <1>9 DEF FindExpired, Op
<1>10. ASSUME NEW w \in Worker, Fail(w)
       PROVE  TypeOK' /\ Formed'
  BY <1>3, <1>10 DEF Fail
<1>11. CASE Tick
  BY <1>11, StorageAssumption DEF Tick
<1>12. CASE UNCHANGED vars
  BY <1>12 DEF vars
<1>13. ASSUME NEW w \in Worker,
              \/ \E k \in Key, v \in Data : BeginSave(w, k, v)
              \/ \E k \in Key : BeginLoad(w, k) \/ BeginDelete(w, k)
              \/ BeginPurge(w)
       PROVE  TypeOK' /\ Formed'
  BY <1>1, <1>13, StorageAssumption
     DEF BeginSave, BeginLoad, BeginDelete, BeginPurge
<1>. QED BY <1>2, <1>4, <1>5, <1>6, <1>7, <1>8, <1>9, <1>10, <1>11, <1>12, <1>13
         DEF Next, Step

\* Every state is well typed.
THEOREM StorageTypeCorrect == Spec => []TypeOK
<1>1. Init => Formed
  BY DEF Init, Formed, Idle, Call
<1>. QED BY <1>1, InitType, NextType, PTL DEF Spec

-----------------------------------------------------------------------------
(* The lock and the clock. *)

\* What a step does to the thread that takes it: it is handed an operation,
\* takes the lock, goes on inside, or leaves.
Moves(w) ==
    /\ now' = now
    /\ \A v \in Worker \ {w} : op'[v] = op[v]
    /\ \/ /\ \E kind \in {"save", "load", "delete", "purge"},
               k \in Key \cup {None}, v \in Data \cup {None} :
               op[w] = Idle /\ op'[w] = Call(kind, k, v)
          /\ UNCHANGED <<rows, reply, lock>>
       \/ Enter(w) /\ op'[w] = [op[w] EXCEPT !.pc = "run"]
       \/ Stamp(w) /\ op'[w] = [op[w] EXCEPT !.pc = "execute", !.at = now]
       \/ /\ Select(w) /\ rows[op[w].key] # None
          /\ op'[w] = [op[w] EXCEPT !.pc = "check", !.row = rows[op[w].key]]
       \/ FindExpired(w) /\ op'[w] = [op[w] EXCEPT !.pc = "lapse"]
       \/ /\ \/ Upsert(w) \/ DeleteExpired(w) \/ DeleteRow(w)
             \/ Select(w) /\ rows[op[w].key] = None
             \/ ReturnRow(w) \/ DeleteLapsed(w) \/ Fail(w)
          /\ op'[w] = Idle
          /\ lock' = IF IsMemory THEN None ELSE lock

LEMMA StepKinds ==
    ASSUME TypeOK, [Next]_vars
    PROVE  (\E w \in Worker : Moves(w)) \/ Tick \/ UNCHANGED vars
<1> USE DEF TypeOK
<1>1. ASSUME NEW w \in Worker, NEW kind \in {"save", "load", "delete", "purge"},
             NEW k \in Key \cup {None}, NEW v \in Data \cup {None},
             Begin(w, Call(kind, k, v))
      PROVE  Moves(w)
  BY <1>1 DEF Begin, Moves
<1>2. ASSUME NEW w \in Worker,
             \/ \E k \in Key, v \in Data : BeginSave(w, k, v)
             \/ \E k \in Key : BeginLoad(w, k) \/ BeginDelete(w, k)
             \/ BeginPurge(w)
      PROVE  Moves(w)
  BY <1>1, <1>2 DEF BeginSave, BeginLoad, BeginDelete, BeginPurge
<1>3. ASSUME NEW w \in Worker, Enter(w)
      PROVE  Moves(w)
  BY <1>3 DEF Enter, Moves
<1>4. ASSUME NEW w \in Worker, Stamp(w)
      PROVE  Moves(w)
  <2>1. op' = [op EXCEPT ![w] = [op[w] EXCEPT !.pc = "execute", !.at = now]]
    BY <1>4 DEF Stamp
  <2>. QED BY <1>4, <2>1 DEF Stamp, Moves
<1>5. ASSUME NEW w \in Worker, Select(w), rows[op[w].key] # None
      PROVE  Moves(w)
  <2>1. op' = [op EXCEPT ![w] = [op[w] EXCEPT !.pc = "check", !.row = rows[op[w].key]]]
    BY <1>5 DEF Select
  <2>. QED BY <1>5, <2>1 DEF Select, Moves
<1>6. ASSUME NEW w \in Worker, FindExpired(w)
      PROVE  Moves(w)
  BY <1>6 DEF FindExpired, Moves
<1>7. ASSUME NEW w \in Worker,
             \/ Upsert(w) \/ DeleteExpired(w) \/ DeleteRow(w)
             \/ Select(w) /\ rows[op[w].key] = None
             \/ ReturnRow(w) \/ DeleteLapsed(w) \/ Fail(w)
      PROVE  Moves(w)
  <2>1. Leave(w) /\ now' = now
    BY <1>7 DEF Upsert, DeleteExpired, DeleteRow, Select, ReturnRow, DeleteLapsed, Fail
  <2>2. op'[w] = Idle /\ \A v \in Worker \ {w} : op'[v] = op[v]
    BY <2>1 DEF Leave
  <2>. QED BY <1>7, <2>1, <2>2 DEF Leave, Moves
<1>. QED BY <1>2, <1>3, <1>4, <1>5, <1>6, <1>7 DEF Next, Step

\* How far a thread has come, and with which stamp and row.
LEMMA Progress ==
    ASSUME TypeOK, NEW w \in Worker, Moves(w)
    PROVE  /\ op'[w].at \in {0, op[w].at, now}
           /\ op'[w].pc = "execute" => op'[w].at = now
           /\ op'[w].pc = "check" =>
                op'[w].key = op[w].key /\ op'[w].row = rows[op[w].key]
           /\ op'[w].pc = "lapse" =>
                /\ op[w].pc = "check" /\ Expired(op[w].row, now)
                /\ op'[w].key = op[w].key /\ op'[w].row = op[w].row
<1>1. op[w] \in Op
  BY DEF TypeOK
<1>2. ASSUME NEW kind \in {"save", "load", "delete", "purge"},
             NEW k \in Key \cup {None}, NEW v \in Data \cup {None},
             op'[w] = Call(kind, k, v)
      PROVE  op'[w].pc = "enter" /\ op'[w].at = 0
  BY <1>2, CallType
<1>3. ASSUME op'[w] = [op[w] EXCEPT !.pc = "run"]
      PROVE  op'[w].pc = "run" /\ op'[w].at = op[w].at
  BY <1>1, <1>3 DEF Op
<1>4. ASSUME op'[w] = [op[w] EXCEPT !.pc = "execute", !.at = now]
      PROVE  op'[w].pc = "execute" /\ op'[w].at = now
  BY <1>1, <1>4 DEF Op
<1>5. ASSUME op'[w] = [op[w] EXCEPT !.pc = "check", !.row = rows[op[w].key]]
      PROVE  /\ op'[w].pc = "check" /\ op'[w].at = op[w].at
             /\ op'[w].key = op[w].key /\ op'[w].row = rows[op[w].key]
  BY <1>1, <1>5 DEF Op
<1>6. ASSUME FindExpired(w), op'[w] = [op[w] EXCEPT !.pc = "lapse"]
      PROVE  /\ op'[w].pc = "lapse" /\ op'[w].at = op[w].at
             /\ op[w].pc = "check" /\ Expired(op[w].row, now)
             /\ op'[w].key = op[w].key /\ op'[w].row = op[w].row
  BY <1>1, <1>6 DEF Op, FindExpired
<1>7. ASSUME op'[w] = Idle
      PROVE  op'[w].pc = "idle" /\ op'[w].at = 0
  BY <1>7, IdleType
<1>. QED BY <1>2, <1>3, <1>4, <1>5, <1>6, <1>7 DEF Moves

LEMMA NextGuarded ==
    ASSUME TypeOK, SharedConnectionGuarded, [Next]_vars
    PROVE  SharedConnectionGuarded'
<1>1. ASSUME NEW w \in Worker, Moves(w)
      PROVE  SharedConnectionGuarded'
  <2>1. \A v \in Worker \ {w} : Inside(v)' <=> Inside(v)
    BY <1>1 DEF Moves, Inside
  <2>2. CASE UNCHANGED lock /\ (Inside(w) <=> Inside(w)')
    BY <2>1, <2>2 DEF SharedConnectionGuarded
  <2>3. CASE Enter(w) /\ op'[w] = [op[w] EXCEPT !.pc = "run"]
    <3>1. Inside(w)'
      BY <2>3 DEF Inside, TypeOK, Op
    <3>2. IsMemory => lock = None /\ lock' = w
      BY <2>3 DEF Enter
    <3>. QED BY <2>1, <3>1, <3>2, StorageAssumption DEF SharedConnectionGuarded
  <2>4. CASE Inside(w) /\ op'[w] = Idle /\ lock' = (IF IsMemory THEN None ELSE lock)
    <3>1. ~ Inside(w)'
      BY <2>4, IdleType DEF Inside
    <3>. QED BY <2>1, <2>4, <3>1, StorageAssumption DEF SharedConnectionGuarded
  <2>5. CASE \E kind \in {"save", "load", "delete", "purge"},
               k \in Key \cup {None}, v \in Data \cup {None} :
               op[w] = Idle /\ op'[w] = Call(kind, k, v) /\ UNCHANGED lock
    BY <2>2, <2>5, IdleType, CallType DEF Inside
  <2>6. CASE Stamp(w) /\ op'[w] = [op[w] EXCEPT !.pc = "execute", !.at = now]
    BY <2>2, <2>6 DEF Stamp, Inside, TypeOK, Op
  <2>7. CASE FindExpired(w) /\ op'[w] = [op[w] EXCEPT !.pc = "lapse"]
    BY <2>2, <2>7 DEF FindExpired, Inside, TypeOK, Op
  <2>8. CASE /\ Select(w) /\ rows[op[w].key] # None
             /\ op'[w] = [op[w] EXCEPT !.pc = "check", !.row = rows[op[w].key]]
    BY <2>2, <2>8 DEF Select, Inside, TypeOK, Op
  <2>. QED
    BY <1>1, <2>2, <2>3, <2>4, <2>5, <2>6, <2>7, <2>8
       DEF Moves, Inside, Stamp, Select, FindExpired, Upsert, DeleteExpired,
           DeleteRow, ReturnRow, DeleteLapsed, Fail
<1>. QED BY <1>1, StepKinds DEF Tick, vars, SharedConnectionGuarded, Inside

\* No two threads are in the shared connection at once.
THEOREM LockKeepsOthersOut == Spec => []SharedConnectionGuarded
<1>1. Init => SharedConnectionGuarded
  BY IdleType, StorageAssumption DEF Init, SharedConnectionGuarded, Inside
<1>2. Init => Formed
  BY DEF Init, Formed, Idle, Call
<1>. QED BY <1>1, <1>2, InitType, NextType, NextGuarded, PTL DEF Spec

\* No stamp is ahead of the clock, and a row that was found expired stays so.
Dated ==
    /\ \A k \in Key : rows[k] # None => rows[k].at <= now
    /\ \A w \in Worker :
        /\ op[w].at <= now
        /\ op[w].pc = "lapse" => Expired(op[w].row, now)

\* Behind the lock nothing changes but what the operation itself changes: a
\* stamp is not behind any row, and the row fetched is the row stored.
Current ==
    IsMemory => \A w \in Worker :
        /\ op[w].pc = "execute" =>
             \A k \in Key : rows[k] # None => rows[k].at <= op[w].at
        /\ op[w].pc \in {"check", "lapse"} => rows[op[w].key] = op[w].row

IInv == TypeOK /\ Formed /\ SharedConnectionGuarded /\ Dated /\ Current

LEMMA NextDated == 
    ASSUME TypeOK, Formed, Dated, [Next]_vars
    PROVE  Dated'
<1>1. now \in Nat /\ TTL \in Nat
  BY StorageAssumption DEF TypeOK
<1>2. ASSUME NEW w \in Worker, Moves(w)
      PROVE  Dated'
  <2>1. \A k \in Key : rows'[k] # None => rows'[k].at <= now
    BY <1>1, <1>2
       DEF Moves, Dated, TypeOK, Enter, Stamp, Select, FindExpired, Upsert,
           DeleteExpired, DeleteRow, ReturnRow, DeleteLapsed, Fail
  <2>2. op'[w].at <= now
    BY <1>1, <1>2, Progress DEF Dated
  <2>3. op'[w].pc = "lapse" => Expired(op'[w].row, now)
    BY <1>2, Progress
  <2>. QED BY <1>2, <2>1, <2>2, <2>3 DEF Moves, Dated, Expired
<1>3. CASE Tick
  <2>1. now' = now + 1 /\ UNCHANGED <<rows, op>>
    BY <1>3 DEF Tick
  <2>2. \A k \in Key : rows[k] # None => rows[k].at \in Nat
    BY DEF TypeOK, Row
  <2>3. \A w \in Worker : op[w].at \in Nat
    BY DEF TypeOK, Op
  <2>4. \A w \in Worker : op[w].pc = "lapse" => op[w].row.at \in Nat
    BY DEF Formed, Row
  <2>. QED BY <1>1, <2>1, <2>2, <2>3, <2>4 DEF Dated, Expired
<1>. QED BY <1>2, <1>3, StepKinds DEF vars, Dated, Expired

LEMMA NextCurrent ==
    ASSUME TypeOK, Formed, SharedConnectionGuarded, Dated, Current, [Next]_vars
    PROVE  Current'
<1> SUFFICES ASSUME IsMemory PROVE Current'
  BY DEF Current
<1>1. ASSUME NEW w \in Worker, Moves(w)
      PROVE  Current'
  <2>1. CASE UNCHANGED rows
    <3>1. op'[w].pc = "execute" =>
            \A k \in Key : rows[k] # None => rows[k].at <= op'[w].at
      BY <1>1, Progress DEF Dated
    <3>2. op'[w].pc \in {"check", "lapse"} => rows[op'[w].key] = op'[w].row
      BY <1>1, Progress DEF Current
    <3>. QED BY <1>1, <2>1, <3>1, <3>2 DEF Moves, Current
  <2>2. CASE Inside(w) /\ op'[w] = Idle
    BY <1>1, <2>2 DEF Moves, Current, SharedConnectionGuarded, Inside, Idle, Call
  <2>. QED
    BY <1>1, <2>1, <2>2
       DEF Moves, Inside, Enter, Stamp, Select, FindExpired, Upsert, DeleteExpired,
           DeleteRow, ReturnRow, DeleteLapsed, Fail
<1>. QED BY <1>1, StepKinds DEF Tick, vars, Current

LEMMA Invariance == Spec => []IInv
<1>1. Init => IInv
  BY InitType, StorageAssumption
     DEF Init, IInv, Formed, SharedConnectionGuarded, Inside, Dated, Current, Idle, Call
<1>2. IInv /\ [Next]_vars => IInv'
  BY NextType, NextGuarded, NextDated, NextCurrent DEF IInv
<1>. QED BY <1>1, <1>2, PTL DEF Spec

-----------------------------------------------------------------------------
(* What the lock buys. *)

\* With an in-memory database a row that still lives is dropped only by a
\* delete of its session.
THEOREM MemoryKeepsLiveRows ==
    ASSUME IsMemory
    PROVE  Spec => LiveRowSurvives
<1>1. ASSUME IInv, [Next]_vars, NEW k \in Key,
             rows[k] # None, ~ Expired(rows[k], now), rows'[k] = None
      PROVE  \E w \in Worker :
                op[w].kind = "delete" /\ op[w].key = k /\ op'[w] = Idle
  <2>1. PICK w \in Worker : Moves(w)
    BY <1>1, StepKinds DEF IInv, Tick, vars
  <2>2. CASE Upsert(w)
    <3>1. [data |-> op[w].data, at |-> op[w].at] \in Row
      BY <1>1, <2>2 DEF Upsert, IInv, TypeOK, Formed, Op, Row
    <3>. QED BY <1>1, <2>2, <3>1, RowAssumption DEF Upsert, IInv, TypeOK
  <2>3. CASE DeleteExpired(w)
    <3>1. Expired(rows[k], op[w].at)
      BY <1>1, <2>3 DEF DeleteExpired
    <3>2. op[w].at <= now /\ op[w].at \in Nat /\ now \in Nat /\ rows[k].at \in Nat
      BY <1>1, StorageAssumption DEF IInv, TypeOK, Dated, Op, Row
    <3>. QED BY <1>1, <3>1, <3>2, StorageAssumption DEF Expired
  <2>4. CASE DeleteRow(w)
    <3>1. op[w].kind = "delete" /\ op[w].key = k
      BY <1>1, <2>4 DEF DeleteRow, IInv, TypeOK
    <3>2. op'[w] = Idle
      BY <1>1, <2>4 DEF DeleteRow, Leave, IInv, TypeOK
    <3>. QED BY <3>1, <3>2
  <2>5. CASE DeleteLapsed(w)
    <3>1. op[w].key = k
      BY <1>1, <2>5 DEF DeleteLapsed, IInv, TypeOK
    <3>2. rows[k] = op[w].row /\ Expired(op[w].row, now)
      BY <2>5, <3>1, <1>1 DEF DeleteLapsed, IInv, Current, Dated
    <3>. QED BY <1>1, <3>2
  <2>. QED BY <1>1, <2>1, <2>2, <2>3, <2>4, <2>5
           DEF Moves, Enter, Stamp, Select, FindExpired, ReturnRow, Fail
<1>2. IInv /\ [Next]_vars =>
        [\A k \in Key :
            rows[k] # None /\ ~ Expired(rows[k], now) /\ rows'[k] = None =>
                \E w \in Worker :
                    op[w].kind = "delete" /\ op[w].key = k /\ op'[w] = Idle]_vars
  BY <1>1
<1>. QED BY <1>2, Invariance, PTL DEF Spec, LiveRowSurvives

\* Dropping no row, or one, in the words of the contract.
LEMMA DropNothing ==
    ASSUME TypeOK, UNCHANGED rows
    PROVE  rows' = Contract!Drop({})
BY DEF TypeOK, Contract!Drop

LEMMA DropOne ==
    ASSUME TypeOK, NEW k \in Key, rows' = [rows EXCEPT ![k] = None]
    PROVE  rows' = Contract!Drop({k})
BY DEF TypeOK, Contract!Drop

\* With an in-memory database every statement of a thread is an operation of
\* the store, or is not seen in it.
LEMMA StepKeepsContract ==
    ASSUME IsMemory, IInv, [Next]_vars
    PROVE  [Contract!StoreNext]_(Contract!storeVars)
<1> USE DEF IInv
<1>1. ASSUME NEW w \in Worker, Upsert(w)
      PROVE  Contract!StoreNext
  <2>1. /\ op[w].key \in Key /\ op[w].data \in Data
        /\ op[w].at \in 0..now
        /\ rows[op[w].key] # None => rows[op[w].key].at <= op[w].at
    <3>1. op[w].at \in Nat /\ now \in Nat
      BY StorageAssumption DEF TypeOK, Op
    <3>. QED BY <1>1, <3>1 DEF Upsert, Formed, Dated, Current
  <2>2. Contract!Put(op[w].key, op[w].data, op[w].at)
    BY <1>1, <2>1, StorageAssumption DEF Upsert, Contract!Put, TypeOK
  <2>. QED BY <2>1, <2>2 DEF Contract!StoreNext
<1>2. ASSUME NEW w \in Worker, DeleteExpired(w)
      PROVE  Contract!StoreNext
  <2> DEFINE S == {k \in Key : rows[k] # None /\ Expired(rows[k], op[w].at)}
  <2>1. S \subseteq Contract!Lapsed
    <3>1. op[w].at \in Nat /\ now \in Nat /\ TTL \in Nat /\ op[w].at <= now
      BY StorageAssumption DEF TypeOK, Op, Dated
    <3>2. \A k \in Key : rows[k] # None => rows[k].at \in Nat
      BY DEF TypeOK, Row
    <3>. QED BY <3>1, <3>2 DEF Contract!Lapsed, Contract!Expired, Expired
  <2>2. rows' = Contract!Drop(S)
    BY <1>2 DEF DeleteExpired, Contract!Drop
  <2>3. Contract!Purge(S)
    BY <1>2, <2>1, <2>2 DEF DeleteExpired, Contract!Purge
  <2>. QED BY <2>3 DEF Contract!StoreNext
<1>3. ASSUME NEW w \in Worker, DeleteRow(w)
      PROVE  Contract!StoreNext
  <2>1. op[w].key \in Key
    BY <1>3 DEF DeleteRow, Formed
  <2>2. Contract!Remove(op[w].key)
    BY <1>3, <2>1, DropOne DEF DeleteRow, Contract!Remove
  <2>. QED BY <2>1, <2>2 DEF Contract!StoreNext
<1>4. ASSUME NEW w \in Worker, UNCHANGED <<rows, now>>,
             reply' = [reply EXCEPT ![w] = None]
      PROVE  Contract!StoreNext
  <2>1. Contract!ReadNothing(w, {})
    BY <1>4, DropNothing DEF Contract!ReadNothing
  <2>. QED BY <2>1 DEF Contract!StoreNext
<1>5. ASSUME NEW w \in Worker, ReturnRow(w)
      PROVE  Contract!StoreNext
  <2>1. /\ op[w].key \in Key
        /\ rows[op[w].key] = op[w].row /\ op[w].row # None
    BY <1>5, RowAssumption DEF ReturnRow, Formed, Current
  <2>2. Contract!Read(w, op[w].key)
    BY <1>5, <2>1
       DEF ReturnRow, Contract!Read, Contract!Lapsed, Contract!Expired, Expired
  <2>. QED BY <2>1, <2>2 DEF Contract!StoreNext
<1>6. ASSUME NEW w \in Worker, DeleteLapsed(w)
      PROVE  Contract!StoreNext
  <2>1. /\ op[w].key \in Key
        /\ rows[op[w].key] = op[w].row /\ op[w].row # None
        /\ Expired(op[w].row, now)
    BY <1>6, RowAssumption DEF DeleteLapsed, Formed, Current, Dated
  <2>2. {op[w].key} \subseteq Contract!Lapsed
    BY <2>1 DEF Contract!Lapsed, Contract!Expired, Expired
  <2>3. Contract!ReadNothing(w, {op[w].key})
    BY <1>6, <2>1, <2>2, DropOne DEF DeleteLapsed, Contract!ReadNothing
  <2>. QED BY <2>1, <2>3 DEF Contract!StoreNext
<1>7. CASE Tick
  BY <1>7 DEF Tick, Contract!Tick, Contract!StoreNext
<1>8. CASE UNCHANGED <<rows, now, reply>>
  BY <1>8 DEF Contract!storeVars
<1>9. ASSUME NEW w \in Worker, Moves(w)
      PROVE  [Contract!StoreNext]_(Contract!storeVars)
  BY <1>1, <1>2, <1>3, <1>4, <1>5, <1>6, <1>8, <1>9
     DEF Moves, Enter, Stamp, Select, FindExpired, Fail
<1>. QED BY <1>7, <1>8, <1>9, StepKinds DEF vars

\* With an in-memory database the statements of the threads implement the store
\* of storage/base.py.
THEOREM MemoryKeepsContract ==
    ASSUME IsMemory
    PROVE  Spec => KeepsContract
<1>1. Init => Contract!StoreInit
  BY DEF Init, Contract!StoreInit
<1>2. IInv /\ [Next]_vars => [Contract!StoreNext]_(Contract!storeVars)
  BY StepKeepsContract
<1>. QED BY <1>1, <1>2, Invariance, PTL DEF Spec, KeepsContract, Contract!StoreSpec
=============================================================================
