------------------------- MODULE CheckpointingProofs -------------------------
(***************************************************************************)
(* Proofs about the safety of Checkpointing, for any number of coroutines  *)
(* that save at the same time, any bound on the changes, and storage calls *)
(* that run in threads or do not.                                          *)
(***************************************************************************)
EXTENDS Checkpointing, TLAPS

Kind == {"none", "tracked", "untracked", "final", "host", "meta"}

TaskState == [kind : Kind,
              pc : {"free", "scheduled", "reading", "read", "writing", "landed"},
              snap : Snapshot \cup {None}]

-----------------------------------------------------------------------------
(* What a step does to the coroutine that takes it. *)

Becomes(t, k, p, s) == task' = [task EXCEPT ![t] = [kind |-> k, pc |-> p, snap |-> s]]

\* A storage call: of a scheduled checkpoint, of EndFrame, of a host, or of
\* set_metadata without threads, which has read before it.
Saving(t, kind, snap) ==
    /\ CallSave(t, kind, snap)
    /\ UNCHANGED <<env, live, awaited, blind>>
    /\ \/ /\ task[t].pc = "scheduled" /\ kind = task[t].kind
          /\ snap = SnapshotOf(live)
          /\ UNCHANGED <<phase, final>>
       \/ /\ task[t] = Free /\ kind = "final"
          /\ snap = SnapshotOf(live)
          /\ phase = "running" /\ phase' = "ending" /\ final' = snap
       \/ /\ task[t] = Free /\ kind = "host"
          /\ snap = SnapshotOf(live)
          /\ UNCHANGED <<phase, final>>
       \/ /\ task[t] = Free /\ kind = "meta" /\ ~ threaded
          /\ snap = OrEmpty(stored)
          /\ UNCHANGED <<phase, final>>

\* set_metadata begins with a load.
Loading(t) ==
    /\ task[t] = Free /\ threaded
    /\ Overlap(t, "meta")
    /\ Becomes(t, "meta", "reading", None)
    /\ UNCHANGED <<env, live, stored, phase, awaited, blind, final>>

LEMMA SnapshotType ==
    /\ \A n \in 0..MaxChange : SnapshotOf(n) \in Snapshot /\ SnapshotOf(n) # None
    /\ Empty \in Snapshot /\ Empty # None /\ Empty = [msgs |-> 0, tools |-> 0]
    /\ \A s \in Snapshot \cup {None} : OrEmpty(s) \in Snapshot
<1>1. \A n \in 0..MaxChange : SnapshotOf(n) \in Snapshot
  BY DEF SnapshotOf, Snapshot
<1>2. Empty \in Snapshot /\ Empty = [msgs |-> 0, tools |-> 0]
  BY <1>1, CheckpointAssumption DEF Empty, SnapshotOf
<1>. QED BY <1>1, <1>2, CheckpointAssumption DEF OrEmpty

LEMMA FreeType == Free \in TaskState /\ Free = [kind |-> "none", pc |-> "free", snap |-> None]
BY DEF Free, TaskState, Kind

LEMMA Progress ==
    ASSUME task \in [Task -> TaskState], NEW t \in Task
    PROVE  /\ Frame(t) =>
                Becomes(t, IF nonBlocking THEN "tracked" ELSE "untracked", "scheduled", None)
           /\ Land(t) \/ LoseWrite(t) => Becomes(t, task[t].kind, "landed", task[t].snap)
           /\ Return(t) => Becomes(t, "none", "free", None)
           /\ ReadStored(t) => Becomes(t, "meta", "read", OrEmpty(stored))
           /\ LoseRead(t) => Becomes(t, "meta", "read", Empty)
           /\ WriteBack(t) => Becomes(t, task[t].kind, "writing", task[t].snap)
           /\ SetMetadata(t) /\ threaded => Loading(t)
           /\ \A kind, snap : CallSave(t, kind, snap) =>
                Becomes(t, kind, IF threaded THEN "writing" ELSE "landed", snap)
<1>0. task[t] \in TaskState
  OBVIOUS
<1>1. ASSUME Frame(t)
      PROVE  Becomes(t, IF nonBlocking THEN "tracked" ELSE "untracked", "scheduled", None)
  BY <1>1 DEF Frame, Becomes
<1>2. ASSUME Land(t) \/ LoseWrite(t)
      PROVE  Becomes(t, task[t].kind, "landed", task[t].snap)
  BY <1>0, <1>2 DEF Land, LoseWrite, Becomes, TaskState
<1>3. ASSUME Return(t) PROVE Becomes(t, "none", "free", None)
  BY <1>3 DEF Return, Becomes, Free
<1>4. ASSUME ReadStored(t)
      PROVE  Becomes(t, "meta", "read", OrEmpty(stored))
  BY <1>4 DEF ReadStored, Becomes
<1>5. ASSUME LoseRead(t)
      PROVE  Becomes(t, "meta", "read", Empty)
  BY <1>5 DEF LoseRead, Becomes
<1>6. ASSUME WriteBack(t)
      PROVE  Becomes(t, task[t].kind, "writing", task[t].snap)
  <2>1. [task[t] EXCEPT !.pc = "writing"] =
           [kind |-> task[t].kind, pc |-> "writing", snap |-> task[t].snap]
    BY <1>0 DEF TaskState
  <2>. QED BY <1>6, <2>1 DEF WriteBack, Becomes
<1>7. ASSUME SetMetadata(t), threaded
      PROVE  Loading(t)
  BY <1>7 DEF SetMetadata, Loading, Becomes
<1>8. ASSUME NEW kind, NEW snap, CallSave(t, kind, snap)
      PROVE  Becomes(t, kind, IF threaded THEN "writing" ELSE "landed", snap)
  BY <1>8 DEF CallSave, Becomes
<1>. QED BY <1>1, <1>2, <1>3, <1>4, <1>5, <1>6, <1>7, <1>8

\* The storage calls in flight after a step.
LEMMA BecomesFacts ==
    ASSUME task \in [Task -> TaskState],
           NEW t \in Task, NEW k, NEW p, NEW s, Becomes(t, k, p, s)
    PROVE  /\ task'[t].kind = k /\ task'[t].pc = p /\ task'[t].snap = s
           /\ \A u \in Task \ {t} : task'[u] = task[u]
           /\ Active' = IF p \in {"reading", "read", "writing"}
                        THEN Active \cup {t} ELSE Active \ {t}
           /\ /\ k \in Kind
              /\ p \in {"free", "scheduled", "reading", "read", "writing", "landed"}
              /\ s \in Snapshot \cup {None}
              => task' \in [Task -> TaskState]
BY DEF Becomes, Active, TaskState

LEMMA StepKinds ==
    ASSUME threaded \in BOOLEAN, task \in [Task -> TaskState], [Next]_vars
    PROVE  \/ Advance \/ Cleanup \/ Dispose \/ Crash \/ UNCHANGED vars
           \/ \E t \in Task :
                \/ Frame(t) \/ Land(t) \/ LoseWrite(t) \/ Return(t)
                \/ ReadStored(t) \/ LoseRead(t) \/ WriteBack(t) \/ Loading(t)
                \/ \E kind, snap : Saving(t, kind, snap)
<1>1. ASSUME NEW t \in Task, Run(t) \/ EndFrame(t) \/ HostCheckpoint(t)
      PROVE  \E kind, snap : Saving(t, kind, snap)
  BY <1>1 DEF Run, EndFrame, HostCheckpoint, Saving
<1>2. ASSUME NEW t \in Task, SetMetadata(t), ~ threaded
      PROVE  Saving(t, "meta", OrEmpty(stored))
  BY <1>2 DEF SetMetadata, Saving
<1>. QED BY <1>1, <1>2, Progress DEF Next

-----------------------------------------------------------------------------
(* The types, and what a snapshot is of. *)

LEMMA InitType == Init => TypeOK
BY FreeType, CheckpointAssumption DEF Init, TypeOK, TaskState, Kind

\* A snapshot is of one moment, and not of a later one than now.
Taken(s) == s # None => s.msgs = s.tools /\ s.msgs <= live

\* What is written, and what EndFrame wanted, are such snapshots; only threads
\* hold up a storage call.
Past ==
    /\ Taken(stored) /\ Taken(final)
    /\ \A t \in Task :
        /\ Taken(task[t].snap)
        /\ task[t].pc \in {"read", "writing"} => task[t].snap # None
        /\ t \in Active => threaded

LEMMA NextType ==
    ASSUME TypeOK, Past, [Next]_vars
    PROVE  TypeOK' /\ Past'
<1> USE DEF TypeOK
<1>a. task \in [Task -> TaskState] /\ threaded \in BOOLEAN /\ nonBlocking \in BOOLEAN
  BY DEF TaskState, Kind
<1>b. /\ SnapshotOf(live) \in Snapshot /\ SnapshotOf(live) # None
      /\ Taken(SnapshotOf(live))
  BY SnapshotType DEF Taken, SnapshotOf
<1>c. /\ OrEmpty(stored) \in Snapshot /\ OrEmpty(stored) # None
      /\ Taken(OrEmpty(stored)) /\ Taken(Empty)
  BY SnapshotType, CheckpointAssumption DEF Taken, OrEmpty, Past
<1>1. ASSUME NEW t \in Task, NEW k \in Kind,
             NEW p \in {"free", "scheduled", "reading", "read", "writing", "landed"},
             NEW s \in Snapshot \cup {None}, Becomes(t, k, p, s),
             Taken(s), p \in {"read", "writing"} => s # None,
             p \in {"reading", "read", "writing"} => threaded,
             UNCHANGED <<env, live, awaited>>,
             stored' \in {stored, s}, final' \in {final, None, SnapshotOf(live)},
             phase' \in {phase, "ending", "ended"},
             rivals' \subseteq Task, blind' \subseteq Task, alone' \in BOOLEAN
      PROVE  TypeOK' /\ Past'
  <2>1. task' \in [Task -> TaskState] /\ TypeOK'
    BY <1>a, <1>b, <1>1, BecomesFacts DEF env, TaskState, Kind
  <2>2. \A x : Taken(x) => Taken(x)'
    BY <1>1 DEF Taken
  <2>3. Taken(stored)' /\ Taken(final)'
    BY <1>b, <1>1 DEF Taken, Past
  <2>4. ASSUME NEW u \in Task
        PROVE  /\ Taken(task[u].snap)'
               /\ task'[u].pc \in {"read", "writing"} => task'[u].snap # None
               /\ u \in Active' => threaded'
    BY <1>a, <1>1, BecomesFacts DEF Taken, Past, env
  <2>. QED BY <2>1, <2>3, <2>4 DEF Past
<1>2. ASSUME NEW t \in Task, Frame(t)
      PROVE  TypeOK' /\ Past'
  BY <1>a, <1>1, <1>2, Progress DEF Frame, Kind, Taken
<1>3. ASSUME NEW t \in Task, Land(t) \/ LoseWrite(t)
      PROVE  TypeOK' /\ Past'
  BY <1>a, <1>1, <1>3, Progress DEF Land, LoseWrite, TaskState, Past, env
<1>4. ASSUME NEW t \in Task, Return(t)
      PROVE  TypeOK' /\ Past'
  <2>1. Becomes(t, "none", "free", None)
    BY <1>a, <1>4, Progress
  <2>2. stored' = stored /\ final' = final /\ alone' = alone
        /\ rivals' \subseteq Task /\ blind' \subseteq Task /\ phase' \in {phase, "ended"}
        /\ UNCHANGED <<env, live, awaited>>
    BY <1>4 DEF Return
  <2>. QED BY <1>1, <2>1, <2>2 DEF Kind, Taken
<1>5. ASSUME NEW t \in Task, ReadStored(t) \/ LoseRead(t)
      PROVE  TypeOK' /\ Past'
  <2>1. PICK s \in Snapshot : /\ Becomes(t, "meta", "read", s)
                              /\ s # None /\ Taken(s)
    BY <1>a, <1>c, <1>5, Progress, SnapshotType
  <2>2. threaded
    BY <1>5 DEF ReadStored, LoseRead, Past, Active
  <2>3. stored' = stored /\ final' \in {final, None} /\ alone' = alone
        /\ rivals' \subseteq Task /\ blind' \subseteq Task /\ phase' = phase
        /\ UNCHANGED <<env, live, awaited>>
    BY <1>5 DEF ReadStored, LoseRead
  <2>. QED BY <1>1, <2>1, <2>2, <2>3 DEF Kind
<1>6. ASSUME NEW t \in Task, WriteBack(t)
      PROVE  TypeOK' /\ Past'
  <2>1. Becomes(t, task[t].kind, "writing", task[t].snap)
    BY <1>a, <1>6, Progress
  <2>2. /\ threaded /\ task[t].snap # None /\ Taken(task[t].snap)
    BY <1>6 DEF WriteBack, Past, Active
  <2>3. task[t].kind \in Kind /\ task[t].snap \in Snapshot \cup {None}
    BY <1>a DEF TaskState
  <2>4. UNCHANGED <<env, live, stored, phase, awaited, rivals, blind, final, alone>>
    BY <1>6 DEF WriteBack
  <2>. QED BY <1>1, <2>1, <2>2, <2>3, <2>4
<1>7. ASSUME NEW t \in Task, Loading(t)
      PROVE  TypeOK' /\ Past'
  <2>1. rivals' \subseteq Task /\ blind' = blind /\ alone' \in BOOLEAN
    BY <1>7 DEF Loading, Overlap, Active
  <2>. QED BY <1>1, <1>7, <2>1 DEF Loading, Kind, Taken
<1>8. ASSUME NEW t \in Task, NEW kind, NEW snap, Saving(t, kind, snap)
      PROVE  TypeOK' /\ Past'
  <2>1. kind \in Kind /\ snap \in Snapshot /\ snap # None /\ Taken(snap)
    BY <1>a, <1>b, <1>c, <1>8 DEF Saving, Kind, TaskState
  <2>2. rivals' \subseteq Task /\ blind' = blind /\ alone' \in BOOLEAN /\ stored' \in {stored, snap}
    BY <1>8 DEF Saving, CallSave, Overlap, Active
  <2>3. Becomes(t, kind, IF threaded THEN "writing" ELSE "landed", snap)
    BY <1>a, <1>8, Progress DEF Saving
  <2>4. phase' \in {phase, "ending"} /\ final' \in {final, SnapshotOf(live)}
    BY <1>8 DEF Saving
  <2>5. UNCHANGED <<env, live, awaited>>
    BY <1>8 DEF Saving
  <2>6. CASE threaded
    BY <1>1, <2>1, <2>2, <2>3, <2>4, <2>5, <2>6
  <2>7. CASE ~ threaded
    BY <1>1, <2>1, <2>2, <2>3, <2>4, <2>5, <2>7
  <2>. QED BY <2>6, <2>7
<1>9. CASE Advance
  <2>1. live' \in 0..MaxChange /\ live' = live + 1 /\ live \in Nat
    BY <1>9, CheckpointAssumption DEF Advance
  <2>2. \A s \in Snapshot \cup {None} : Taken(s) /\ s # None =>
           s.msgs = s.tools /\ s.msgs <= live'
    BY <2>1, CheckpointAssumption DEF Taken, Snapshot
  <2>3. UNCHANGED <<threaded, nonBlocking, stored, task, phase, awaited, rivals, blind, final, alone>>
    BY <1>9 DEF Advance, env
  <2>4. \A t \in Task : task[t].snap \in Snapshot \cup {None}
    BY <1>a DEF TaskState
  <2>. QED BY <2>1, <2>2, <2>3, <2>4 DEF Past, Taken, Active
<1>10. CASE Cleanup \/ Dispose
  BY <1>10 DEF Cleanup, Dispose, Past, Taken, env, Active, Tracked
<1>11. CASE Crash
  <2>1. stored' \in Snapshot \cup {None} /\ Taken(stored)
    BY <1>11 DEF Crash, Past
  <2>2. /\ live' \in 0..MaxChange
        /\ stored' # None => stored'.msgs = stored'.tools /\ stored'.msgs = live'
    BY <1>11, <2>1, SnapshotType, CheckpointAssumption
       DEF Crash, OrEmpty, Snapshot, Taken
  <2>3. task' \in [Task -> TaskState] /\ \A t \in Task : task'[t].snap = None /\ task'[t].pc = "free"
    BY <1>11, FreeType DEF Crash
  <2>. QED BY <1>11, <2>1, <2>2, <2>3 DEF Crash, Past, Taken, env, Active, TaskState, Kind
<1>12. CASE UNCHANGED vars
  BY <1>12 DEF vars, env, Past, Taken, Active
<1>. QED BY <1>a, <1>2, <1>3, <1>4, <1>5, <1>6, <1>7, <1>8, <1>9, <1>10, <1>11, <1>12,
            StepKinds

LEMMA InitPast == Init => Past
BY FreeType DEF Init, Past, Taken, Active

\* Every state is well typed.
THEOREM CheckpointTypeCorrect == Spec => []TypeOK
BY InitType, InitPast, NextType, PTL DEF Spec

\* No reconnect finds messages and tool calls of different moments.
THEOREM SnapshotsAreWhole == Spec => []NoTornSnapshot
<1>1. Past => NoTornSnapshot
  BY DEF Past, Taken, NoTornSnapshot
<1>. QED BY <1>1, InitType, InitPast, NextType, PTL DEF Spec

-----------------------------------------------------------------------------
(* Cleanup. *)

\* While cleanup waits it knows every task that a frame has scheduled, for no
\* frame comes any more.
Draining ==
    nonBlocking => /\ phase = "cleaning" => Tracked \subseteq awaited
                   /\ phase = "disposed" => Tracked = {}

LEMMA NextDraining ==
    ASSUME TypeOK, Draining, [Next]_vars
    PROVE  Draining'
<1>a. task \in [Task -> TaskState] /\ threaded \in BOOLEAN
  BY DEF TypeOK, TaskState, Kind
<1>1. ASSUME NEW t \in Task, NEW k, NEW p, NEW s, Becomes(t, k, p, s),
             k = "tracked" => task[t].kind = "tracked" \/ phase = "running",
             UNCHANGED <<env, awaited>>,
             phase' \in {"cleaning", "disposed"} => phase' = phase
      PROVE  Draining'
  <2>1. task[t].kind = "tracked" \/ phase = "running" \/ k # "tracked"
    BY <1>1
  <2>2. phase # "running" => Tracked' \subseteq Tracked
    BY <1>a, <1>1, <2>1, BecomesFacts DEF Tracked
  <2>. QED BY <1>1, <2>2 DEF Draining, env
<1>2. ASSUME NEW t \in Task,
             \/ Frame(t) \/ Land(t) \/ LoseWrite(t) \/ Return(t)
             \/ ReadStored(t) \/ LoseRead(t) \/ WriteBack(t)
      PROVE  Draining'
  <2>1. UNCHANGED <<env, awaited>> /\ phase' \in {phase, "ended"}
    BY <1>2 DEF Frame, Land, LoseWrite, Return, ReadStored, LoseRead, WriteBack
  <2>2. PICK k, p, s : /\ Becomes(t, k, p, s)
                       /\ k = "tracked" => task[t].kind = "tracked" \/ Frame(t)
    BY <1>a, <1>2, Progress
  <2>. QED BY <1>1, <2>1, <2>2 DEF Frame
<1>3. ASSUME NEW t \in Task, Loading(t)
      PROVE  Draining'
  BY <1>1, <1>3 DEF Loading
<1>4. ASSUME NEW t \in Task, NEW kind, NEW snap, Saving(t, kind, snap)
      PROVE  Draining'
  <2>1. Becomes(t, kind, IF threaded THEN "writing" ELSE "landed", snap)
    BY <1>a, <1>4, Progress DEF Saving
  <2>. QED BY <1>1, <1>4, <2>1 DEF Saving
<1>5. CASE Cleanup \/ Dispose
  BY <1>5 DEF Cleanup, Dispose, Draining, Tracked, env
<1>6. CASE Advance \/ Crash \/ UNCHANGED vars
  BY <1>6 DEF Advance, Crash, Draining, Tracked, vars, env
<1>. QED BY <1>a, <1>2, <1>3, <1>4, <1>5, <1>6, StepKinds

\* When cleanup returns no task scheduled by a frame is still saving.
THEOREM CleanupWaitsForAll == Spec => []CleanupDrains
<1>1. Init => Draining
  BY DEF Init, Draining
<1>2. Draining => CleanupDrains
  BY DEF Draining, CleanupDrains
<1>. QED BY <1>1, <1>2, InitType, InitPast, NextType, NextDraining, PTL DEF Spec

-----------------------------------------------------------------------------
(* Saves that overlap no other. *)

\* A set_metadata whose load failed is on its way to save the empty state.
Blind ==
    \A t \in blind :
        /\ task[t].pc \in {"read", "writing", "landed"}
        /\ task[t].snap = Empty

\* A save that has met no rival is the only one, and what it writes is not
\* behind what is stored, unless its load failed.
Lone ==
    \A t \in Active \ rivals :
        /\ Active = {t}
        /\ t \notin blind /\ task[t].pc \in {"read", "writing"} /\ stored # None =>
             Covers(task[t].snap, stored)

LEMMA NextBlind ==
    ASSUME TypeOK, Past, Blind, [Next]_vars
    PROVE  Blind'
<1>a. task \in [Task -> TaskState] /\ threaded \in BOOLEAN /\ blind \subseteq Task
  BY DEF TypeOK, TaskState, Kind
<1>1. ASSUME NEW t \in Task, NEW k, NEW p, NEW s, Becomes(t, k, p, s),
             blind' \subseteq blind,
             \/ t \notin blind'
             \/ p \in {"read", "writing", "landed"} /\ s = task[t].snap
      PROVE  Blind'
  <2>. SUFFICES ASSUME NEW u \in blind'
                PROVE  task'[u].pc \in {"read", "writing", "landed"} /\ task'[u].snap = Empty'
    BY DEF Blind
  <2>1. Empty' = Empty
    BY DEF Empty, SnapshotOf
  <2>2. u \in blind /\ u \in Task
    BY <1>a, <1>1
  <2>. QED BY <1>a, <1>1, <2>1, <2>2, BecomesFacts DEF Blind
<1>2. ASSUME NEW t \in Task, Frame(t) \/ ReadStored(t) \/ Return(t)
      PROVE  Blind'
  <2>1. blind' \subseteq blind /\ t \notin blind'
    BY <1>a, <1>2 DEF Frame, ReadStored, Return, Free, Blind
  <2>. QED BY <1>a, <1>1, <1>2, <2>1, Progress
<1>3. ASSUME NEW t \in Task, Land(t) \/ LoseWrite(t) \/ WriteBack(t)
      PROVE  Blind'
  <2>1. blind' = blind
    BY <1>3 DEF Land, LoseWrite, WriteBack
  <2>. QED BY <1>a, <1>1, <1>3, <2>1, Progress
<1>4. ASSUME NEW t \in Task, LoseRead(t)
      PROVE  Blind'
  <2>1. blind' = blind \cup {t} /\ Empty' = Empty
    BY <1>4 DEF LoseRead, Empty, SnapshotOf
  <2>2. Becomes(t, "meta", "read", Empty)
    BY <1>a, <1>4, Progress
  <2>. QED BY <1>a, <2>1, <2>2, BecomesFacts DEF Blind
<1>5. ASSUME NEW t \in Task, Loading(t)
      PROVE  Blind'
  <2>1. blind' = blind /\ t \notin blind
    BY <1>5 DEF Loading, Free, Blind
  <2>. QED BY <1>a, <1>1, <1>5, <2>1 DEF Loading
<1>6. ASSUME NEW t \in Task, NEW kind, NEW snap, Saving(t, kind, snap)
      PROVE  Blind'
  <2>1. blind' = blind /\ t \notin blind
    BY <1>6 DEF Saving, Free, Blind
  <2>2. Becomes(t, kind, IF threaded THEN "writing" ELSE "landed", snap)
    BY <1>a, <1>6, Progress DEF Saving
  <2>. QED BY <1>a, <1>1, <2>1, <2>2
<1>7. CASE Advance \/ Cleanup \/ Dispose \/ UNCHANGED vars
  <2>1. blind' = blind /\ task' = task /\ Empty' = Empty
    BY <1>7 DEF Advance, Cleanup, Dispose, vars, Empty, SnapshotOf
  <2>. QED BY <2>1 DEF Blind
<1>8. CASE Crash
  BY <1>8 DEF Crash, Blind
<1>. QED BY <1>a, <1>2, <1>3, <1>4, <1>5, <1>6, <1>7, <1>8, StepKinds

\* The snapshots that can be taken now cover what is stored.
LEMMA NowCovers ==
    ASSUME TypeOK, Past
    PROVE  /\ stored # None => Covers(SnapshotOf(live), stored)
           /\ stored # None => Covers(OrEmpty(stored), stored)
           /\ final # None => Covers(SnapshotOf(live), final)
<1>1. \A s \in Snapshot : Taken(s) /\ s # None => Covers(SnapshotOf(live), s)
  BY DEF Taken, SnapshotOf, Covers
<1>2. \A s \in Snapshot : Covers(s, s)
  BY CheckpointAssumption DEF Covers, Snapshot
<1>. QED BY <1>1, <1>2 DEF TypeOK, Past, OrEmpty

LEMMA NextLone ==
    ASSUME TypeOK, Past, Lone, [Next]_vars
    PROVE  Lone'
<1>a. task \in [Task -> TaskState] /\ threaded \in BOOLEAN /\ Active \subseteq Task
  BY DEF TypeOK, TaskState, Kind, Active
<1>1. ASSUME NEW t \in Task, NEW k, NEW p, NEW s, Becomes(t, k, p, s),
             t \notin Active, rivals' = rivals, UNCHANGED <<stored, blind>>,
             p \notin {"reading", "read", "writing"}
      PROVE  Lone'
  BY <1>a, <1>1, BecomesFacts DEF Lone
<1>2. ASSUME NEW t \in Task, NEW k, NEW p, NEW s, Becomes(t, k, p, s),
             t \in Active, rivals' = rivals, blind' = blind \cup {t} \/ blind' = blind,
             (/\ p \in {"read", "writing"} /\ stored # None
              /\ t \notin rivals /\ t \notin blind') => Covers(s, stored),
             UNCHANGED stored
      PROVE  Lone'
  BY <1>a, <1>2, BecomesFacts DEF Lone
<1>3. ASSUME NEW t \in Task, Land(t) \/ LoseWrite(t)
      PROVE  Lone'
  <2>1. t \in Active /\ rivals' = rivals /\ blind' = blind
    BY <1>3 DEF Land, LoseWrite, Active
  <2>2. Active' = Active \ {t} /\ \A u \in Active' : task'[u] = task[u]
    BY <1>a, <1>3, Progress, BecomesFacts
  <2>. QED BY <1>a, <2>1, <2>2 DEF Lone
<1>4. ASSUME NEW t \in Task, Return(t)
      PROVE  Lone'
  <2>1. /\ t \notin Active /\ rivals' = rivals \ {t} /\ blind' = blind \ {t}
        /\ UNCHANGED stored
    BY <1>4 DEF Return, Active
  <2>2. Active' = Active /\ \A u \in Active : task'[u] = task[u]
    BY <1>a, <1>4, <2>1, Progress, BecomesFacts
  <2>. QED BY <2>1, <2>2 DEF Lone
<1>5. ASSUME NEW t \in Task, Frame(t)
      PROVE  Lone'
  <2>1. t \notin Active /\ UNCHANGED <<rivals, blind, stored>>
    BY <1>5 DEF Frame, Active, Free
  <2>2. PICK k, s : Becomes(t, k, "scheduled", s)
    BY <1>a, <1>5, Progress
  <2>. QED BY <1>1, <2>1, <2>2
<1>6. ASSUME NEW t \in Task, ReadStored(t)
      PROVE  Lone'
  <2>1. t \in Active /\ UNCHANGED <<rivals, blind, stored>>
    BY <1>6 DEF ReadStored, Active
  <2>. QED BY <1>a, <1>2, <1>6, <2>1, Progress, NowCovers
<1>7. ASSUME NEW t \in Task, LoseRead(t)
      PROVE  Lone'
  <2>1. t \in Active /\ blind' = blind \cup {t} /\ UNCHANGED <<rivals, stored>>
    BY <1>7 DEF LoseRead, Active
  <2>. QED BY <1>a, <1>2, <1>7, <2>1, Progress
<1>8. ASSUME NEW t \in Task, WriteBack(t)
      PROVE  Lone'
  <2>1. t \in Active /\ UNCHANGED <<rivals, blind, stored>> /\ task[t].pc = "read"
    BY <1>8 DEF WriteBack, Active
  <2>2. stored # None /\ t \notin rivals /\ t \notin blind => Covers(task[t].snap, stored)
    BY <2>1 DEF Lone
  <2>. QED BY <1>a, <1>2, <1>8, <2>1, <2>2, Progress
<1>9. ASSUME NEW t \in Task, NEW k, NEW p, NEW s, Becomes(t, k, p, s),
             t \notin Active, Overlap(t, k), UNCHANGED <<stored, blind>>,
             p \in {"read", "writing"} /\ stored # None => Covers(s, stored)
      PROVE  Lone'
  <2>1. Active' \subseteq Active \cup {t} /\ task'[t].pc = p /\ task'[t].snap = s
    BY <1>a, <1>9, BecomesFacts
  <2>2. CASE Active = {}
    BY <1>9, <2>1, <2>2 DEF Lone
  <2>3. CASE Active # {}
    BY <1>9, <2>1, <2>3 DEF Overlap, Lone
  <2>. QED BY <2>2, <2>3
<1>10. ASSUME NEW t \in Task, Loading(t)
       PROVE  Lone'
  <2>1. t \notin Active
    BY <1>10 DEF Loading, Active, Free
  <2>. QED BY <1>9, <1>10, <2>1 DEF Loading
<1>11. ASSUME NEW t \in Task, NEW kind, NEW snap, Saving(t, kind, snap)
       PROVE  Lone'
  <2>1. t \notin Active
    BY <1>11 DEF Saving, Active, Free
  <2>2. Becomes(t, kind, IF threaded THEN "writing" ELSE "landed", snap)
    BY <1>a, <1>11, Progress DEF Saving
  <2>3. stored # None => Covers(snap, stored)
    BY <1>11, NowCovers DEF Saving
  <2>4. CASE threaded
    BY <1>9, <1>11, <2>1, <2>2, <2>3, <2>4 DEF Saving, CallSave
  <2>5. CASE ~ threaded
    <3>1. Active = {}
      BY <1>a, <2>5 DEF Past
    <3>2. Active' = {}
      BY <1>a, <2>2, <2>5, <3>1, BecomesFacts
    <3>. QED BY <3>2 DEF Lone
  <2>. QED BY <2>4, <2>5
<1>12. CASE Advance \/ Cleanup \/ Dispose \/ UNCHANGED vars
  BY <1>12 DEF Advance, Cleanup, Dispose, vars, Lone, Active
<1>13. CASE Crash
  <2>1. Active' = {}
    BY <1>13 DEF Crash, Active, Free
  <2>. QED BY <2>1 DEF Lone
<1>. QED BY <1>a, <1>3, <1>4, <1>5, <1>6, <1>7, <1>8, <1>10, <1>11, <1>12, <1>13, StepKinds

LEMMA InitLone == Init => Blind /\ Lone
BY FreeType DEF Init, Blind, Lone, Active

\* Storage goes back to an older state only when a save lands that overlapped another,
\* or that of a set_metadata whose load failed.
THEOREM OnlyOverlapsRegress == Spec => OnlyRivalsRegress
<1>. DEFINE Excused(t) == /\ task[t].pc = "writing" /\ task'[t].pc = "landed"
                          /\ t \in rivals \/ (t \in blind /\ stored' = Empty)
<1>1. ASSUME TypeOK, Past, Blind, Lone, Next,
             stored # None, stored' # None, ~ Covers(stored', stored)
      PROVE  \E t \in Task : Excused(t)
  <2>a. task \in [Task -> TaskState] /\ threaded \in BOOLEAN
    BY <1>1 DEF TypeOK, TaskState, Kind
  <2>b. Covers(stored, stored)
    BY <1>1, CheckpointAssumption DEF Covers, TypeOK, Snapshot
  <2>1. ASSUME NEW t \in Task, Land(t), stored' # stored
        PROVE  Excused(t)
    <3>1. t \in Active /\ task[t].pc = "writing" /\ stored' = task[t].snap
      BY <2>1 DEF Land, Active
    <3>2. task'[t].pc = "landed"
      BY <2>a, <2>1, Progress, BecomesFacts
    <3>3. t \in rivals \/ (t \in blind /\ stored' = Empty)
      BY <1>1, <3>1 DEF Blind, Lone
    <3>. QED BY <3>1, <3>2, <3>3
  <2>2. ASSUME NEW t \in Task, NEW kind, NEW snap, Saving(t, kind, snap)
        PROVE  stored' = stored
    BY <1>1, <2>2, NowCovers DEF Saving, CallSave
  <2>3. stored' = stored \/ \E t \in Task : Land(t)
    BY <1>1, <2>a, <2>2, StepKinds
       DEF Advance, Cleanup, Dispose, Crash, vars, Frame, LoseWrite, Return,
           ReadStored, LoseRead, WriteBack, Loading
  <2>. HIDE DEF Excused
  <2>. QED BY <1>1, <2>b, <2>1, <2>3
<1>2. TypeOK /\ Past /\ Blind /\ Lone /\ [Next]_vars =>
        [stored # None /\ stored' # None /\ ~ Covers(stored', stored) =>
          \E t \in Task : Excused(t)]_vars
  <2>. HIDE DEF Excused
  <2>. QED BY <1>1
<1>. QED BY <1>2, InitType, InitPast, InitLone, NextType, NextBlind, NextLone, PTL
         DEF Spec, OnlyRivalsRegress

-----------------------------------------------------------------------------
(* The final checkpoint. *)

\* There is one EndFrame, and what it wants committed is wanted after it only.
OneEnd ==
    /\ phase = "running" => final = None /\ \A t \in Task : task[t].kind # "final"
    /\ \A t, u \in Task : task[t].kind = "final" /\ task[u].kind = "final" => t = u
    /\ \A t \in Task : task[t].pc = "scheduled" => task[t].kind # "final"

\* The final save is on its way and nothing else is, while EndFrame waits.
Committing ==
    /\ phase = "ending"
    /\ \E t \in Task : /\ Active = {t}
                       /\ task[t].kind = "final" /\ task[t].pc = "writing"
                       /\ task[t].snap = final

\* It is stored, and whatever is still written has it.
Committed ==
    /\ stored # None /\ Covers(stored, final)
    /\ \A t \in Active : task[t].pc \in {"read", "writing"} =>
                            Covers(task[t].snap, final)

Lasting == alone /\ final # None => Committing \/ Committed

LEMMA NextOneEnd ==
    ASSUME TypeOK, OneEnd, [Next]_vars
    PROVE  OneEnd'
<1>a. task \in [Task -> TaskState] /\ threaded \in BOOLEAN
  BY DEF TypeOK, TaskState, Kind
<1>1. ASSUME NEW t \in Task, NEW k, NEW p, NEW s, Becomes(t, k, p, s),
             k = "final" => task[t].kind = "final" /\ p # "scheduled",
             phase' = "running" => phase = "running",
             final' \in {final, None}
      PROVE  OneEnd'
  <2>1. \A u \in Task : task'[u].kind = "final" => task[u].kind = "final"
    BY <1>a, <1>1, BecomesFacts
  <2>2. \A u \in Task : task'[u].pc = "scheduled" => task'[u].kind # "final"
    BY <1>a, <1>1, BecomesFacts DEF OneEnd
  <2>. QED BY <1>1, <2>1, <2>2 DEF OneEnd
<1>2. ASSUME NEW t \in Task,
             \/ Frame(t) \/ Land(t) \/ LoseWrite(t) \/ Return(t)
             \/ ReadStored(t) \/ LoseRead(t) \/ WriteBack(t)
      PROVE  OneEnd'
  <2>1. final' \in {final, None} /\ phase' \in {phase, "ended"}
    BY <1>2 DEF Frame, Land, LoseWrite, Return, ReadStored, LoseRead, WriteBack
  <2>2. PICK k, p, s : /\ Becomes(t, k, p, s)
                       /\ \/ k = task[t].kind /\ p # "scheduled"
                          \/ k \in {"tracked", "untracked", "none", "meta"}
    BY <1>a, <1>2, Progress
  <2>. QED BY <1>1, <2>1, <2>2
<1>3. ASSUME NEW t \in Task, Loading(t)
      PROVE  OneEnd'
  BY <1>1, <1>3 DEF Loading
<1>4. ASSUME NEW t \in Task, NEW kind, NEW snap, Saving(t, kind, snap)
      PROVE  OneEnd'
  <2>1. Becomes(t, kind, IF threaded THEN "writing" ELSE "landed", snap)
    BY <1>a, <1>4, Progress DEF Saving
  <2>2. CASE kind = "final" /\ task[t].kind # "final"
    <3>1. phase = "running" /\ phase' = "ending"
      BY <1>4, <2>2 DEF Saving
    <3>2. \A u \in Task : task'[u].kind = "final" => u = t
      BY <1>a, <2>1, <3>1, BecomesFacts DEF OneEnd
    <3>3. \A u \in Task : task'[u].pc = "scheduled" => task'[u].kind # "final"
      BY <1>a, <2>1, <3>2, BecomesFacts DEF OneEnd
    <3>. QED BY <3>1, <3>2, <3>3 DEF OneEnd
  <2>3. CASE kind = "final" => task[t].kind = "final"
    <3>1. UNCHANGED <<phase, final>>
      BY <1>4, <2>3 DEF Saving, Free
    <3>. QED BY <1>1, <2>1, <2>3, <3>1
  <2>. QED BY <2>2, <2>3
<1>5. CASE Crash
  BY <1>5 DEF Crash, OneEnd, Free
<1>6. CASE Advance \/ Cleanup \/ Dispose \/ UNCHANGED vars
  BY <1>6 DEF Advance, Cleanup, Dispose, OneEnd, vars
<1>. QED BY <1>a, <1>2, <1>3, <1>4, <1>5, <1>6, StepKinds

LEMMA NextLasting ==
    ASSUME TypeOK, Past, OneEnd, Lasting, [Next]_vars
    PROVE  Lasting'
<1>a. task \in [Task -> TaskState] /\ threaded \in BOOLEAN /\ Active \subseteq Task
  BY DEF TypeOK, TaskState, Kind, Active
<1> SUFFICES ASSUME alone', final' # None PROVE Committing' \/ Committed'
  BY DEF Lasting
<1>1. ASSUME NEW t \in Task, Land(t)
      PROVE  Committing' \/ Committed'
  <2>1. /\ alone /\ final' = final /\ stored' = task[t].snap
        /\ t \in Active /\ task[t].pc = "writing" /\ task[t].snap # None
    BY <1>1 DEF Land, Active, Past
  <2>2. Active' = Active \ {t} /\ \A u \in Active' : task'[u] = task[u]
    BY <1>a, <1>1, Progress, BecomesFacts
  <2>3. CASE Committing
    <3>1. Active' = {} /\ stored' = final
      BY <2>1, <2>2, <2>3 DEF Committing
    <3>2. Covers(final, final)
      BY <2>1, CheckpointAssumption DEF Covers, TypeOK, Snapshot
    <3>. QED BY <2>1, <3>1, <3>2 DEF Committed
  <2>4. CASE Committed
    BY <2>1, <2>2, <2>4 DEF Committed
  <2>. QED BY <2>1, <2>3, <2>4 DEF Lasting
<1>2. ASSUME NEW t \in Task, LoseWrite(t)
      PROVE  Committing' \/ Committed'
  <2>1. /\ alone /\ final' = final /\ stored' = stored
        /\ task[t].kind # "final" /\ t \in Active
    BY <1>2 DEF LoseWrite, Active
  <2>2. Active' = Active \ {t} /\ \A u \in Active' : task'[u] = task[u]
    BY <1>a, <1>2, Progress, BecomesFacts
  <2>. QED BY <2>1, <2>2 DEF Lasting, Committing, Committed
<1>3. ASSUME NEW t \in Task, Return(t)
      PROVE  Committing' \/ Committed'
  <2>1. /\ alone /\ final' = final /\ stored' = stored /\ t \notin Active
        /\ phase' = IF task[t].kind = "final" /\ phase = "ending" THEN "ended" ELSE phase
    BY <1>3 DEF Return, Active
  <2>2. Active' = Active /\ \A u \in Active : task'[u] = task[u]
    BY <1>a, <1>3, <2>1, Progress, BecomesFacts
  <2>3. CASE Committing
    <3>1. PICK u \in Task : /\ Active = {u} /\ task[u].kind = "final"
                            /\ task[u].pc = "writing" /\ task[u].snap = final
      BY <2>3 DEF Committing
    <3>2. phase' = phase
      BY <2>1, <3>1 DEF OneEnd
    <3>. QED BY <2>1, <2>2, <2>3, <3>1, <3>2 DEF Committing
  <2>4. CASE Committed
    BY <2>1, <2>2, <2>4 DEF Committed
  <2>. QED BY <2>1, <2>3, <2>4 DEF Lasting
<1>4. ASSUME NEW t \in Task, Frame(t)
      PROVE  FALSE
  BY <1>4 DEF Frame, OneEnd
<1>5. ASSUME NEW t \in Task, ReadStored(t) \/ WriteBack(t)
      PROVE  Committing' \/ Committed'
  <2>1. /\ alone /\ final' = final /\ stored' = stored /\ t \in Active
        /\ task[t].pc \in {"reading", "read"}
    BY <1>5 DEF ReadStored, WriteBack, Active
  <2>2. Committed
    BY <2>1 DEF Lasting, Committing
  <2>3. /\ Active' = Active /\ \A u \in Active \ {t} : task'[u] = task[u]
        /\ Covers(task'[t].snap, final)
    <3>1. CASE ReadStored(t)
      <4>1. OrEmpty(stored) = stored
        BY <2>2 DEF Committed, OrEmpty
      <4>. QED BY <1>a, <2>1, <2>2, <3>1, <4>1, Progress, BecomesFacts
               DEF Committed, Active
    <3>2. CASE WriteBack(t)
      BY <1>a, <2>1, <2>2, <3>2, Progress, BecomesFacts
      DEF Committed, WriteBack, Active
    <3>. QED BY <1>5, <3>1, <3>2
  <2>. QED BY <2>1, <2>2, <2>3 DEF Committed
<1>6. ASSUME NEW t \in Task, LoseRead(t)
      PROVE  FALSE
  BY <1>6 DEF LoseRead
<1>7. ASSUME NEW t \in Task, Loading(t)
      PROVE  Committing' \/ Committed'
  <2>1. alone /\ final' = final /\ stored' = stored /\ \A u \in Active : task[u].kind # "final"
    BY <1>7 DEF Loading, Overlap
  <2>2. Committed
    BY <2>1 DEF Lasting, Committing
  <2>3. /\ Active' = Active \cup {t} /\ \A u \in Active \ {t} : task'[u] = task[u]
        /\ task'[t].pc = "reading"
    BY <1>a, <1>7, BecomesFacts DEF Loading, Active
  <2>. QED BY <2>1, <2>2, <2>3 DEF Committed
<1>8. ASSUME NEW t \in Task, NEW kind, NEW snap, Saving(t, kind, snap)
      PROVE  Committing' \/ Committed'
  <2>1. Becomes(t, kind, IF threaded THEN "writing" ELSE "landed", snap)
    BY <1>a, <1>8, Progress DEF Saving
  <2>2. /\ task'[t].kind = kind /\ task'[t].snap = snap
        /\ task'[t].pc = IF threaded THEN "writing" ELSE "landed"
        /\ Active' = IF threaded THEN Active \cup {t} ELSE Active \ {t}
        /\ \A u \in Task \ {t} : task'[u] = task[u]
    BY <1>a, <2>1, BecomesFacts
  <2>3. ~ threaded => Active = {} /\ stored' = snap /\ snap # None
    BY <1>8, SnapshotType, CheckpointAssumption
       DEF Past, Saving, CallSave, TypeOK, Active
  <2>4. CASE final' # final
    <3>1. kind = "final" /\ phase' = "ending" /\ final' = snap /\ snap = SnapshotOf(live)
      BY <1>8, <2>4 DEF Saving
    <3>2. Active = {}
      BY <1>8, <3>1 DEF Saving, CallSave, Overlap
    <3>3. CASE threaded
      BY <2>2, <3>1, <3>2, <3>3 DEF Committing
    <3>4. CASE ~ threaded
      <4>1. Covers(snap, snap)
        BY <3>1, CheckpointAssumption DEF Covers, SnapshotOf, TypeOK
      <4>. QED BY <2>2, <2>3, <3>1, <3>2, <3>4, <4>1 DEF Committed
    <3>. QED BY <1>a, <3>3, <3>4
  <2>5. CASE final' = final
    <3>1. kind # "final"
      BY <1>8, <2>5 DEF Saving, OneEnd
    <3>2. alone /\ \A u \in Active : task[u].kind # "final"
      BY <1>8, <3>1 DEF Saving, CallSave, Overlap
    <3>3. Committed
      BY <2>5, <3>2 DEF Lasting, Committing
    <3>4. Covers(snap, final)
      BY <1>8, <2>5, <3>3, NowCovers DEF Saving, Committed, OrEmpty
    <3>5. stored' \in {stored, snap} /\ (stored' = snap => snap # None)
      BY <1>a, <1>8, <2>3, <3>3 DEF Saving, CallSave, Committed
    <3>. QED BY <2>2, <2>5, <3>3, <3>4, <3>5 DEF Committed, Active
  <2>. QED BY <2>4, <2>5
<1>9. CASE Cleanup
  BY <1>9 DEF Cleanup, Lasting, Committing, Committed, Active
<1>10. CASE Dispose
  BY <1>10 DEF Dispose, Lasting, Committing, Committed, Active
<1>11. CASE Advance \/ UNCHANGED vars
  BY <1>11 DEF Advance, vars, Lasting, Committing, Committed, Active
<1>12. CASE Crash
  BY <1>12 DEF Crash
<1>. QED BY <1>a, <1>1, <1>2, <1>3, <1>4, <1>5, <1>6, <1>7, <1>8, <1>9, <1>10, <1>11,
            <1>12, StepKinds

\* The state that EndFrame found stays in storage when no other storage call
\* overlapped its checkpoint.
THEOREM FinalStateStays == Spec => []FinalStateCommittedAlone
<1>1. Init => OneEnd /\ Lasting
  BY FreeType DEF Init, OneEnd, Lasting
<1>2. Lasting => FinalStateCommittedAlone
  BY DEF Lasting, Committing, Committed, Ended, FinalStateCommittedAlone,
         FinalStateCommitted
<1>. QED BY <1>1, <1>2, InitType, InitPast, NextType, NextOneEnd, NextLasting, PTL
         DEF Spec
=============================================================================
