----------------------------- MODULE Checkpointing -----------------------------
(***************************************************************************)
(* How the state of one live session reaches storage: the checkpoints that *)
(* SessionContinuityProcessor (processor.py) schedules on pipeline frames, *)
(* the ones the host awaits itself and set_metadata (__init__.py), all     *)
(* going through SessionContinuityManager.save_context (manager.py).       *)
(*                                                                         *)
(* Everything but the storage calls runs on one asyncio event loop, so a   *)
(* step of the model runs from one suspension to the next.  A storage call *)
(* suspends its coroutine while a thread executes it; threads finish in    *)
(* any order.  The in-memory fallback of RedisStorage does not suspend.    *)
(***************************************************************************)
EXTENDS Integers, FiniteSets

CONSTANTS
    Task,       \* coroutines that may be saving at the same time
    MaxChange,  \* bound on the changes of the session's state
    None

VARIABLES
    threaded,   \* storage calls go to threads (SQLite, Redis)
    nonBlocking,\* the processor's non_blocking
    live,       \* the session: how often its messages or tools have changed
    stored,     \* what storage holds
    task,       \* what each coroutine is doing
    phase,      \* of the processor
    awaited,    \* the tasks cleanup is waiting for
    rivals,     \* history: tasks whose storage calls overlapped another's
    blind,      \* history: the set_metadata calls whose load failed
    final,      \* history: the state EndFrame found and wanted committed
    alone       \* history: no storage call overlapped the final one

env  == <<threaded, nonBlocking>>
vars == <<env, live, stored, task, phase, awaited, rivals, blind, final, alone>>

\* A snapshot: for each half of it, the state of the session it was taken from.
Snapshot == [msgs : 0..MaxChange, tools : 0..MaxChange]

ASSUME CheckpointAssumption ==
    /\ MaxChange \in Nat
    /\ None \notin Snapshot

SnapshotOf(n) == [msgs |-> n, tools |-> n]

Empty == SnapshotOf(0)

\* t kept everything that s had.
Covers(t, s) == t.msgs >= s.msgs /\ t.tools >= s.tools

OrEmpty(s) == IF s = None THEN Empty ELSE s

Free == [kind |-> "none", pc |-> "free", snap |-> None]

\* The coroutines with a storage call, or between the two of set_metadata.
Active == {t \in Task : task[t].pc \in {"reading", "read", "writing"}}

Init ==
    /\ threaded \in BOOLEAN
    /\ nonBlocking \in BOOLEAN
    /\ live = 0
    /\ stored = None
    /\ task = [t \in Task |-> Free]
    /\ phase = "running"
    /\ awaited = {}
    /\ rivals = {}
    /\ blind = {}
    /\ final = None
    /\ alone = TRUE

-----------------------------------------------------------------------------
\* The session goes on: the aggregators append a message, or a tool call is
\* recorded or completed, in a step of its own on the event loop.
Advance ==
    /\ live < MaxChange
    /\ live' = live + 1
    /\ UNCHANGED <<env, stored, task, phase, awaited, rivals, blind, final, alone>>

-----------------------------------------------------------------------------
(* save_context: the snapshot is serialised before the first suspension.    *)

\* t starts storage calls: history of what they overlap.
Overlap(t, kind) ==
    /\ rivals' = IF Active = {} THEN rivals ELSE rivals \cup Active \cup {t}
    /\ alone' = IF kind = "final" THEN Active = {}
                ELSE alone /\ \A u \in Active : task[u].kind # "final"

\* t calls storage.save with snap.
CallSave(t, kind, snap) ==
    /\ Overlap(t, kind)
    /\ task' = [task EXCEPT ![t] = [kind |-> kind, snap |-> snap,
                   pc |-> IF threaded THEN "writing" ELSE "landed"]]
    /\ stored' = IF threaded THEN stored ELSE snap

\* _schedule_checkpoint, for LLMFullResponseEndFrame, BotStoppedSpeakingFrame and
\* FunctionCallResultFrame.  Only the non-blocking tasks enter _active_tasks.
Frame(t) ==
    /\ phase = "running"
    /\ task[t] = Free
    /\ task' = [task EXCEPT ![t] =
           [kind |-> IF nonBlocking THEN "tracked" ELSE "untracked",
            pc |-> "scheduled", snap |-> None]]
    /\ UNCHANGED <<env, live, stored, phase, awaited, rivals, blind, final, alone>>

\* The event loop starts the task: _do_checkpoint up to the storage call.
Run(t) ==
    /\ task[t].pc = "scheduled"
    /\ CallSave(t, task[t].kind, SnapshotOf(live))
    /\ UNCHANGED <<env, live, phase, awaited, blind, final>>

\* Slip: the final checkpoint is not awaited.
EndFrameScheduled(t) ==
    /\ phase = "running"
    /\ task[t] = Free
    /\ CallSave(t, "final", SnapshotOf(live))
    /\ phase' = "ended"
    /\ final' = SnapshotOf(live)
    /\ UNCHANGED <<env, live, awaited, blind>>

\* EndFrame: process_frame itself awaits _do_checkpoint.
EndFrame(t) ==
    /\ phase = "running"
    /\ task[t] = Free
    /\ CallSave(t, "final", SnapshotOf(live))
    /\ phase' = "ending"
    /\ final' = SnapshotOf(live)
    /\ UNCHANGED <<env, live, awaited, blind>>

\* Slip: the message still being streamed is counted in.
HostCheckpointAhead(t) ==
    /\ task[t] = Free
    /\ CallSave(t, "host", SnapshotOf(live + 1))
    /\ UNCHANGED <<env, live, phase, awaited, blind, final>>

\* A host that awaits SessionContinuity.checkpoint, as bot.py does.
HostCheckpoint(t) ==
    /\ task[t] = Free
    /\ CallSave(t, "host", SnapshotOf(live))
    /\ UNCHANGED <<env, live, phase, awaited, blind, final>>

\* Slip: the thread serialises, with the tool state of that moment.
LandLate(t) ==
    /\ task[t].pc = "writing"
    /\ stored' = [task[t].snap EXCEPT !.tools = live]
    /\ task' = [task EXCEPT ![t].pc = "landed"]
    /\ UNCHANGED <<env, live, phase, awaited, rivals, blind, final, alone>>

\* The thread commits.
Land(t) ==
    /\ task[t].pc = "writing"
    /\ stored' = task[t].snap
    /\ task' = [task EXCEPT ![t].pc = "landed"]
    /\ UNCHANGED <<env, live, phase, awaited, rivals, blind, final, alone>>

\* The backend logs the error and returns as if the row had been written; the
\* manager records the checkpoint as a success.
LoseWrite(t) ==
    /\ task[t].pc = "writing"
    /\ task' = [task EXCEPT ![t].pc = "landed"]
    /\ final' = IF task[t].kind = "final" THEN None ELSE final
    /\ UNCHANGED <<env, live, stored, phase, awaited, rivals, blind, alone>>

\* Slip: a finished task is not discarded from _active_tasks.
ReturnKept(t) ==
    /\ task[t].pc = "landed"
    /\ task' = [task EXCEPT ![t] = IF @.kind = "tracked" THEN @ ELSE Free]
    /\ phase' = IF task[t].kind = "final" /\ phase = "ending" THEN "ended" ELSE phase
    /\ rivals' = rivals \ {t}
    /\ blind' = blind \ {t}
    /\ UNCHANGED <<env, live, stored, awaited, final, alone>>

\* The coroutine resumes and is done; a tracked task is discarded from
\* _active_tasks by its callback.
Return(t) ==
    /\ task[t].pc = "landed"
    /\ task' = [task EXCEPT ![t] = Free]
    /\ phase' = IF task[t].kind = "final" /\ phase = "ending" THEN "ended" ELSE phase
    /\ rivals' = rivals \ {t}
    /\ blind' = blind \ {t}
    /\ UNCHANGED <<env, live, stored, awaited, final, alone>>

-----------------------------------------------------------------------------
(* set_metadata loads the stored context, merges the metadata and saves the  *)
(* loaded messages and tools again.                                          *)

\* Slip: the messages are not carried over.
SetMetadataAlone(t) ==
    /\ task[t] = Free
    /\ IF threaded
       THEN /\ Overlap(t, "meta")
            /\ task' = [task EXCEPT ![t] =
                   [kind |-> "meta", pc |-> "reading", snap |-> None]]
            /\ UNCHANGED stored
       ELSE CallSave(t, "meta", Empty)
    /\ UNCHANGED <<env, live, phase, awaited, blind, final>>

SetMetadata(t) ==
    /\ task[t] = Free
    /\ IF threaded
       THEN /\ Overlap(t, "meta")
            /\ task' = [task EXCEPT ![t] =
                   [kind |-> "meta", pc |-> "reading", snap |-> None]]
            /\ UNCHANGED stored
       ELSE CallSave(t, "meta", OrEmpty(stored))
    /\ UNCHANGED <<env, live, phase, awaited, blind, final>>

ReadStored(t) ==
    /\ task[t].pc = "reading"
    /\ task' = [task EXCEPT ![t] =
           [kind |-> "meta", pc |-> "read", snap |-> OrEmpty(stored)]]
    /\ UNCHANGED <<env, live, stored, phase, awaited, rivals, blind, final, alone>>

\* load_context swallows a storage error and returns None, which set_metadata
\* takes for a session without messages.
LoseRead(t) ==
    /\ task[t].pc = "reading"
    /\ task' = [task EXCEPT ![t] =
           [kind |-> "meta", pc |-> "read", snap |-> Empty]]
    /\ blind' = blind \cup {t}
    /\ final' = None
    /\ UNCHANGED <<env, live, stored, phase, awaited, rivals, alone>>

\* The loop resumes set_metadata with what was read, and it saves that.
WriteBack(t) ==
    /\ task[t].pc = "read"
    /\ task' = [task EXCEPT ![t].pc = "writing"]
    /\ UNCHANGED <<env, live, stored, phase, awaited, rivals, blind, final, alone>>

-----------------------------------------------------------------------------
(* The end of the processor, and of the process.                            *)

Tracked == {t \in Task : task[t].kind = "tracked"}

\* Slip: the set is cleared before it is gathered.
CleanupNothing ==
    /\ phase \in {"running", "ended"}
    /\ phase' = "cleaning"
    /\ awaited' = {}
    /\ UNCHANGED <<env, live, stored, task, rivals, blind, final, alone>>

\* cleanup gathers _active_tasks; the pipeline calls it when its frames are
\* done, after an EndFrame or without one (cancelled).
Cleanup ==
    /\ phase \in {"running", "ended"}
    /\ phase' = "cleaning"
    /\ awaited' = Tracked
    /\ UNCHANGED <<env, live, stored, task, rivals, blind, final, alone>>

Dispose ==
    /\ phase = "cleaning"
    /\ awaited \cap Tracked = {}
    /\ phase' = "disposed"
    /\ awaited' = {}
    /\ UNCHANGED <<env, live, stored, task, rivals, blind, final, alone>>

\* The worker is killed; a new one resumes the session from storage, which the
\* in-memory fallback does not survive.  (A write in its thread has landed before
\* this step or never will.)
Crash ==
    /\ stored' = IF threaded THEN stored ELSE None
    /\ live' = OrEmpty(stored').msgs
    /\ task' = [t \in Task |-> Free]
    /\ phase' = "running"
    /\ awaited' = {}
    /\ rivals' = {}
    /\ blind' = {}
    /\ final' = None
    /\ alone' = TRUE
    /\ UNCHANGED env

Next ==
    \/ Advance
    \/ \E t \in Task :
        \/ Frame(t) \/ Run(t) \/ EndFrame(t) \/ HostCheckpoint(t)
        \/ Land(t) \/ LoseWrite(t) \/ Return(t)
        \/ SetMetadata(t) \/ ReadStored(t) \/ LoseRead(t) \/ WriteBack(t)
    \/ Cleanup
    \/ Dispose
    \/ Crash

\* The event loop runs what is ready, and a storage call ends (SQLite gives up
\* after its busy timeout).
Fairness ==
    /\ \A t \in Task :
        /\ WF_vars(Run(t))
        /\ WF_vars(Land(t) \/ LoseWrite(t))
        /\ WF_vars(Return(t))
        /\ WF_vars(ReadStored(t) \/ LoseRead(t))
        /\ WF_vars(WriteBack(t))
    /\ WF_vars(Dispose)

Spec == Init /\ [][Next]_vars /\ Fairness

-----------------------------------------------------------------------------
TypeOK ==
    /\ {threaded, nonBlocking} \subseteq BOOLEAN
    /\ live \in 0..MaxChange
    /\ {stored, final} \subseteq Snapshot \cup {None}
    /\ task \in [Task ->
          [kind : {"none", "tracked", "untracked", "final", "host", "meta"},
           pc : {"free", "scheduled", "reading", "read", "writing", "landed"},
           snap : Snapshot \cup {None}]]
    /\ phase \in {"running", "ending", "ended", "cleaning", "disposed"}
    /\ awaited \subseteq Task
    /\ rivals \subseteq Task /\ blind \subseteq Task
    /\ alone \in BOOLEAN

\* What storage holds, and hence what a reconnect or a restart resumes, are the
\* messages and the tool state of one moment, although both may change while
\* the write is in its thread (checkpoint, save_context).
NoTornSnapshot == stored # None => stored.msgs = stored.tools

\* What a save puts over a newer state: the thread that lands overlapped another's
\* storage call, or belongs to a set_metadata whose load failed (load_context returns
\* None for it as for a session that is not there) and empties the session.  So a host
\* that awaits its saves one by one, without set_metadata or with loads that succeed,
\* never loses a turn it has saved, and with the in-memory fallback nobody does while
\* the process lives.
OnlyRivalsRegress ==
    [][stored # None /\ stored' # None /\ ~ Covers(stored', stored) =>
          \E t \in Task : /\ task[t].pc = "writing" /\ task'[t].pc = "landed"
                          /\ t \in rivals \/ (t \in blind /\ stored' = Empty)]_vars

Ended == phase \in {"ended", "cleaning", "disposed"}

\* Once EndFrame has been handled storage holds the session's final state
\* (processor.py, "On EndFrame, wait for checkpoint to guarantee final state is
\* committed"), or a later one; unless a storage call failed.
FinalStateCommitted ==
    Ended /\ final # None => stored # None /\ Covers(stored, final)

\* It does when no other storage call overlapped the final one.
FinalStateCommittedAlone == alone => FinalStateCommitted

\* cleanup: "Awaits any in-flight asynchronous checkpoint tasks before
\* disposal".  When it returns no task that a frame scheduled is still saving.
CleanupDrains == phase = "disposed" /\ nonBlocking => Tracked = {}

\* Every checkpoint comes to its end, whatever storage does, and so does
\* cleanup: no frame, host or disposal waits forever for a save.
NothingHangs ==
    /\ \A t \in Task : task[t].pc # "free" ~> task[t].pc = "free"
    /\ phase = "ending" ~> phase # "ending"
    /\ phase = "cleaning" ~> phase # "cleaning"
=============================================================================
