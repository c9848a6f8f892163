------------------------------- MODULE VoiceBot -------------------------------
(***************************************************************************)
(* src/bot.py: the connections of one session, each a run_bot with its own *)
(* tool registry, over the session's row in storage.  The tool             *)
(* book_appointment has an effect outside the system; it is recorded and   *)
(* checkpointed before the effect, completed and checkpointed after it.    *)
(* The process dies at any point, clients come back while the server still *)
(* runs their last connection, and the LLM makes a request again.          *)
(*                                                                         *)
(* Everything runs on one event loop but the storage calls, which end in   *)
(* their threads' order.  The dictionary run_bot keeps behaves as the      *)
(* registry does (ToolCallFacade): call ids are fresh, and a call is       *)
(* completed by its own.  Messages are the subject of Checkpointing.       *)
(***************************************************************************)
EXTENDS ToolRegistry, Integers, Sequences, FiniteSets, SequencesExt

CONSTANTS
    Conn,       \* WebSocket connections alive at the same time
    MaxWrites,  \* storage calls in flight at the same time
    MaxAccidents \* bound on the kinds of accidents in one behaviour

ASSUME BotAssumption ==
    /\ None \notin Conn \cup Dict
    /\ Result # {}
    /\ MaxWrites \in Nat
    /\ MaxAccidents \in Nat

VARIABLES
    conn,       \* the connections: run_bot's variables and progress
    call,       \* book_appointment's progress, for each call id
    writes,     \* storage calls in flight, in the order they were made
    store,      \* the tool state in the session's row, None without a row
    effects,    \* how often each request has taken effect in this conversation
    accidents   \* history: what has gone otherwise than bot.py counts on

vars == <<conn, call, writes, store, effects, accidents>>

\* Nothing in bot.py rules these out; each spoils what is to be true of it.
\*   "failed"    a storage call fails, its error logged and swallowed
\*   "reordered" a storage call ends before one made earlier
\*   "overlap"   a connection loads the row while an earlier one's storage call or tool
\*               call goes on, or makes one when a later connection has loaded it
\*   "early"     a connection makes one before resume_or_start has returned
\*   "parallel"  a tool call is made while another goes on
\*   "late"      a tool call goes on over end_call, or is made after it, or a storage
\*               call is made when the finished session's row has been cleared
Accident == {"failed", "reordered", "overlap", "early", "parallel", "late"}

\* Two tool calls at a time leave what is known of each request true.
Smooth == accidents \subseteq {"parallel"}

\* A step in which the accidents of S happen.
Happens(S) ==
    /\ accidents' = accidents \cup S
    /\ Cardinality(accidents') <= MaxAccidents

Gone == [st |-> "gone", resumed |-> FALSE, ended |-> FALSE, dump |-> "none",
         stale |-> FALSE, tools |-> EmptyRegistry, got |-> None]

InProgress(i) == call[i].pc \in {"recording", "recorded", "acting", "confirming"}

Busy(c) == \E i \in CallId : InProgress(i) /\ call[i].by = c

Running(c) == conn[c].st \in {"opened", "loaded", "ready"}

\* The dump has cleared the session.
Cleared(c) == conn[c].dump = "cleared"

Init ==
    /\ conn = [c \in Conn |-> Gone]
    /\ call = [i \in CallId |-> [pc |-> "unused", by |-> None]]
    /\ writes = <<>>
    /\ store = None
    /\ effects = [k \in Key |-> 0]
    /\ accidents = {}

-----------------------------------------------------------------------------
(* Storage.  A checkpoint's content is taken when it is called; None deletes *)
(* the row.                                                                  *)

Write(owner, data) ==
    /\ Len(writes) < MaxWrites
    /\ writes' = Append(writes, [owner |-> owner, data |-> data])

\* What is amiss with a storage call that c makes now.
Untimely(c) ==
    {a \in Accident :
        \/ a = "early" /\ conn[c].st # "ready"
        \/ a = "overlap" /\ conn[c].stale
        \/ a = "late" /\ Cleared(c)}

After(pc) == CASE pc = "recording"  -> "recorded"
               [] pc = "confirming" -> "over"
               [] OTHER             -> pc

\* A storage call ends: done or, its error logged and swallowed, not.  The tool call
\* that has awaited it goes on in both cases.
WriteEnds(j, ok) ==
    LET w == writes[j] IN
    /\ writes' = RemoveAt(writes, j)
    /\ store' = IF ok THEN w.data ELSE store
    /\ effects' = IF ok /\ w.data = None THEN [k \in Key |-> 0] ELSE effects
    /\ call' = [i \in CallId |->
           IF w.owner = i THEN [call[i] EXCEPT !.pc = After(@)] ELSE call[i]]
    /\ Happens({a \in Accident : \/ a = "failed" /\ ~ ok
                                 \/ a = "reordered" /\ j # 1})
    /\ UNCHANGED conn

-----------------------------------------------------------------------------
(* The life of a connection.                                                 *)

\* websocket_endpoint calls run_bot; the client may come back while the server
\* has not noticed yet that its last connection is dead.
Connect(c) ==
    /\ conn[c].st = "gone"
    /\ ~ Busy(c)
    /\ conn' = [conn EXCEPT ![c] = [Gone EXCEPT !.st = "opened"]]
    /\ UNCHANGED <<call, writes, store, effects, accidents>>

\* on_client_connected awaits resume_or_start: its load reads the row, or fails
\* and finds nothing ...
Load(c, ok) ==
    /\ conn[c].st = "opened"
    /\ conn' = [d \in Conn |->
           IF d = c THEN [conn[c] EXCEPT !.st = "loaded", !.stale = FALSE,
                                         !.got = IF ok THEN store ELSE None]
           ELSE IF conn[d].st = "gone" THEN conn[d]
           ELSE [conn[d] EXCEPT !.stale = TRUE]]
    /\ Happens({a \in Accident :
           \/ a = "failed" /\ ~ ok
           \/ a = "overlap" /\ (writes # <<>> \/ \E i \in CallId : InProgress(i))})
    /\ UNCHANGED <<call, writes, store, effects>>

\* Slip: the returned tool calls are not kept.
ResumeForgetful(c) ==
    /\ conn[c].st = "loaded"
    /\ conn' = [conn EXCEPT ![c] = [@ EXCEPT !.st = "ready", !.got = None,
                   !.resumed = (conn[c].got # None)]]
    /\ UNCHANGED <<call, writes, store, effects, accidents>>

\* ... and both variables of run_bot are bound to what it returned.
Resume(c) ==
    /\ conn[c].st = "loaded"
    /\ conn' = [conn EXCEPT ![c] = [@ EXCEPT !.st = "ready", !.got = None,
                   !.resumed = (conn[c].got # None),
                   !.tools = IF conn[c].got = None THEN EmptyRegistry
                             ELSE LoadFromDict(conn[c].got)]]
    /\ UNCHANGED <<call, writes, store, effects, accidents>>

\* Slip: a checkpoint without the tool calls.
TurnEndedEmpty(c) ==
    /\ Running(c)
    /\ Write(None, ToDict(EmptyRegistry))
    /\ Happens(Untimely(c))
    /\ UNCHANGED <<conn, call, store, effects>>

\* on_turn_ended
TurnEnded(c) ==
    /\ Running(c)
    /\ Write(None, ToDict(conn[c].tools))
    /\ Happens(Untimely(c))
    /\ UNCHANGED <<conn, call, store, effects>>

\* The LLM's tool end_call.
EndCall(c) ==
    /\ Running(c)
    /\ ~ conn[c].ended
    /\ conn' = [conn EXCEPT ![c].ended = TRUE]
    /\ Happens({a \in Accident : a = "late" /\ Busy(c)})
    /\ UNCHANGED <<call, writes, store, effects>>

\* Slip: the registry is stored, not its to_dict().
DumpLogsRaw(c) ==
    /\ Running(c)
    /\ conn[c].dump = "none"
    /\ conn' = [conn EXCEPT ![c].dump = IF conn[c].ended THEN "cleared" ELSE "kept"]
    /\ Write(None, IF conn[c].ended THEN None ELSE conn[c].tools)
    /\ Happens(Untimely(c))
    /\ UNCHANGED <<call, store, effects>>

\* dump_logs_to_disk, once, when the client has disconnected or the pipeline has
\* ended: a finished session is cleared, another one checkpointed.
DumpLogs(c) ==
    /\ Running(c)
    /\ conn[c].dump = "none"
    /\ conn' = [conn EXCEPT ![c].dump = IF conn[c].ended THEN "cleared" ELSE "kept"]
    /\ Write(None, IF conn[c].ended THEN None ELSE ToDict(conn[c].tools))
    /\ Happens(Untimely(c))
    /\ UNCHANGED <<call, store, effects>>

\* run_bot returns when the pipeline has ended.  A disconnect alone does not end it,
\* the task is not cancelled: until then turns end and tools are called.
RunEnds(c) ==
    /\ Running(c)
    /\ conn[c].dump # "none"
    /\ conn' = [conn EXCEPT ![c] = IF Busy(c) THEN [@ EXCEPT !.st = "gone"] ELSE Gone]
    /\ UNCHANGED <<call, writes, store, effects, accidents>>

\* The process is killed, its storage calls with it.
Crash ==
    /\ conn' = [c \in Conn |-> Gone]
    /\ call' = [i \in CallId |->
           IF InProgress(i) THEN [call[i] EXCEPT !.pc = "over"] ELSE call[i]]
    /\ writes' = <<>>
    /\ UNCHANGED <<store, effects, accidents>>

-----------------------------------------------------------------------------
(* book_appointment.                                                         *)

\* Slip: a call interrupted by a drop is made again.
TrappedCompleted(rec, resumed) == rec # None /\ rec.status = "completed"

\* The LLM gets an answer instead of an effect: a SYSTEM_NOTE for a call that
\* was interrupted, or the result of a completed one.
Trapped(rec, resumed) ==
    /\ rec # None
    /\ rec.status = "completed" \/ (rec.status = "pending" /\ resumed)

CallTool(i, c) ==
    LET k     == KeyOf[i]
        tools == RegisterCall(conn[c].tools, k, i, "pending")
    IN
    /\ Running(c)
    /\ call[i].pc = "unused"
    /\ IF Trapped(Check(conn[c].tools, k, i), conn[c].resumed)
       THEN /\ call' = [call EXCEPT ![i] = [pc |-> "over", by |-> c]]
            /\ UNCHANGED <<conn, writes, accidents>>
       ELSE /\ call' = [call EXCEPT ![i] = [pc |-> "recording", by |-> c]]
            /\ conn' = [conn EXCEPT ![c].tools = tools]
            /\ Write(i, ToDict(tools))
            /\ Happens(Untimely(c) \cup
                   {a \in Accident :
                       \/ a = "parallel" /\ \E j \in CallId : InProgress(j)
                       \/ a = "late" /\ conn[c].ended})
    /\ UNCHANGED <<store, effects>>

\* mock_appointment_counter += 1
Act(i) ==
    /\ call[i].pc = "recorded"
    /\ call' = [call EXCEPT ![i].pc = "acting"]
    /\ effects' = [effects EXCEPT ![KeyOf[i]] = @ + 1]
    /\ UNCHANGED <<conn, writes, store, accidents>>

Finish(i) ==
    LET c     == call[i].by
        tools == CompleteCall(conn[c].tools, i, CHOOSE res \in Result : TRUE)
    IN
    /\ call[i].pc = "acting"
    /\ call' = [call EXCEPT ![i].pc = "confirming"]
    /\ conn' = [conn EXCEPT ![c].tools = tools]
    /\ Write(i, ToDict(tools))
    /\ UNCHANGED <<store, effects, accidents>>

Next ==
    \/ \E j \in DOMAIN writes, ok \in BOOLEAN : WriteEnds(j, ok)
    \/ \E c \in Conn :
        \/ Connect(c) \/ Resume(c) \/ TurnEnded(c) \/ EndCall(c)
        \/ DumpLogs(c) \/ RunEnds(c)
        \/ \E ok \in BOOLEAN : Load(c, ok)
        \/ \E i \in CallId : CallTool(i, c)
    \/ \E i \in CallId : Act(i) \/ Finish(i)
    \/ Crash

Spec == Init /\ [][Next]_vars

-----------------------------------------------------------------------------
TypeOK ==
    /\ conn \in [Conn ->
          [st : {"gone", "opened", "loaded", "ready"},
           resumed : BOOLEAN, ended : BOOLEAN, stale : BOOLEAN,
           dump : {"none", "kept", "cleared"},
           tools : Registry, got : Dict \cup {None}]]
    /\ call \in [CallId ->
          [pc : {"unused", "recording", "recorded", "acting", "confirming", "over"},
           by : Conn \cup {None}]]
    /\ writes \in Seq([owner : CallId \cup {None}, data : Dict \cup {None}])
    /\ Len(writes) <= MaxWrites
    /\ store \in Dict \cup {None}
    /\ effects \in [Key -> Nat]
    /\ accidents \subseteq Accident

\* A request, which is what its arguments say, takes effect at most once in a
\* conversation, under however many call ids the LLM makes it and wherever workers
\* die ("prevent duplicate tool execution at the agent boundary", README.md).  It
\* is more than bot.py:128-129 wants, which tells "a genuine intentional retry (new
\* tool_call_id) from a resumed duplicate of the same call": the id tells nothing,
\* check_tool_idempotency finds the record by the arguments, and a second booking
\* the user does want is answered with the first one's result.  Any accident,
\* and each of them alone, can make a request take effect twice.
NoDuplicateEffect == accidents = {} => \A k \in Key : effects[k] <= 1

\* An effect is never ahead of storage: from the moment it happens, whoever
\* resumes the session finds the request recorded (bot.py saves the pending
\* state before the booking).  Parallel tool calls do no harm to it, each of the
\* other accidents can.
EffectsRemembered ==
    Smooth => \A k \in Key : effects[k] > 0 => store # None /\ store[k] # None

\* What a connection tells the LLM is true, as long as it is the last one to have
\* loaded the row and has not cleared it: a request it knows as completed has
\* taken effect, and one that has taken effect is known to it.
TrueBeliefs ==
    Smooth => \A c \in Conn, k \in Key :
        conn[c].st = "ready" /\ ~ conn[c].stale /\ ~ Cleared(c) =>
            LET rec == conn[c].tools.records[k] IN
            /\ rec # None /\ rec.status = "completed" => effects[k] > 0
            /\ effects[k] > 0 => rec # None
=============================================================================
