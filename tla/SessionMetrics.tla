---------------------------- MODULE SessionMetrics ----------------------------
(***************************************************************************)
(* What the metrics say of a process: the exporters of metrics.py and the  *)
(* calls that the manager and the facade (manager.py, __init__.py) make to *)
(* them.  A Prometheus or OpenTelemetry exporter counts in memory, then in *)
(* its backend, which may raise; a CompositeMetricsExporter swallows that, *)
(* a bare exporter lets it out, into the operation that is being counted.  *)
(***************************************************************************)
EXTENDS Integers, FiniteSets, Sequences

CONSTANTS
    Exporter,   \* metrics exporters
    Request,    \* logical tool requests
    MaxOps      \* bound on the operations of a process

ASSUME MetricsAssumption == MaxOps \in Nat /\ IsFiniteSet(Request)

VARIABLES
    used,       \* the exporters in use
    backed,     \* those with a backend
    composite,  \* they are wrapped in a CompositeMetricsExporter
    count,      \* what each exporter has counted
    times,      \* length of the manager's checkpoint_times
    calls,      \* the requests in the tool registry
    happened,   \* history: what the counters are to count
    stray,      \* history: completions of an unknown request
    lost,       \* history: saves that the storage failed to write without an error
    raises,     \* history: how often a bare exporter has raised
    escaped     \* history: an exporter's error has reached the host

config == <<used, backed, composite>>
vars   == <<config, count, times, calls, happened, stray, lost, raises, escaped>>

Event == {"saved", "unsaved", "resumed", "fresh", "broken", "reconnect",
          "pending", "duplicate", "completed"}

\* Which backends raise, in each of the three record_... calls an operation can make:
\* the third is the error call after the second, which no composite comes to.
Outcomes == {fs \in [1..3 -> SUBSET backed] : composite => fs[3] = fs[2]}

Zero == [ev \in Event |-> 0]

Init ==
    /\ used \in SUBSET Exporter \ {{}}
    /\ backed \in SUBSET used
    /\ composite \in BOOLEAN
    /\ composite \/ Cardinality(used) = 1
    /\ count = [e \in Exporter |-> [mem |-> Zero, ext |-> Zero]]
    /\ times = 0
    /\ calls = [r \in Request |-> "none"]
    /\ happened = Zero
    /\ stray = 0
    /\ lost = 0
    /\ raises = 0
    /\ escaped = FALSE

-----------------------------------------------------------------------------
(* The exporters.                                                            *)

Inc(n, yes) == IF yes THEN n + 1 ELSE n

\* What an InMemoryMetricsExporter counts, its own or the one inside another exporter.
InMemory(c, ev, who) ==
    [e \in Exporter |-> [c[e] EXCEPT !.mem[ev] = Inc(@, e \in who)]]

\* What reaches the backends.
Exported(c, ev, who) ==
    [e \in Exporter |-> [c[e] EXCEPT !.ext[ev] = Inc(@, e \in who)]]

\* Slip: the backend first, so that its error leaves the memory behind.
TallyBackendFirst(c, ev, bad) ==
    InMemory(Exported(c, ev, backed \ bad), ev, used \ bad)

\* One record_... call, to every exporter in use; the backends in bad raise.
Tally(c, ev, bad) == Exported(InMemory(c, ev, used), ev, backed \ bad)

\* Slip: the composite does not catch.
RaisesAnyway(bad) == bad # {}

\* The call raises: CompositeMetricsExporter logs every error.
Raises(bad) == ~ composite /\ bad # {}

\* The calls evs of a try block and, after one that raises, the error call of its
\* except clause; no clause if error is "none".  fs are the outcomes.
Calls(evs, error, fs) ==
    LET stop == {i \in 1..Len(evs) : Raises(fs[i])}
        upTo == SubSeq(evs, 1, CHOOSE i \in stop : \A j \in stop : i <= j)
    IN  IF stop = {} THEN evs
        ELSE IF error = "none" THEN upTo ELSE Append(upTo, error)

Record(evs, error, fs) ==
    LET run == Calls(evs, error, fs)
        after[i \in 0..Len(run)] ==
            IF i = 0 THEN count ELSE Tally(after[i - 1], run[i], fs[i])
    IN  /\ count' = after[Len(run)]
        /\ raises' = raises + Cardinality({i \in 1..Len(run) : Raises(fs[i])})

\* Whether the last call made raises, so that the error leaves the operation.
Leaks(evs, error, fs) ==
    LET run == Calls(evs, error, fs) IN Raises(fs[Len(run)])

-----------------------------------------------------------------------------
(* The operations that are counted.                                          *)

\* save_context: recording the success is inside the try block, recording the
\* error in the except clause, whose own errors go to the caller.  A write that the
\* backend fails and only logs is a success to the manager.
SaveContext(outcome, fs) ==
    LET ev == IF outcome = "raised" THEN "unsaved" ELSE "saved"
        error == IF outcome = "raised" THEN "none" ELSE "unsaved" IN
    /\ times' = Inc(times, outcome # "raised")
    /\ Record(<<ev>>, error, fs)
    /\ escaped' = (escaped \/ Leaks(<<ev>>, error, fs))
    /\ happened' = [happened EXCEPT ![ev] = Inc(@, outcome # "lost")]
    /\ lost' = Inc(lost, outcome = "lost")
    /\ UNCHANGED <<config, calls, stray>>

\* resume_or_start: any exception, an exporter's or the task's (ev = "broken"), is
\* recorded and raised again.
ResumeOrStart(ev, fs) ==
    LET evs == IF ev = "resumed" THEN <<ev, "reconnect">> ELSE <<ev>>
        error == IF ev = "broken" THEN "none" ELSE "broken" IN
    /\ Record(evs, error, fs)
    /\ escaped' = (escaped \/ Calls(evs, error, fs) # evs \/ Leaks(evs, error, fs))
    /\ happened' = [d \in Event |->
           Inc(happened[d], d \in {evs[i] : i \in DOMAIN evs})]
    /\ UNCHANGED <<config, times, calls, stray, lost>>

\* The tool methods of the facade record after the registry has changed.
RecordTool(ev, fs) ==
    /\ Record(<<ev>>, "none", fs)
    /\ escaped' = (escaped \/ Leaks(<<ev>>, "none", fs))
    /\ UNCHANGED <<config, times, lost>>

\* check_tool_idempotency, when the call is a duplicate.
CheckTool(r, fs) ==
    /\ calls[r] # "none"
    /\ RecordTool("duplicate", fs)
    /\ happened' = [happened EXCEPT !["duplicate"] = @ + 1]
    /\ UNCHANGED <<calls, stray>>

\* Slip: a repeated call changes the record.
RecordToolCallRepeated(r, fs) ==
    /\ calls' = [calls EXCEPT ![r] = IF @ = "none" THEN "pending" ELSE "duplicate"]
    /\ RecordTool("pending", fs)
    /\ happened' = [happened EXCEPT !["pending"] = @ + 1]
    /\ UNCHANGED stray

\* record_tool_call counts every attempt at a request.
RecordToolCall(r, fs) ==
    /\ calls' = [calls EXCEPT ![r] = IF @ = "none" THEN "pending" ELSE @]
    /\ RecordTool("pending", fs)
    /\ happened' = [happened EXCEPT !["pending"] = @ + 1]
    /\ UNCHANGED stray

\* complete_tool_call counts a completion for a name it does not know, too.
CompleteToolCall(r, fs) ==
    /\ RecordTool("completed", fs)
    /\ IF calls[r] = "none"
       THEN stray' = stray + 1 /\ UNCHANGED <<calls, happened>>
       ELSE /\ calls' = [calls EXCEPT ![r] = "completed"]
            /\ happened' = [happened EXCEPT !["completed"] = @ + 1]
            /\ UNCHANGED stray

Ops == happened["saved"] + happened["unsaved"] + happened["resumed"] + happened["fresh"]
       + happened["broken"] + happened["pending"] + happened["duplicate"]
       + happened["completed"] + stray + lost

Next ==
    /\ Ops < MaxOps
    /\ \E fs \in Outcomes :
        \/ \E outcome \in {"landed", "lost", "raised"} : SaveContext(outcome, fs)
        \/ \E ev \in {"resumed", "fresh", "broken"} : ResumeOrStart(ev, fs)
        \/ \E r \in Request :
            CheckTool(r, fs) \/ RecordToolCall(r, fs) \/ CompleteToolCall(r, fs)

Spec == Init /\ [][Next]_vars

-----------------------------------------------------------------------------
TypeOK ==
    /\ backed \subseteq used
    /\ used \subseteq Exporter
    /\ composite \in BOOLEAN
    /\ count \in [Exporter -> [{"mem", "ext"} -> [Event -> 0..3 * MaxOps]]]
    /\ times \in 0..MaxOps
    /\ calls \in [Request -> {"none", "pending", "completed"}]
    /\ happened \in [Event -> 0..MaxOps]
    /\ {stray, lost, raises} \subseteq 0..3 * MaxOps
    /\ escaped \in BOOLEAN

\* What the counters should show, were no exporter to interfere: the saves that landed
\* and those the manager cannot tell from them.
True(ev) ==
    happened[ev] + IF ev = "completed" THEN stray ELSE IF ev = "saved" THEN lost ELSE 0

\* With a CompositeMetricsExporter, or without backends, every exporter's summary is
\* exact, whatever the backends of the others do: nothing is lost, nothing counted
\* twice, and as many reconnects as resumed sessions; and no operation fails because
\* of its metrics.  Of checkpoints it is exact but for the writes that failed without
\* an error (sqlite_storage.py:96, redis_storage.py:40), which count as saved.
Isolated ==
    composite \/ backed = {} =>
        /\ \A e \in used, ev \in Event : count[e].mem[ev] = True(ev)
        /\ ~ escaped

\* A bare exporter whose backend raises counts too much, never too little: what
\* happened and one error more for each time it raised inside a save or a resume.
\* Only the reconnect of a session is lost when recording the resume has raised.  Its
\* backend is never ahead of it, and the two figures of get_metrics for the checkpoints
\* that were saved, the manager's own and the exporter's, are the same: they count the
\* writes that were lost without an error, too.
OverCountsOnly ==
    \A e \in used :
        /\ times = count[e].mem["saved"]
        /\ \A ev \in Event : count[e].ext[ev] <= count[e].mem[ev]
        /\ \A ev \in Event \ {"reconnect"} : count[e].mem[ev] >= True(ev)
        /\ count[e].mem["unsaved"] - True("unsaved")
           + count[e].mem["broken"] - True("broken") <= raises
        /\ True("reconnect") - count[e].mem["reconnect"] \in 0..raises
=============================================================================
