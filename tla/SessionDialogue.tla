--------------------------- MODULE SessionDialogue ---------------------------
(***************************************************************************)
(* One session over many connections: what each of them is told about the  *)
(* conversation so far (resume_or_start and set_metadata of __init__.py,   *)
(* over manager.py), with the metadata the SessionContinuityProcessor      *)
(* (processor.py) carries, and RedisStorage (storage/redis_storage.py) in  *)
(* its two forms: a server whose rows expire, or a dictionary of the       *)
(* process when the server did not answer as the process started.          *)
(*                                                                         *)
(* Operations are atomic here, one after the other; Checkpointing and      *)
(* SQLiteStorage are about what happens inside and between them.           *)
(***************************************************************************)
EXTENDS Integers, FiniteSets

CONSTANTS
    Key,        \* idempotency keys
    Field,      \* names of metadata fields
    Dynamic,    \* the fields the host's get_metadata_fn reports
    TTL,        \* ttl_seconds
    Stale,      \* stale_threshold_minutes, in the units of the clock
    MaxClock,   \* bound on the clock
    MaxTurn,    \* bound on the turns of all conversations
    MaxDepartures, \* bound: no new kind of departure after so many
    None

ASSUME DialogueAssumption ==
    /\ Dynamic \subseteq Field
    /\ {TTL, Stale, MaxClock, MaxTurn, MaxDepartures} \subseteq Nat

VARIABLES
    now,        \* wall-clock time
    server,     \* the Redis server's row of the session
    memory,     \* _memory_store of the process
    useMemory,  \* use_memory of the process
    ctx,        \* the connection's LLMContext; None: no connection is served
    tools,      \* status of each request in the connection's registry
    meta,       \* the processor's own metadata, its keys
    told,       \* what the connection's LLM was told when it began
    client,     \* history: the client is there
    leftAt,     \* history: when it last left, if it is away
    said,       \* history: turns in all conversations, the newest one's number
    last,       \* history: what the session should be resumed from
    departed    \* history: what the environment and the host have done amiss

store == <<server, memory, useMemory>>
conn  == <<ctx, tools, meta, told>>
hist  == <<client, leftAt, said, last, departed>>
vars  == <<now, store, conn, hist>>

\* The messages: is the host's system prompt among them, which turn is the
\* newest, and what the newest notice about each request says.
Context == [prompt : BOOLEAN, turn : 0..MaxTurn,
            notice : [Key -> {"none", "pending", "completed"}]]

Status == {"none", "pending", "completed", "failed"}

Row == [msgs : Context, tools : [Key -> Status], meta : SUBSET Field,
        at : 0..MaxClock]

ASSUME RowAssumption == None \notin Row /\ None \notin Context

NoTools == [k \in Key |-> "none"]

\* "messages": [].
NoMessages == [prompt |-> FALSE, turn |-> 0, notice |-> NoTools]

\* What a host builds for every connection.
HostContext == [NoMessages EXCEPT !.prompt = TRUE]

Init ==
    /\ now = 0
    /\ server = None
    /\ memory = None
    /\ useMemory \in BOOLEAN
    /\ ctx = None
    /\ tools = NoTools
    /\ meta = {}
    /\ told = "none"
    /\ client = FALSE
    /\ leftAt = 0
    /\ said = 0
    /\ last = None
    /\ departed = {}

\* fault: a storage call failed.  switched: a process began with another storage
\* than the last one's.  unmet: set_metadata found no session.  bare: a checkpoint
\* or a processor did not have all of the metadata.  untooled: a checkpoint did not
\* have the tool calls.  touched: the session was saved after the client had left.
Depart(S) ==
    /\ S \subseteq departed \/ Cardinality(departed) < MaxDepartures
    /\ departed' = departed \cup S

When(cond, d) == IF cond THEN {d} ELSE {}

\* Nothing is expected of a storage that has failed or changed.
Remember(row) ==
    last' = IF departed' \cap {"fault", "switched"} = {} THEN row ELSE None

-----------------------------------------------------------------------------
(* RedisStorage.  The server may refuse any call, and the error is logged;   *)
(* the dictionary neither fails nor expires.                                 *)

Lapsed(row) == now - row.at >= TTL

\* What load finds when it does not fail.
StoredRow ==
    IF useMemory THEN memory
    ELSE IF server = None THEN None
    ELSE IF Lapsed(server) THEN None ELSE server

\* Slip: SET NX, the row that is there stays.
PutOnce(row) ==
    IF useMemory THEN memory' = row /\ UNCHANGED server
    ELSE /\ server' = IF row = None \/ server = None THEN row ELSE server
         /\ UNCHANGED memory

\* save, and delete when row is None.
Put(row) ==
    IF useMemory THEN memory' = row /\ UNCHANGED server
    ELSE server' = row /\ UNCHANGED memory

Write(ok, row) ==
    /\ useMemory => ok
    /\ IF ok THEN Put(row) ELSE UNCHANGED <<server, memory>>
    /\ UNCHANGED useMemory

\* load_context: a failed load is a session that is not there.
Loaded(ok) == IF ok THEN StoredRow ELSE None

\* save_context stamps the row with the time.
Snapshot(m, t, f) == [msgs |-> m, tools |-> t, meta |-> f, at |-> now]

\* What a load should find: the last snapshot, for its time to live (base.py, "if it
\* exists and hasn't expired").
Expected == IF last = None \/ Lapsed(last) THEN None ELSE last

\* But the dictionary is not told the time to live, and goes on finding it.
Outlived == useMemory /\ last # None /\ Lapsed(last)

-----------------------------------------------------------------------------
(* resume_or_start.                                                          *)

\* Slip: only the calls still pending get a notice.
NoticesPending(m, t) ==
    [m EXCEPT !.notice = [k \in Key |->
        IF t[k] = "pending" THEN t[k] ELSE m.notice[k]]]

\* A pending and a completed call get a new notice, a failed one gets none.
Notices(m, t) ==
    [m EXCEPT !.notice = [k \in Key |->
        IF t[k] \in {"pending", "completed"} THEN t[k] ELSE m.notice[k]]]

\* Slip: the threshold is compared with the age of the row's time to live.
GreetingByLife(row) ==
    IF row = None THEN "new"
    ELSE IF now - row.at >= TTL THEN "stale" ELSE "restored"

\* The message queued for the LLM.
Greeting(row) ==
    IF row = None THEN "new"
    ELSE IF now - row.at > Stale THEN "stale" ELSE "restored"

\* A client connects, and the host passes the restored metadata on to the
\* processor it creates (seed) or does not.
Connect(ok, seed) ==
    LET row == Loaded(ok) IN
    /\ ctx = None
    /\ useMemory => ok
    /\ ctx'   = IF row = None THEN HostContext ELSE Notices(row.msgs, row.tools)
    /\ tools' = IF row = None THEN NoTools ELSE row.tools
    /\ meta'  = IF row = None \/ ~ seed THEN {} ELSE row.meta
    /\ told'  = Greeting(row)
    /\ client' = TRUE
    /\ leftAt' = 0
    /\ Depart(When(~ ok, "fault") \cup When(~ seed, "bare"))
    /\ Remember(last)
    /\ UNCHANGED <<now, store, said>>

-----------------------------------------------------------------------------
(* The connection.                                                           *)

\* The user and the assistant exchange a turn.
Talk ==
    /\ ctx # None
    /\ client
    /\ said < MaxTurn
    /\ said' = said + 1
    /\ ctx' = [ctx EXCEPT !.turn = said']
    /\ UNCHANGED <<now, store, tools, meta, told, client, leftAt, last, departed>>

\* A tool call is recorded, and comes to its end (ToolRegistry has the details).
ToolProgress(k, s) ==
    /\ ctx # None
    /\ \/ tools[k] = "none" /\ s = "pending"
       \/ tools[k] = "pending" /\ s \in {"completed", "failed"}
    /\ tools' = [tools EXCEPT ![k] = s]
    /\ UNCHANGED <<now, store, ctx, meta, told, hist>>

\* SessionContinuityProcessor.set_metadata.
ProcessorSetMetadata(f) ==
    /\ ctx # None
    /\ meta' = meta \cup {f}
    /\ UNCHANGED <<now, store, ctx, tools, told, hist>>

\* A save after the client has left makes it seem to have left later.
LateSave == When(~ client /\ now > leftAt, "touched")

\* Slip: the system messages are left to the next host.
SaveUnprompted(ok, t, f, amiss) ==
    LET row == Snapshot([ctx EXCEPT !.prompt = FALSE], t, f) IN
    /\ ctx # None
    /\ Write(ok, row)
    /\ Depart(LateSave \cup When(~ ok, "fault") \cup amiss)
    /\ Remember(row)
    /\ UNCHANGED <<now, conn, client, leftAt, said>>

\* checkpoint and save_context.
Save(ok, t, f, amiss) ==
    LET row == Snapshot(ctx, t, f) IN
    /\ ctx # None
    /\ Write(ok, row)
    /\ Depart(LateSave \cup When(~ ok, "fault") \cup amiss)
    /\ Remember(row)
    /\ UNCHANGED <<now, conn, client, leftAt, said>>

\* _do_checkpoint: the processor's metadata and what get_metadata_fn reports,
\* whose errors are swallowed.  A processor may have been created without the
\* host's tool calls.
ProcessorCheckpoint(ok, reports, given) ==
    Save(ok, IF given THEN tools ELSE NoTools,
         IF reports THEN meta \cup Dynamic ELSE meta,
         When(~ reports, "bare") \cup When(~ given, "untooled"))

\* The host's own checkpoint, without metadata: {} is stored.
HostCheckpoint(ok) == Save(ok, tools, {}, {"bare"})

-----------------------------------------------------------------------------
(* The other operations of the facade.                                       *)

\* Slip: the new metadata replaces the old.
MergedOver(row, f) ==
    IF row = None THEN Snapshot(NoMessages, NoTools, {f})
    ELSE [row EXCEPT !.meta = {f}, !.at = now]

\* Slip: a session that was not found has no "messages" to save.
MergedUnguarded(row, f) ==
    IF row = None THEN Snapshot(None, NoTools, {f})
    ELSE [row EXCEPT !.meta = @ \cup {f}, !.at = now]

\* What set_metadata saves: the session it has loaded, with one more field.
Merged(row, f) ==
    IF row = None THEN Snapshot(NoMessages, NoTools, {f})
    ELSE [row EXCEPT !.meta = @ \cup {f}, !.at = now]

\* SessionContinuity.set_metadata.  A processor that is serving the session is
\* not told, and its next checkpoint saves its own metadata again.  A session that
\* has outlived its time in the dictionary is saved anew.
SetMetadata(f, read, ok) ==
    /\ useMemory => read
    /\ Write(ok, Merged(Loaded(read), f))
    /\ Depart(LateSave \cup When(~ read \/ ~ ok, "fault")
              \cup When(Loaded(read) = None, "unmet")
              \cup When(ctx # None, "bare"))
    /\ Remember(Merged(IF Outlived THEN last ELSE Expected, f))
    /\ UNCHANGED <<now, conn, client, leftAt, said>>

\* clear, at a deliberate end of the call.
Clear(ok) ==
    /\ Write(ok, None)
    /\ last' = None
    /\ Depart(When(~ ok, "fault"))
    /\ UNCHANGED <<now, conn, client, leftAt, said>>

-----------------------------------------------------------------------------
(* The environment.                                                          *)

\* The connection drops; the pipeline goes on for a while.
Leave ==
    /\ client
    /\ client' = FALSE
    /\ leftAt' = now
    /\ UNCHANGED <<now, store, conn, said, last, departed>>

Discarded ==
    /\ ctx' = None
    /\ tools' = NoTools
    /\ meta' = {}
    /\ told' = "none"

\* The pipeline is torn down.
TearDown ==
    /\ ctx # None
    /\ ~ client
    /\ Discarded
    /\ UNCHANGED <<now, store, hist>>

\* A new process, or another one: its storage is the server or its own empty
\* dictionary.  The client finds its connection dropped.
Restart(fallback) ==
    /\ Discarded
    /\ client' = FALSE
    /\ leftAt' = IF client THEN now ELSE leftAt
    /\ memory' = None
    /\ useMemory' = fallback
    /\ Depart(When(fallback \/ useMemory, "switched"))
    /\ Remember(last)
    /\ UNCHANGED <<now, server, said>>

Tick ==
    /\ now < MaxClock
    /\ now' = now + 1
    /\ UNCHANGED <<store, conn, hist>>

Next ==
    \/ \E ok, seed \in BOOLEAN : Connect(ok, seed)
    \/ Talk
    \/ \E k \in Key, s \in Status : ToolProgress(k, s)
    \/ \E f \in Field \ Dynamic : ProcessorSetMetadata(f)
    \/ \E ok, reports, given \in BOOLEAN : ProcessorCheckpoint(ok, reports, given)
    \/ \E ok \in BOOLEAN : HostCheckpoint(ok)
    \/ \E f \in Field \ Dynamic, read, ok \in BOOLEAN : SetMetadata(f, read, ok)
    \/ \E ok \in BOOLEAN : Clear(ok)
    \/ Leave
    \/ TearDown
    \/ \E fallback \in BOOLEAN : Restart(fallback)
    \/ Tick

Spec == Init /\ [][Next]_vars

-----------------------------------------------------------------------------
TypeOK ==
    /\ now \in 0..MaxClock
    /\ {server, memory, last} \subseteq Row \cup {None}
    /\ {useMemory, client} \subseteq BOOLEAN
    /\ ctx \in Context \cup {None}
    /\ tools \in [Key -> Status]
    /\ meta \subseteq Field
    /\ told \in {"none", "new", "restored", "stale"}
    /\ leftAt \in 0..now
    /\ said \in 0..MaxTurn
    /\ departed \subseteq
         {"fault", "switched", "unmet", "bare", "untooled", "touched"}

\* The behaviour up to and including this step is free of what S names.
Without(S) == departed' \cap S = {}

Begins == ctx = None /\ ctx' # None

\* A connection goes on from the last checkpoint, or from what set_metadata made
\* of it, for as long as its time to live; a session that was cleared, has lapsed
\* or was never saved starts afresh.  No sequence of connections, tool calls and
\* process restarts goes back in time or forgets (resume_or_start), as long as no
\* storage call fails and no process has fallen back to its memory.  Nothing is said
\* of a session whose time is over in a process that runs on its memory: that
\* resumes it, contrary to base.py:17-18, for redis_storage.py:35-45 drops
\* ttl_seconds.
ResumesLastCheckpoint ==
    [][Begins /\ Without({"fault", "switched"}) /\ ~ Outlived =>
          IF Expected = None THEN told' = "new"
          ELSE /\ told' # "new"
               /\ ctx'.turn = Expected.msgs.turn
               /\ ctx'.prompt = Expected.msgs.prompt
               /\ tools' = Expected.tools]_vars

\* The host's instructions to the LLM outlive every reconnect, although
\* resume_or_start replaces all the messages of the new context, unless
\* set_metadata was called for a session it did not find.
PromptKept == ctx # None /\ "unmet" \notin departed => ctx.prompt

\* When a session is resumed the newest notice about a request tells its outcome,
\* whatever earlier reconnects have left in the messages, and no notice is about a
\* request the registry has forgotten, unless a checkpoint left the tool calls
\* out.  A failed request gets no notice, so an old one may still call it pending.
NoticesTellOutcome ==
    [][Begins /\ Without({"untooled"}) =>
          \A k \in Key : tools'[k] # "failed" => ctx'.notice[k] = tools'[k]]_vars

\* A client that is told its connection "was just restored" has not been away for
\* longer than the threshold, unless its session was saved while it was away.
RestoredIsRecent ==
    [][Begins /\ told' = "restored" /\ Without({"touched"}) =>
          now - leftAt <= Stale]_vars

\* A field of the metadata stays stored for as long as the session does, over
\* reconnects and restarts, if it is kept in one place: set_metadata while no
\* connection is served, a processor that was given what the last one had and a
\* get_metadata_fn that does not fail.
FieldsKept ==
    [][/\ StoredRow # None /\ StoredRow' # None
       /\ useMemory' = useMemory
       /\ Without({"fault", "switched", "unmet", "bare"})
       => StoredRow.meta \subseteq StoredRow'.meta]_vars

\* set_metadata: "Merges or updates custom metadata for an active session without
\* modifying existing messages."  The stored messages change only when a
\* connection saves its own.
MetadataKeepsMessages ==
    [][StoredRow # None /\ StoredRow' # None /\ StoredRow'.msgs # StoredRow.msgs =>
          ctx # None /\ StoredRow'.msgs = ctx]_vars
=============================================================================
