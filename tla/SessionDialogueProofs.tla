------------------------ MODULE SessionDialogueProofs ------------------------
(***************************************************************************)
(* Proofs about SessionDialogue, for any requests, metadata fields, time   *)
(* to live, threshold and bounds.                                          *)
(***************************************************************************)
EXTENDS SessionDialogue, TLAPS

\* The rows that a storage holds, expired or not.
Held == {server, memory} \ {None}

-----------------------------------------------------------------------------
(* The operators of the module. *)

\* What a connection builds for itself has the form of a context.
LEMMA HostContextType ==
    /\ NoTools \in [Key -> Status]
    /\ NoTools \in [Key -> {"none", "pending", "completed"}]
    /\ NoMessages \in Context
    /\ HostContext \in Context
    /\ HostContext.prompt
    /\ HostContext.notice = NoTools
    /\ NoMessages.notice = NoTools
<1>1. /\ NoTools \in [Key -> Status]
      /\ NoTools \in [Key -> {"none", "pending", "completed"}]
  BY DEF NoTools, Status
<1>2. 0 \in 0..MaxTurn
  BY DialogueAssumption
<1>3. NoMessages \in Context /\ NoMessages.notice = NoTools
  BY <1>1, <1>2 DEF NoMessages, Context
<1>4. HostContext \in Context /\ HostContext.prompt /\ HostContext.notice = NoTools
  BY <1>3 DEF HostContext, Context
<1>. QED BY <1>1, <1>3, <1>4

\* save_context makes a row of what it is given.
LEMMA SnapshotType ==
    ASSUME now \in 0..MaxClock,
           NEW m \in Context, NEW t \in [Key -> Status], NEW f \in SUBSET Field
    PROVE  /\ Snapshot(m, t, f) \in Row
           /\ Snapshot(m, t, f) # None
           /\ Snapshot(m, t, f).msgs = m
           /\ Snapshot(m, t, f).tools = t
           /\ Snapshot(m, t, f).meta = f
           /\ Snapshot(m, t, f).at = now
<1>1. Snapshot(m, t, f) \in Row
  BY DEF Snapshot, Row
<1>2. Snapshot(m, t, f) # None
  BY <1>1, RowAssumption
<1>. QED BY <1>1, <1>2 DEF Snapshot

\* The notices change nothing else, and speak of every call that is pending or
\* completed.
LEMMA NoticesType ==
    ASSUME NEW m \in Context, NEW t \in [Key -> Status]
    PROVE  /\ Notices(m, t) \in Context
           /\ Notices(m, t).turn = m.turn
           /\ Notices(m, t).prompt = m.prompt
           /\ \A k \in Key :
                Notices(m, t).notice[k] =
                  IF t[k] \in {"pending", "completed"} THEN t[k] ELSE m.notice[k]
BY DEF Notices, Context, Status

\* set_metadata saves the messages and the tool calls it has read.
LEMMA MergedType ==
    ASSUME now \in 0..MaxClock, NEW row \in Row \cup {None}, NEW f \in Field
    PROVE  /\ Merged(row, f) \in Row
           /\ Merged(row, f) # None
           /\ Merged(row, f).at = now
           /\ row # None => /\ Merged(row, f).msgs = row.msgs
                            /\ Merged(row, f).tools = row.tools
                            /\ Merged(row, f).meta = row.meta \cup {f}
           /\ row = None => /\ Merged(row, f).msgs = NoMessages
                            /\ Merged(row, f).tools = NoTools
<1>1. CASE row = None
  <2>1. {f} \in SUBSET Field
    OBVIOUS
  <2>2. Merged(row, f) = Snapshot(NoMessages, NoTools, {f})
    BY <1>1 DEF Merged
  <2>. QED BY <1>1, <2>1, <2>2, HostContextType, SnapshotType
<1>2. CASE row # None
  <2>1. row \in Row
    BY <1>2
  <2>2. Merged(row, f) = [row EXCEPT !.meta = @ \cup {f}, !.at = now]
    BY <1>2 DEF Merged
  <2>3. Merged(row, f) \in Row
    BY <2>1, <2>2 DEF Row
  <2>4. Merged(row, f) # None
    BY <2>3, RowAssumption
  <2>. QED BY <1>2, <2>1, <2>2, <2>3, <2>4 DEF Row
<1>. QED BY <1>1, <1>2

\* A load finds one of the rows held, or nothing.
LEMMA LoadedHeld ==
    ASSUME NEW ok \in BOOLEAN
    PROVE  /\ Loaded(ok) \in Held \cup {None}
           /\ StoredRow \in Held \cup {None}
BY DEF Loaded, StoredRow, Held

\* A write adds at most its own row.
LEMMA WriteHeld ==
    ASSUME NEW ok \in BOOLEAN, NEW row, Write(ok, row)
    PROVE  Held' \subseteq Held \cup ({row} \ {None})
BY DEF Write, Put, Held

-----------------------------------------------------------------------------
(* Type correctness.                                                         *)

LEMMA InitType == Init => TypeOK
<1> SUFFICES ASSUME Init
             PROVE  TypeOK
  OBVIOUS
<1>1. 0 \in 0..MaxClock /\ 0 \in 0..MaxTurn /\ 0 \in 0..0
  BY DialogueAssumption
<1>. QED BY <1>1, HostContextType DEF Init, TypeOK

\* A save by a connection, of metadata f and tool calls t.
LEMMA SaveType ==
    ASSUME TypeOK, NEW ok \in BOOLEAN, NEW t \in [Key -> Status],
           NEW f \in SUBSET Field, NEW amiss \in SUBSET {"bare", "untooled"},
           Save(ok, t, f, amiss)
    PROVE  TypeOK'
<1>1. Snapshot(ctx, t, f) \in Row
  BY SnapshotType DEF TypeOK, Save
<1>2. {server', memory', last'} \subseteq Row \cup {None} /\ useMemory' = useMemory
  BY <1>1 DEF TypeOK, Save, Write, Put, Remember
<1>3. departed' \subseteq
         {"fault", "switched", "unmet", "bare", "untooled", "touched"}
  BY DEF TypeOK, Save, Depart, When, LateSave
<1>. QED BY <1>2, <1>3 DEF TypeOK, Save, conn

\* A turn is appended to the connection's context.
LEMMA TalkType ==
    ASSUME TypeOK, Talk
    PROVE  said' \in 0..MaxTurn /\ ctx' \in Context
<1>1. said' \in 0..MaxTurn
  BY DialogueAssumption DEF Talk, TypeOK
<1>2. ctx' \in Context
  BY <1>1 DEF Talk, TypeOK, Context
<1>. QED BY <1>1, <1>2

LEMMA NextType == TypeOK /\ [Next]_vars => TypeOK'
<1> SUFFICES ASSUME TypeOK, [Next]_vars
             PROVE  TypeOK'
  OBVIOUS
<1>1. ASSUME NEW ok \in BOOLEAN, NEW seed \in BOOLEAN, Connect(ok, seed)
      PROVE  TypeOK'
  <2> DEFINE row == Loaded(ok)
  <2>1. row \in Row \cup {None}
    BY LoadedHeld DEF TypeOK, Held
  <2>2. ctx' \in Context \cup {None}
    <3>1. CASE row = None
      BY <1>1, <3>1, HostContextType DEF Connect
    <3>2. CASE row # None
      <4>1. row.msgs \in Context /\ row.tools \in [Key -> Status]
        BY <2>1, <3>2 DEF Row
      <4>2. ctx' = Notices(row.msgs, row.tools)
        BY <1>1, <3>2 DEF Connect
      <4>. QED BY <4>1, <4>2, NoticesType
    <3>. QED BY <3>1, <3>2
  <2>3. tools' \in [Key -> Status] /\ meta' \subseteq Field
    <3>. HIDE DEF row
    <3>1. tools' = IF row = None THEN NoTools ELSE row.tools
      BY <1>1 DEF Connect, row
    <3>2. meta' = IF row = None \/ ~ seed THEN {} ELSE row.meta
      BY <1>1 DEF Connect, row
    <3>. QED BY <2>1, <3>1, <3>2, HostContextType DEF Row
  <2>4. told' \in {"none", "new", "restored", "stale"}
    BY <1>1 DEF Connect, Greeting
  <2>5. departed' \subseteq
           {"fault", "switched", "unmet", "bare", "untooled", "touched"}
    BY <1>1 DEF Connect, Depart, When, TypeOK
  <2>6. last' \in Row \cup {None}
    BY <1>1 DEF Connect, Remember, TypeOK
  <2>. QED BY <1>1, <2>2, <2>3, <2>4, <2>5, <2>6 DEF TypeOK, Connect, store
<1>2. CASE Talk
  BY <1>2, TalkType DEF Talk, TypeOK, store
<1>3. ASSUME NEW k \in Key, NEW s \in Status, ToolProgress(k, s)
      PROVE  TypeOK'
  BY <1>3 DEF ToolProgress, TypeOK, store, hist
<1>4. ASSUME NEW f \in Field \ Dynamic, ProcessorSetMetadata(f)
      PROVE  TypeOK'
  BY <1>4 DEF ProcessorSetMetadata, TypeOK, store, hist
<1>5. ASSUME NEW ok \in BOOLEAN, NEW reports \in BOOLEAN, NEW given \in BOOLEAN,
             ProcessorCheckpoint(ok, reports, given)
      PROVE  TypeOK'
  BY <1>5, SaveType, HostContextType, DialogueAssumption
     DEF ProcessorCheckpoint, When, TypeOK
<1>6. ASSUME NEW ok \in BOOLEAN, HostCheckpoint(ok)
      PROVE  TypeOK'
  BY <1>6, SaveType DEF HostCheckpoint, TypeOK
<1>7. ASSUME NEW f \in Field \ Dynamic, NEW read \in BOOLEAN, NEW ok \in BOOLEAN,
             SetMetadata(f, read, ok)
      PROVE  TypeOK'
  <2>. DEFINE e == IF Outlived THEN last ELSE Expected
  <2>1. Loaded(read) \in Row \cup {None} /\ e \in Row \cup {None}
    BY LoadedHeld DEF TypeOK, Held, Expected
  <2>2. Merged(Loaded(read), f) \in Row /\ Merged(e, f) \in Row
    BY <2>1, MergedType DEF TypeOK
  <2>3. {server', memory', last'} \subseteq Row \cup {None} /\ useMemory' = useMemory
    BY <1>7, <2>2 DEF TypeOK, SetMetadata, Write, Put, Remember
  <2>4. departed' \subseteq
           {"fault", "switched", "unmet", "bare", "untooled", "touched"}
    BY <1>7 DEF TypeOK, SetMetadata, Depart, When, LateSave
  <2>. QED BY <1>7, <2>3, <2>4 DEF TypeOK, SetMetadata, conn
<1>8. ASSUME NEW ok \in BOOLEAN, Clear(ok)
      PROVE  TypeOK'
  <2>1. {server', memory', last'} \subseteq Row \cup {None} /\ useMemory' = useMemory
    BY <1>8 DEF TypeOK, Clear, Write, Put
  <2>2. departed' \subseteq
           {"fault", "switched", "unmet", "bare", "untooled", "touched"}
    BY <1>8 DEF TypeOK, Clear, Depart, When
  <2>. QED BY <1>8, <2>1, <2>2 DEF TypeOK, Clear, conn
<1>9. CASE Leave
  <2>1. leftAt' \in 0..now'
    BY <1>9, DialogueAssumption DEF Leave, TypeOK
  <2>2. {useMemory', client'} \subseteq BOOLEAN
    BY <1>9 DEF Leave, TypeOK, store
  <2>. QED BY <1>9, <2>1, <2>2 DEF Leave, TypeOK, store, conn
<1>10. CASE TearDown
  BY <1>10, HostContextType DEF TearDown, Discarded, TypeOK, store, hist
<1>11. ASSUME NEW fallback \in BOOLEAN, Restart(fallback)
       PROVE  TypeOK'
  <2>1. leftAt' \in 0..now'
    BY <1>11, DialogueAssumption DEF Restart, TypeOK
  <2>2. departed' \subseteq
           {"fault", "switched", "unmet", "bare", "untooled", "touched"}
    BY <1>11 DEF TypeOK, Restart, Depart, When
  <2>3. {server', memory', last'} \subseteq Row \cup {None}
    BY <1>11 DEF TypeOK, Restart, Remember
  <2>. QED BY <1>11, <2>1, <2>2, <2>3, HostContextType DEF Restart, Discarded, TypeOK
<1>12. CASE Tick
  BY <1>12, DialogueAssumption DEF Tick, TypeOK, store, conn, hist
<1>13. CASE UNCHANGED vars
  BY <1>13 DEF vars, TypeOK, store, conn, hist
<1>. QED BY <1>1, <1>2, <1>3, <1>4, <1>5, <1>6, <1>7, <1>8, <1>9, <1>10, <1>11,
            <1>12, <1>13 DEF Next

\* Storage, context and registry always have the form the code reads them in: what
\* load_context returns has "messages", "pending_tool_calls" and "metadata".
THEOREM DialogueTypeCorrect == Spec => []TypeOK
BY InitType, NextType, PTL DEF Spec

-----------------------------------------------------------------------------
(* What the steps do to the rows held and to the context.                    *)

\* A new connection has the host's own context or what a row held.
LEMMA ConnectFacts ==
    ASSUME TypeOK, NEW ok \in BOOLEAN, NEW seed \in BOOLEAN, Connect(ok, seed)
    PROVE  /\ Held' = Held
           /\ ctx' # None
           /\ departed \subseteq departed'
           /\ Loaded(ok) = None =>
                /\ ctx' = HostContext
                /\ tools' = NoTools
                /\ told' = "new"
           /\ Loaded(ok) # None =>
                /\ Loaded(ok) \in Held
                /\ ctx'.turn = Loaded(ok).msgs.turn
                /\ ctx'.prompt = Loaded(ok).msgs.prompt
                /\ tools' = Loaded(ok).tools
                /\ \A k \in Key : ctx'.notice[k] =
                       IF tools'[k] \in {"pending", "completed"} THEN tools'[k]
                       ELSE Loaded(ok).msgs.notice[k]
                /\ told' = IF now - Loaded(ok).at > Stale THEN "stale" ELSE "restored"
<1> DEFINE row == Loaded(ok)
<1>1. Held' = Held /\ departed \subseteq departed'
  BY DEF Connect, Held, store, Depart
<1>2. CASE row = None
  BY <1>1, <1>2, HostContextType, RowAssumption DEF Connect, Greeting
<1>3. CASE row # None
  <2>1. row \in Held
    BY <1>3, LoadedHeld
  <2>2. row.msgs \in Context /\ row.tools \in [Key -> Status]
    BY <2>1 DEF TypeOK, Held, Row
  <2>3. ctx' = Notices(row.msgs, row.tools) /\ tools' = row.tools
    BY <1>3 DEF Connect
  <2>4. told' = IF now - row.at > Stale THEN "stale" ELSE "restored"
    BY <1>3 DEF Connect, Greeting
  <2>5. ctx' # None
    BY <2>2, <2>3, NoticesType, RowAssumption
  <2>. QED BY <1>1, <1>3, <2>1, <2>2, <2>3, <2>4, <2>5, NoticesType
<1>. QED BY <1>2, <1>3

\* A save adds a row of the connection's own messages.
LEMMA SaveFacts ==
    ASSUME TypeOK, NEW ok \in BOOLEAN, NEW t \in [Key -> Status],
           NEW f \in SUBSET Field, NEW amiss, Save(ok, t, f, amiss)
    PROVE  /\ ctx \in Context
           /\ UNCHANGED <<now, conn, client, leftAt, useMemory>>
           /\ departed \subseteq departed'
           /\ amiss \subseteq departed'
           /\ ~ ok => "fault" \in departed'
           /\ ~ client /\ now > leftAt => "touched" \in departed'
           /\ Snapshot(ctx, t, f) \in Row
           /\ Held' \subseteq Held \cup {Snapshot(ctx, t, f)}
<1>1. ctx \in Context
  BY DEF TypeOK, Save
<1>2. Snapshot(ctx, t, f) \in Row
  BY <1>1, SnapshotType DEF TypeOK
<1>3. Held' \subseteq Held \cup {Snapshot(ctx, t, f)}
  BY WriteHeld DEF Save
<1>4. /\ departed \subseteq departed'
      /\ amiss \subseteq departed'
      /\ ~ ok => "fault" \in departed'
      /\ ~ client /\ now > leftAt => "touched" \in departed'
  BY DEF Save, Depart, LateSave, When
<1>. QED BY <1>1, <1>2, <1>3, <1>4 DEF Save, Write

\* set_metadata adds what it makes of a row that was held, or of none.
LEMMA SetMetadataFacts ==
    ASSUME TypeOK, NEW f \in Field, NEW read \in BOOLEAN, NEW ok \in BOOLEAN,
           SetMetadata(f, read, ok)
    PROVE  /\ UNCHANGED <<now, conn, client, leftAt, useMemory>>
           /\ departed \subseteq departed'
           /\ ~ read \/ ~ ok => "fault" \in departed'
           /\ Loaded(read) = None => "unmet" \in departed'
           /\ ctx # None => "bare" \in departed'
           /\ ~ client /\ now > leftAt => "touched" \in departed'
           /\ Loaded(read) \in Held \cup {None}
           /\ Loaded(read) \in Row \cup {None}
           /\ Held' \subseteq Held \cup {Merged(Loaded(read), f)}
<1>1. Loaded(read) \in Held \cup {None} /\ Loaded(read) \in Row \cup {None}
  BY LoadedHeld DEF Held, TypeOK
<1>2. Held' \subseteq Held \cup {Merged(Loaded(read), f)}
  BY WriteHeld DEF SetMetadata
<1>3. /\ departed \subseteq departed'
      /\ ~ read \/ ~ ok => "fault" \in departed'
      /\ Loaded(read) = None => "unmet" \in departed'
      /\ ctx # None => "bare" \in departed'
      /\ ~ client /\ now > leftAt => "touched" \in departed'
  BY DEF SetMetadata, Depart, LateSave, When
<1>. QED BY <1>1, <1>2, <1>3 DEF SetMetadata, Write

\* clear and a new process only lose rows.
LEMMA LosingFacts ==
    ASSUME TypeOK,
           \/ \E ok \in BOOLEAN : Clear(ok)
           \/ \E fallback \in BOOLEAN : Restart(fallback)
    PROVE  Held' \subseteq Held /\ departed \subseteq departed' /\ now' = now
<1>1. ASSUME NEW ok \in BOOLEAN, Clear(ok)
      PROVE  Held' \subseteq Held /\ departed \subseteq departed' /\ now' = now
  <2>1. Held' \subseteq Held
    BY <1>1, WriteHeld DEF Clear
  <2>. QED BY <1>1, <2>1 DEF Clear, Depart
<1>2. ASSUME NEW fallback \in BOOLEAN, Restart(fallback)
      PROVE  Held' \subseteq Held /\ departed \subseteq departed' /\ now' = now
  BY <1>2 DEF Restart, Depart, Held
<1>. QED BY <1>1, <1>2

\* A step that saves nothing: the store is as it was, or a new process's.
Quiet ==
    \/ Talk
    \/ \E k \in Key, s \in Status : ToolProgress(k, s)
    \/ \E f \in Field \ Dynamic : ProcessorSetMetadata(f)
    \/ Leave
    \/ TearDown
    \/ Tick
    \/ UNCHANGED vars

\* A save by the processor or by the host.
Saving(ok, t, f, amiss) ==
    /\ ok \in BOOLEAN
    /\ t \in [Key -> Status]
    /\ f \in SUBSET Field
    /\ Save(ok, t, f, amiss)
    /\ t = tools \/ "untooled" \in amiss
    /\ f = meta \cup Dynamic \/ "bare" \in amiss

\* The kinds of steps that the invariants below distinguish.
LEMMA StepKinds ==
    ASSUME TypeOK, [Next]_vars
    PROVE  \/ \E ok \in BOOLEAN, seed \in BOOLEAN : Connect(ok, seed)
           \/ \E ok, t, f, amiss : Saving(ok, t, f, amiss)
           \/ \E f \in Field \ Dynamic, read \in BOOLEAN, ok \in BOOLEAN :
                  SetMetadata(f, read, ok)
           \/ \E ok \in BOOLEAN : Clear(ok)
           \/ \E fallback \in BOOLEAN : Restart(fallback)
           \/ Quiet
<1>1. ASSUME NEW ok \in BOOLEAN, NEW reports \in BOOLEAN, NEW given \in BOOLEAN,
             ProcessorCheckpoint(ok, reports, given)
      PROVE  \E o, t, f, amiss : Saving(o, t, f, amiss)
  <2> DEFINE t == IF given THEN tools ELSE NoTools
             f == IF reports THEN meta \cup Dynamic ELSE meta
             amiss == When(~ reports, "bare") \cup When(~ given, "untooled")
  <2>1. Save(ok, t, f, amiss)
    BY <1>1 DEF ProcessorCheckpoint
  <2>2. t \in [Key -> Status] /\ f \in SUBSET Field
    BY HostContextType, DialogueAssumption DEF TypeOK
  <2>3. t = tools \/ "untooled" \in amiss
    BY DEF When
  <2>4. f = meta \cup Dynamic \/ "bare" \in amiss
    BY DEF When
  <2>5. Saving(ok, t, f, amiss)
    BY <2>1, <2>2, <2>3, <2>4 DEF Saving
  <2>. QED BY <2>5
<1>2. ASSUME NEW ok \in BOOLEAN, HostCheckpoint(ok)
      PROVE  \E o, t, f, amiss : Saving(o, t, f, amiss)
  <2>1. Saving(ok, tools, {}, {"bare"})
    BY <1>2 DEF HostCheckpoint, Saving, TypeOK
  <2>. QED BY <2>1
<1>. QED BY <1>1, <1>2 DEF Next, Quiet

LEMMA QuietFacts ==
    ASSUME TypeOK, Quiet
    PROVE  /\ Held' = Held
           /\ UNCHANGED <<store, last, departed>>
           /\ ctx' = None \/ (/\ ctx # None
                              /\ ctx'.prompt = ctx.prompt
                              /\ ctx'.notice = ctx.notice)
           /\ now' >= now
<1>1. CASE Talk
  <2>1. ctx \in Context /\ ctx' = [ctx EXCEPT !.turn = said']
    BY <1>1 DEF Talk, TypeOK
  <2>2. ctx'.prompt = ctx.prompt /\ ctx'.notice = ctx.notice
    BY <2>1 DEF Context
  <2>. QED BY <1>1, <2>2 DEF Talk, Held, store, TypeOK
<1>2. ASSUME NEW k \in Key, NEW s \in Status, ToolProgress(k, s)
      PROVE  Held' = Held /\ UNCHANGED <<now, store, ctx, last, departed>>
  BY <1>2 DEF ToolProgress, Held, store, hist
<1>3. ASSUME NEW f \in Field \ Dynamic, ProcessorSetMetadata(f)
      PROVE  Held' = Held /\ UNCHANGED <<now, store, ctx, last, departed>>
  BY <1>3 DEF ProcessorSetMetadata, Held, store, hist
<1>4. CASE Leave
  BY <1>4 DEF Leave, Held, store, conn, TypeOK
<1>5. CASE TearDown
  BY <1>5 DEF TearDown, Discarded, Held, store, hist, TypeOK
<1>6. CASE Tick
  BY <1>6 DEF Tick, Held, store, conn, hist, TypeOK
<1>7. CASE UNCHANGED vars
  BY <1>7 DEF vars, Held, store, conn, hist, TypeOK
<1>. QED BY <1>1, <1>2, <1>3, <1>4, <1>5, <1>6, <1>7 DEF Quiet, TypeOK

-----------------------------------------------------------------------------
(* The host's prompt.                                                        *)

\* Every row that may be loaded has it.
Prompted ==
    "unmet" \notin departed =>
        /\ \A r \in Held : r.msgs.prompt
        /\ ctx # None => ctx.prompt

LEMMA InitPrompted == Init => Prompted
BY DEF Init, Prompted, Held

LEMMA NextPrompted == TypeOK /\ Prompted /\ [Next]_vars => Prompted'
<1> SUFFICES ASSUME TypeOK, Prompted, [Next]_vars, "unmet" \notin departed'
             PROVE  /\ \A r \in Held' : r.msgs.prompt
                    /\ ctx' # None => ctx'.prompt
  BY DEF Prompted
<1>1. ASSUME NEW ok \in BOOLEAN, NEW seed \in BOOLEAN, Connect(ok, seed)
      PROVE  (\A r \in Held' : r.msgs.prompt) /\ (ctx' # None => ctx'.prompt)
  BY <1>1, ConnectFacts, HostContextType DEF Prompted
<1>2. ASSUME NEW ok, NEW t, NEW f, NEW amiss, Saving(ok, t, f, amiss)
      PROVE  (\A r \in Held' : r.msgs.prompt) /\ (ctx' # None => ctx'.prompt)
  <2>1. /\ ctx' = ctx /\ ctx \in Context /\ ctx # None
        /\ departed \subseteq departed'
        /\ Held' \subseteq Held \cup {Snapshot(ctx, t, f)}
    BY <1>2, SaveFacts, RowAssumption DEF Saving, conn
  <2>2. ctx.prompt
    BY <2>1 DEF Prompted
  <2>3. Snapshot(ctx, t, f).msgs = ctx
    BY DEF Snapshot
  <2>. QED BY <2>1, <2>2, <2>3 DEF Prompted
<1>3. ASSUME NEW f \in Field \ Dynamic, NEW read \in BOOLEAN, NEW ok \in BOOLEAN,
             SetMetadata(f, read, ok)
      PROVE  (\A r \in Held' : r.msgs.prompt) /\ (ctx' # None => ctx'.prompt)
  <2>1. /\ ctx' = ctx
        /\ departed \subseteq departed'
        /\ Loaded(read) \in Held /\ Loaded(read) \in Row /\ Loaded(read) # None
        /\ Held' \subseteq Held \cup {Merged(Loaded(read), f)}
    BY <1>3, SetMetadataFacts DEF conn
  <2>2. Merged(Loaded(read), f).msgs = Loaded(read).msgs
    BY <2>1, MergedType DEF TypeOK
  <2>. QED BY <2>1, <2>2 DEF Prompted
<1>4. ASSUME \/ \E ok \in BOOLEAN : Clear(ok)
             \/ \E fallback \in BOOLEAN : Restart(fallback)
      PROVE  (\A r \in Held' : r.msgs.prompt) /\ (ctx' # None => ctx'.prompt)
  <2>1. ctx' = ctx \/ ctx' = None
    BY <1>4 DEF Clear, Restart, Discarded, conn
  <2>. QED BY <1>4, <2>1, LosingFacts DEF Prompted
<1>5. CASE Quiet
  BY <1>5, QuietFacts DEF Prompted
<1>. QED BY <1>1, <1>2, <1>3, <1>4, <1>5, StepKinds

\* The LLM of every connection has the host's instructions, unless set_metadata was
\* called for a session it did not find, however often a session is resumed.
THEOREM PromptIsKept == Spec => []PromptKept
<1>1. TypeOK /\ Prompted => PromptKept
  BY DEF Prompted, PromptKept
<1>. QED BY <1>1, InitType, NextType, InitPrompted, NextPrompted, PTL DEF Spec

-----------------------------------------------------------------------------
(* The notices about tool calls.                                             *)

\* No messages speak of a call that the tool calls next to them do not have.
Silent(m, t) == \A k \in Key : t[k] = "none" => m.notice[k] = "none"

Noticed ==
    "untooled" \notin departed =>
        /\ \A r \in Held : Silent(r.msgs, r.tools)
        /\ ctx # None => Silent(ctx, tools)

LEMMA InitNoticed == Init => Noticed
BY DEF Init, Noticed, Held

\* What a connection begins with tells the outcomes of its calls.
LEMMA ConnectNoticed ==
    ASSUME TypeOK, Noticed, NEW ok \in BOOLEAN, NEW seed \in BOOLEAN,
           Connect(ok, seed), "untooled" \notin departed'
    PROVE  /\ Silent(ctx', tools')
           /\ \A k \in Key : tools'[k] # "failed" => ctx'.notice[k] = tools'[k]
<1>1. CASE Loaded(ok) = None
  <2>1. ctx'.notice = NoTools /\ tools' = NoTools
    BY <1>1, ConnectFacts, HostContextType
  <2>. QED BY <2>1 DEF Silent, NoTools
<1>2. CASE Loaded(ok) # None
  <2> DEFINE row == Loaded(ok)
  <2>1. row \in Held /\ row \in Row /\ Silent(row.msgs, row.tools)
    BY <1>2, ConnectFacts DEF Noticed, TypeOK, Held
  <2>2. /\ tools' = row.tools
        /\ \A k \in Key : ctx'.notice[k] =
               IF tools'[k] \in {"pending", "completed"} THEN tools'[k]
               ELSE row.msgs.notice[k]
    BY <1>2, ConnectFacts
  <2>3. \A k \in Key : tools'[k] \in Status
    BY <2>1, <2>2 DEF Row
  <2>. QED BY <2>1, <2>2, <2>3 DEF Silent, Status
<1>. QED BY <1>1, <1>2

LEMMA NextNoticed == TypeOK /\ Noticed /\ [Next]_vars => Noticed'
<1> SUFFICES ASSUME TypeOK, Noticed, [Next]_vars, "untooled" \notin departed'
             PROVE  /\ \A r \in Held' : Silent(r.msgs, r.tools)
                    /\ ctx' # None => Silent(ctx', tools')
  BY DEF Noticed, Silent
<1> DEFINE Goal == /\ \A r \in Held' : Silent(r.msgs, r.tools)
                   /\ ctx' # None => Silent(ctx', tools')
<1>1. ASSUME NEW ok \in BOOLEAN, NEW seed \in BOOLEAN, Connect(ok, seed)
      PROVE  Goal
  BY <1>1, ConnectFacts, ConnectNoticed DEF Noticed
<1>2. ASSUME NEW ok, NEW t, NEW f, NEW amiss, Saving(ok, t, f, amiss)
      PROVE  Goal
  <2>1. /\ ctx' = ctx /\ tools' = tools /\ ctx # None
        /\ departed \subseteq departed' /\ amiss \subseteq departed'
        /\ Held' \subseteq Held \cup {Snapshot(ctx, t, f)}
    BY <1>2, SaveFacts, RowAssumption DEF Saving, conn
  <2>2. Snapshot(ctx, t, f).msgs = ctx /\ Snapshot(ctx, t, f).tools = tools
    BY <1>2, <2>1 DEF Saving, Snapshot
  <2>. QED BY <2>1, <2>2 DEF Noticed
<1>3. ASSUME NEW f \in Field \ Dynamic, NEW read \in BOOLEAN, NEW ok \in BOOLEAN,
             SetMetadata(f, read, ok)
      PROVE  Goal
  <2> DEFINE row == Merged(Loaded(read), f)
  <2>1. /\ ctx' = ctx /\ tools' = tools
        /\ departed \subseteq departed'
        /\ Loaded(read) \in Held \cup {None}
        /\ Loaded(read) \in Row \cup {None}
        /\ Held' \subseteq Held \cup {row}
    BY <1>3, SetMetadataFacts DEF conn
  <2>2. Silent(row.msgs, row.tools)
    <3>1. CASE Loaded(read) = None
      <4>1. row.msgs.notice = NoTools
        BY <2>1, <3>1, MergedType, HostContextType DEF TypeOK
      <4>. QED BY <4>1 DEF Silent, NoTools
    <3>2. CASE Loaded(read) # None
      BY <2>1, <3>2, MergedType DEF TypeOK, Noticed
    <3>. QED BY <3>1, <3>2
  <2>. QED BY <2>1, <2>2 DEF Noticed
<1>4. ASSUME \/ \E ok \in BOOLEAN : Clear(ok)
             \/ \E fallback \in BOOLEAN : Restart(fallback)
      PROVE  Goal
  <2>1. (ctx' = ctx /\ tools' = tools) \/ ctx' = None
    BY <1>4 DEF Clear, Restart, Discarded, conn
  <2>. QED BY <1>4, <2>1, LosingFacts DEF Noticed
<1>5. ASSUME NEW k \in Key, NEW s \in Status, ToolProgress(k, s)
      PROVE  Goal
  <2>1. Held' = Held /\ departed' = departed /\ ctx' = ctx
    BY <1>5, QuietFacts DEF Quiet, ToolProgress
  <2>2. \A j \in Key : tools'[j] = "none" => tools[j] = "none"
    BY <1>5 DEF ToolProgress, TypeOK
  <2>. QED BY <2>1, <2>2 DEF Noticed, Silent
<1>6. ASSUME Quiet, UNCHANGED tools
      PROVE  Goal
  BY <1>6, QuietFacts DEF Noticed, Silent
<1>7. ASSUME Quiet, ctx' = None
      PROVE  Goal
  BY <1>7, QuietFacts DEF Noticed
<1>8. CASE Quiet
  BY <1>5, <1>6, <1>7, <1>8
     DEF Quiet, Talk, ProcessorSetMetadata, Leave, TearDown, Discarded, Tick, vars, conn
<1>. QED BY <1>1, <1>2, <1>3, <1>4, <1>8, StepKinds

\* The newest word on a tool call is its outcome, after any number of reconnects, and
\* there is none on a call the registry does not have.
THEOREM NoticesAreTrue == Spec => NoticesTellOutcome
<1>1. TypeOK /\ Noticed /\ [Next]_vars =>
        [Begins /\ Without({"untooled"}) =>
            \A k \in Key : tools'[k] # "failed" => ctx'.notice[k] = tools'[k]]_vars
  <2> SUFFICES ASSUME TypeOK, Noticed, Next, Begins, Without({"untooled"})
               PROVE  \A k \in Key : tools'[k] # "failed" => ctx'.notice[k] = tools'[k]
    OBVIOUS
  <2>1. PICK ok \in BOOLEAN, seed \in BOOLEAN : Connect(ok, seed)
    BY StepKinds, QuietFacts, SaveFacts, SetMetadataFacts
       DEF Begins, Saving, Clear, Restart, Discarded, conn
  <2>. QED BY <2>1, ConnectNoticed DEF Without
<1>. QED BY <1>1, InitType, NextType, InitNoticed, NextNoticed, PTL
         DEF Spec, NoticesTellOutcome

-----------------------------------------------------------------------------
(* How long the user was away.                                               *)

\* No row is younger than the moment the client left, if nothing was saved later.
Dated ==
    /\ ctx = None => ~ client
    /\ \A r \in Held : r.at <= now
    /\ "touched" \notin departed /\ ~ client => \A r \in Held : r.at <= leftAt

LEMMA InitDated == Init => Dated
BY DEF Init, Dated, Held

\* A row saved now is no later than the client's leaving, or it is noted.
LEMMA AddDated ==
    ASSUME TypeOK, Dated, NEW row \in Row, row.at = now,
           UNCHANGED <<now, ctx, client, leftAt>>,
           departed \subseteq departed',
           ~ client /\ now > leftAt => "touched" \in departed',
           Held' \subseteq Held \cup {row}
    PROVE  Dated'
<1>1. now \in Int /\ leftAt \in Int
  BY DialogueAssumption DEF TypeOK
<1>2. \A r \in Held' : r.at <= now
  BY <1>1 DEF Dated
<1>3. ASSUME "touched" \notin departed', ~ client
      PROVE  \A r \in Held' : r.at <= leftAt
  BY <1>1, <1>3 DEF Dated
<1>. QED BY <1>2, <1>3 DEF Dated

LEMMA NextDated == TypeOK /\ Dated /\ [Next]_vars => Dated'
<1> SUFFICES ASSUME TypeOK, Dated, [Next]_vars
             PROVE  Dated'
  OBVIOUS
<1>0. /\ now \in Int /\ leftAt \in Int
      /\ \A r \in Held : r.at \in Int
  BY DialogueAssumption DEF TypeOK, Held, Row
<1>1. ASSUME NEW ok \in BOOLEAN, NEW seed \in BOOLEAN, Connect(ok, seed)
      PROVE  Dated'
  <2>1. Held' = Held /\ now' = now /\ client' /\ ctx' # None
    BY <1>1, ConnectFacts DEF Connect
  <2>. QED BY <2>1 DEF Dated
<1>2. ASSUME NEW ok, NEW t, NEW f, NEW amiss, Saving(ok, t, f, amiss)
      PROVE  Dated'
  <2>1. Snapshot(ctx, t, f).at = now
    BY DEF Snapshot
  <2>. QED BY <1>2, <2>1, SaveFacts, AddDated DEF Saving, conn
<1>3. ASSUME NEW f \in Field \ Dynamic, NEW read \in BOOLEAN, NEW ok \in BOOLEAN,
             SetMetadata(f, read, ok)
      PROVE  Dated'
  <2>1. /\ UNCHANGED <<now, ctx, client, leftAt>>
        /\ departed \subseteq departed'
        /\ ~ client /\ now > leftAt => "touched" \in departed'
        /\ Loaded(read) \in Row \cup {None}
        /\ Held' \subseteq Held \cup {Merged(Loaded(read), f)}
    BY <1>3, SetMetadataFacts DEF conn
  <2>2. Merged(Loaded(read), f) \in Row /\ Merged(Loaded(read), f).at = now
    BY <2>1, MergedType DEF TypeOK
  <2>. QED BY <2>1, <2>2, AddDated
<1>4. ASSUME NEW ok \in BOOLEAN, Clear(ok)
      PROVE  Dated'
  <2>1. /\ Held' \subseteq Held /\ departed \subseteq departed'
        /\ UNCHANGED <<now, ctx, client, leftAt>>
    BY <1>4, LosingFacts DEF Clear, conn
  <2>. QED BY <2>1 DEF Dated
<1>5. ASSUME NEW fallback \in BOOLEAN, Restart(fallback)
      PROVE  Dated'
  <2>1. /\ Held' \subseteq Held /\ departed \subseteq departed' /\ now' = now
        /\ ~ client'
        /\ leftAt' = IF client THEN now ELSE leftAt
    BY <1>5, LosingFacts DEF Restart
  <2>. QED BY <2>1 DEF Dated
<1>6. CASE Leave
  <2>1. /\ Held' = Held /\ leftAt' = now /\ now' = now /\ ~ client'
    BY <1>6, QuietFacts DEF Quiet, Leave
  <2>. QED BY <2>1 DEF Dated
<1>7. CASE TearDown
  <2>1. /\ Held' = Held /\ departed' = departed
        /\ UNCHANGED <<now, client, leftAt>> /\ ~ client
    BY <1>7, QuietFacts DEF Quiet, TearDown, hist
  <2>. QED BY <2>1 DEF Dated
<1>8. CASE Tick
  <2>1. /\ Held' = Held /\ departed' = departed /\ now' = now + 1
        /\ UNCHANGED <<ctx, client, leftAt>>
    BY <1>8, QuietFacts DEF Quiet, Tick, conn, hist
  <2>2. \A r \in Held' : r.at <= now'
    BY <1>0, <2>1 DEF Dated
  <2>. QED BY <2>1, <2>2 DEF Dated
<1>9. ASSUME Quiet, UNCHANGED <<now, client, leftAt>>, ctx' = None => ctx = None
      PROVE  Dated'
  BY <1>9, QuietFacts DEF Dated
<1>10. CASE Quiet
  <2>1. CASE Talk
    <3>1. ctx' \in Context
      BY <2>1, TalkType
    <3>2. ctx' # None /\ UNCHANGED <<now, client, leftAt>>
      BY <2>1, <3>1, RowAssumption DEF Talk
    <3>. QED BY <1>9, <1>10, <3>2
  <2>2. ASSUME NEW k \in Key, NEW s \in Status, ToolProgress(k, s)
        PROVE  Dated'
    BY <2>2, <1>9, <1>10 DEF ToolProgress, hist
  <2>3. ASSUME NEW f \in Field \ Dynamic, ProcessorSetMetadata(f)
        PROVE  Dated'
    BY <2>3, <1>9, <1>10 DEF ProcessorSetMetadata, hist
  <2>4. CASE UNCHANGED vars
    BY <2>4, <1>9, <1>10 DEF vars, conn, hist
  <2>. QED BY <1>6, <1>7, <1>8, <1>10, <2>1, <2>2, <2>3, <2>4 DEF Quiet
<1>. QED BY <1>1, <1>2, <1>3, <1>4, <1>5, <1>10, StepKinds

\* A client greeted as "just restored" has not been away for longer than the threshold,
\* if nothing was saved after it had left.
THEOREM RestoredMeansRecent == Spec => RestoredIsRecent
<1>1. TypeOK /\ Dated /\ [Next]_vars =>
        [Begins /\ told' = "restored" /\ Without({"touched"}) =>
            now - leftAt <= Stale]_vars
  <2> SUFFICES ASSUME TypeOK, Dated, Next, Begins, told' = "restored",
                      Without({"touched"})
               PROVE  now - leftAt <= Stale
    OBVIOUS
  <2>1. PICK ok \in BOOLEAN, seed \in BOOLEAN : Connect(ok, seed)
    BY StepKinds, QuietFacts, SaveFacts, SetMetadataFacts
       DEF Begins, Saving, Clear, Restart, Discarded, conn
  <2> DEFINE row == Loaded(ok)
  <2>2. row \in Held /\ ~ (now - row.at > Stale) /\ departed \subseteq departed'
    BY <2>1, ConnectFacts
  <2>3. row.at <= leftAt
    BY <2>1, <2>2 DEF Dated, Begins, Without
  <2>4. now \in Int /\ leftAt \in Int /\ row.at \in Int /\ Stale \in Int
    BY <2>2, DialogueAssumption DEF TypeOK, Held, Row
  <2>. QED BY <2>2, <2>3, <2>4
<1>. QED BY <1>1, InitType, NextType, InitDated, NextDated, PTL
         DEF Spec, RestoredIsRecent

-----------------------------------------------------------------------------
(* What is resumed.                                                          *)

\* The storage in use holds what it should.
Remembered ==
    departed \cap {"fault", "switched"} = {} =>
        last = IF useMemory THEN memory ELSE server

LEMMA InitRemembered == Init => Remembered
BY DEF Init, Remembered

\* A write that does not fail puts the row where the next load looks for it.
LEMMA WriteRemembered ==
    ASSUME NEW row, Write(TRUE, row)
    PROVE  row = (IF useMemory THEN memory ELSE server)'
BY DEF Write, Put

\* Then a load that does not fail finds what is expected.
LEMMA LoadedExpected ==
    ASSUME Remembered, departed \cap {"fault", "switched"} = {}
    PROVE  Loaded(TRUE) = IF Outlived THEN last ELSE Expected
BY DEF Remembered, Loaded, StoredRow, Expected, Outlived

LEMMA NextRemembered == TypeOK /\ Remembered /\ [Next]_vars => Remembered'
<1> DEFINE Clean == departed \cap {"fault", "switched"} = {}
           InUse == IF useMemory THEN memory ELSE server
<1> SUFFICES ASSUME TypeOK, Remembered, [Next]_vars, Clean'
             PROVE  last' = InUse'
  BY DEF Remembered
<1>1. ASSUME NEW ok \in BOOLEAN, NEW seed \in BOOLEAN, Connect(ok, seed)
      PROVE  last' = InUse'
  <2>1. Clean /\ last' = last
    BY <1>1 DEF Connect, Depart, Remember
  <2>. QED BY <1>1, <2>1 DEF Remembered, Connect, store
<1>2. ASSUME NEW ok, NEW t, NEW f, NEW amiss, Saving(ok, t, f, amiss)
      PROVE  last' = InUse'
  <2>1. ok = TRUE
    BY <1>2, SaveFacts DEF Saving
  <2>2. last' = Snapshot(ctx, t, f) /\ Write(TRUE, Snapshot(ctx, t, f))
    BY <1>2, <2>1 DEF Saving, Save, Remember
  <2>. QED BY <2>2, WriteRemembered
<1>3. ASSUME NEW f \in Field \ Dynamic, NEW read \in BOOLEAN, NEW ok \in BOOLEAN,
             SetMetadata(f, read, ok)
      PROVE  last' = InUse'
  <2>1. ok = TRUE /\ read = TRUE /\ Clean
    BY <1>3, SetMetadataFacts
  <2>2. /\ last' = Merged(IF Outlived THEN last ELSE Expected, f)
        /\ Write(TRUE, Merged(Loaded(TRUE), f))
    BY <1>3, <2>1 DEF SetMetadata, Remember
  <2>3. Loaded(TRUE) = IF Outlived THEN last ELSE Expected
    BY <2>1, LoadedExpected
  <2>. QED BY <2>2, <2>3, WriteRemembered
<1>4. ASSUME NEW ok \in BOOLEAN, Clear(ok)
      PROVE  last' = InUse'
  <2>1. ok = TRUE
    BY <1>4 DEF Clear, Depart, When
  <2>2. last' = None /\ Write(TRUE, None)
    BY <1>4, <2>1 DEF Clear
  <2>. QED BY <2>2, WriteRemembered
<1>5. ASSUME NEW fallback \in BOOLEAN, Restart(fallback)
      PROVE  last' = InUse'
  <2>1. ~ fallback /\ ~ useMemory /\ Clean /\ last' = last
    BY <1>5 DEF Restart, Depart, When, Remember
  <2>. QED BY <1>5, <2>1 DEF Remembered, Restart
<1>6. CASE Quiet
  <2>1. UNCHANGED <<server, memory, useMemory, last, departed>>
    BY <1>6, QuietFacts DEF store
  <2>. QED BY <2>1 DEF Remembered
<1>. QED BY <1>1, <1>2, <1>3, <1>4, <1>5, <1>6, StepKinds

\* A connection goes on from the last checkpoint while that lives, and starts afresh
\* when there is none or its time is over, over any number of connections, tool calls
\* and restarts; a process that runs on its memory keeps it longer.
THEOREM LastCheckpointIsResumed == Spec => ResumesLastCheckpoint
<1>1. TypeOK /\ Remembered /\ [Next]_vars =>
        [Begins /\ Without({"fault", "switched"}) /\ ~ Outlived =>
           IF Expected = None THEN told' = "new"
           ELSE /\ told' # "new"
                /\ ctx'.turn = Expected.msgs.turn
                /\ ctx'.prompt = Expected.msgs.prompt
                /\ tools' = Expected.tools]_vars
  <2> SUFFICES ASSUME TypeOK, Remembered, Next, Begins, ~ Outlived,
                      Without({"fault", "switched"})
               PROVE  IF Expected = None THEN told' = "new"
                      ELSE /\ told' # "new"
                           /\ ctx'.turn = Expected.msgs.turn
                           /\ ctx'.prompt = Expected.msgs.prompt
                           /\ tools' = Expected.tools
    OBVIOUS
  <2>1. PICK ok \in BOOLEAN, seed \in BOOLEAN : Connect(ok, seed)
    BY StepKinds, QuietFacts, SaveFacts, SetMetadataFacts
       DEF Begins, Saving, Clear, Restart, Discarded, conn
  <2>2. ok = TRUE /\ departed \cap {"fault", "switched"} = {}
    BY <2>1 DEF Connect, Depart, When, Without
  <2>3. Loaded(ok) = Expected
    BY <2>2, LoadedExpected
  <2>. QED BY <2>1, <2>3, ConnectFacts
<1>. QED BY <1>1, InitType, NextType, InitRemembered, NextRemembered, PTL
         DEF Spec, ResumesLastCheckpoint

-----------------------------------------------------------------------------
(* Metadata.                                                                 *)

Amiss == {"fault", "switched", "unmet", "bare"}

\* The processor and get_metadata_fn between them have all that is stored.
Seeded ==
    departed \cap Amiss = {} /\ ctx # None /\ StoredRow # None =>
        StoredRow.meta \subseteq meta \cup Dynamic

\* A write that does not fail replaces the row that a load finds.
LEMMA WriteStored ==
    ASSUME NEW row, Write(TRUE, row), now' = now
    PROVE  StoredRow' \in {row, None}
BY DEF Write, Put, StoredRow, Lapsed

LEMMA InitSeeded == Init => Seeded
BY DEF Init, Seeded

LEMMA NextSeeded == TypeOK /\ Seeded /\ [Next]_vars => Seeded'
<1> SUFFICES ASSUME TypeOK, Seeded, [Next]_vars, (departed \cap Amiss = {})',
                    ctx' # None, StoredRow' # None
             PROVE  StoredRow'.meta \subseteq meta' \cup Dynamic
  BY DEF Seeded
<1>1. ASSUME NEW ok \in BOOLEAN, NEW seed \in BOOLEAN, Connect(ok, seed)
      PROVE  StoredRow'.meta \subseteq meta' \cup Dynamic
  <2>1. ok = TRUE /\ seed = TRUE
    BY <1>1 DEF Connect, Depart, When, Amiss
  <2>2. StoredRow' = StoredRow /\ Loaded(ok) = StoredRow
    BY <1>1, <2>1 DEF Connect, StoredRow, Lapsed, Loaded, store
  <2>. QED BY <1>1, <2>1, <2>2 DEF Connect
<1>2. ASSUME NEW ok, NEW t, NEW f, NEW amiss, Saving(ok, t, f, amiss)
      PROVE  StoredRow'.meta \subseteq meta' \cup Dynamic
  <2>1. ok = TRUE /\ f = meta \cup Dynamic
    BY <1>2, SaveFacts DEF Saving, Amiss
  <2>2. StoredRow' = Snapshot(ctx, t, f) /\ meta' = meta
    BY <1>2, <2>1, WriteStored DEF Saving, Save, conn
  <2>. QED BY <2>1, <2>2 DEF Snapshot
<1>3. ASSUME NEW f \in Field \ Dynamic, NEW read \in BOOLEAN, NEW ok \in BOOLEAN,
             SetMetadata(f, read, ok)
      PROVE  FALSE
  BY <1>3, SetMetadataFacts DEF Amiss, conn
<1>4. ASSUME NEW ok \in BOOLEAN, Clear(ok)
      PROVE  FALSE
  <2>1. ok = TRUE
    BY <1>4 DEF Clear, Depart, When, Amiss
  <2>. QED BY <1>4, <2>1, WriteStored DEF Clear
<1>5. ASSUME NEW fallback \in BOOLEAN, Restart(fallback)
      PROVE  FALSE
  BY <1>5 DEF Restart, Discarded
<1>6. CASE Quiet
  <2>1. /\ UNCHANGED <<server, memory, useMemory, departed>>
        /\ ctx # None
    BY <1>6, QuietFacts DEF store
  <2>2. StoredRow' = StoredRow
    <3>1. now' = now \/ now' = now + 1
      BY <1>6 DEF Quiet, Talk, ToolProgress, ProcessorSetMetadata, Leave, TearDown,
                  Tick, vars
    <3>2. server # None => now \in Int /\ server.at \in Int /\ TTL \in Int
      BY DialogueAssumption DEF TypeOK, Row
    <3>. QED BY <2>1, <3>1, <3>2 DEF StoredRow, Lapsed
  <2>3. meta \subseteq meta'
    BY <1>6 DEF Quiet, Talk, ToolProgress, ProcessorSetMetadata, Leave, TearDown,
                Discarded, Tick, vars, conn
  <2>. QED BY <2>1, <2>2, <2>3 DEF Seeded
<1>. QED BY <1>1, <1>2, <1>3, <1>4, <1>5, <1>6, StepKinds

\* Metadata that is kept in one place is never erased while its session is stored.
THEOREM FieldsAreKept == Spec => FieldsKept
<1>1. TypeOK /\ Seeded /\ [Next]_vars =>
        [/\ StoredRow # None /\ StoredRow' # None
         /\ useMemory' = useMemory
         /\ Without({"fault", "switched", "unmet", "bare"})
         => StoredRow.meta \subseteq StoredRow'.meta]_vars
  <2> SUFFICES ASSUME TypeOK, Seeded, Next, StoredRow # None, StoredRow' # None,
                      useMemory' = useMemory, departed' \cap Amiss = {}
               PROVE  StoredRow.meta \subseteq StoredRow'.meta
    BY DEF Without, Amiss
  <2>1. ASSUME UNCHANGED <<server, memory, useMemory>>
        PROVE  StoredRow.meta \subseteq StoredRow'.meta
    BY <2>1 DEF StoredRow
  <2>2. ASSUME NEW ok, NEW t, NEW f, NEW amiss, Saving(ok, t, f, amiss)
        PROVE  StoredRow.meta \subseteq StoredRow'.meta
    <3>1. ok = TRUE /\ f = meta \cup Dynamic /\ departed \cap Amiss = {} /\ ctx # None
      BY <2>2, SaveFacts, RowAssumption DEF Saving, Amiss
    <3>2. StoredRow' = Snapshot(ctx, t, f)
      BY <2>2, <3>1, WriteStored DEF Saving, Save
    <3>. QED BY <3>1, <3>2 DEF Seeded, Snapshot
  <2>3. ASSUME NEW f \in Field \ Dynamic, NEW read \in BOOLEAN, NEW ok \in BOOLEAN,
               SetMetadata(f, read, ok)
        PROVE  StoredRow.meta \subseteq StoredRow'.meta
    <3>1. ok = TRUE /\ read = TRUE
      BY <2>3, SetMetadataFacts DEF Amiss
    <3>2. StoredRow \in Row /\ Loaded(read) = StoredRow
      BY <3>1, LoadedHeld DEF Held, TypeOK, Loaded
    <3>3. StoredRow' = Merged(StoredRow, f)
      BY <2>3, <3>1, <3>2, WriteStored DEF SetMetadata
    <3>. QED BY <3>2, <3>3, MergedType DEF TypeOK
  <2>4. ASSUME NEW ok \in BOOLEAN, Clear(ok)
        PROVE  FALSE
    <3>1. ok = TRUE
      BY <2>4 DEF Clear, Depart, When, Amiss
    <3>. QED BY <2>4, <3>1, WriteStored DEF Clear
  <2>5. ASSUME NEW fallback \in BOOLEAN, Restart(fallback)
        PROVE  StoredRow.meta \subseteq StoredRow'.meta
    <3>1. ~ useMemory /\ UNCHANGED <<server, useMemory>>
      BY <2>5 DEF Restart, Depart, When, Amiss
    <3>. QED BY <3>1 DEF StoredRow
  <2>6. CASE Quiet
    BY <2>1, <2>6, QuietFacts DEF store
  <2>. QED BY <2>1, <2>2, <2>3, <2>4, <2>5, <2>6, StepKinds DEF Connect, store
<1>. QED BY <1>1, InitType, NextType, InitSeeded, NextSeeded, PTL
         DEF Spec, FieldsKept
=============================================================================
