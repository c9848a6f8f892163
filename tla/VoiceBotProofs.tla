---------------------------- MODULE VoiceBotProofs ----------------------------
(***************************************************************************)
(* Proofs about VoiceBot, for any requests, call ids, results, connections *)
(* number of storage calls in flight and accidents: its types, that no     *)
(* request takes effect twice before the first accident, that until one    *)
(* other than parallel tool calls an effect is remembered, and that what a *)
(* connection believes is true.                                            *)
(***************************************************************************)
EXTENDS VoiceBot, ToolRegistryProofs, SequenceTheorems

Link == [st : {"gone", "opened", "loaded", "ready"},
         resumed : BOOLEAN, ended : BOOLEAN, stale : BOOLEAN,
         dump : {"none", "kept", "cleared"},
         tools : Registry, got : Dict \cup {None}]

Progress == [pc : {"unused", "recording", "recorded", "acting", "confirming", "over"},
             by : Conn \cup {None}]

StorageCall == [owner : CallId \cup {None}, data : Dict \cup {None}]

-----------------------------------------------------------------------------
(* The storage calls in flight. *)

LEMMA AppendFacts ==
    ASSUME NEW S, NEW s \in Seq(S), NEW e \in S
    PROVE  /\ Append(s, e) \in Seq(S)
           /\ Len(Append(s, e)) = Len(s) + 1
           /\ \A i \in 1..Len(s) : Append(s, e)[i] = s[i]
           /\ Append(s, e)[Len(s) + 1] = e
BY AppendProperties

LEMMA RemoveAtFacts ==
    ASSUME NEW S, NEW s \in Seq(S), NEW j \in 1..Len(s)
    PROVE  /\ RemoveAt(s, j) \in Seq(S)
           /\ Len(RemoveAt(s, j)) = Len(s) - 1
           /\ \A i \in 1..(Len(s) - 1) :
                RemoveAt(s, j)[i] = IF i < j THEN s[i] ELSE s[i + 1]
<1>. DEFINE head == SubSeq(s, 1, j - 1)
            tail == SubSeq(s, j + 1, Len(s))
<1>0. Len(s) \in Nat /\ j \in Nat
  OBVIOUS
<1>1. /\ head \in Seq(S) /\ Len(head) = j - 1
      /\ \A i \in 1..(j - 1) : head[i] = s[i]
  BY <1>0, SubSeqProperties
<1>2. /\ tail \in Seq(S) /\ Len(tail) = Len(s) - j
      /\ \A i \in 1..(Len(s) - j) : tail[i] = s[i + j]
  BY <1>0, SubSeqProperties
<1>. HIDE DEF head, tail
<1>3. /\ head \o tail \in Seq(S)
      /\ Len(head \o tail) = Len(head) + Len(tail)
      /\ \A i \in 1..(Len(head) + Len(tail)) :
           (head \o tail)[i] = IF i <= Len(head) THEN head[i] ELSE tail[i - Len(head)]
  BY <1>1, <1>2, ConcatProperties
<1>4. RemoveAt(s, j) = head \o tail
  BY DEF RemoveAt, head, tail
<1>5. RemoveAt(s, j) \in Seq(S) /\ Len(RemoveAt(s, j)) = Len(s) - 1
  <2>1. (j - 1) + (Len(s) - j) = Len(s) - 1
    BY <1>0
  <2>2. Len(head \o tail) = Len(s) - 1
    BY <1>1, <1>2, <1>3, <2>1
  <2>. QED BY <1>3, <1>4, <2>2
<1>6. ASSUME NEW i \in 1..(Len(s) - 1)
      PROVE  (head \o tail)[i] = IF i < j THEN s[i] ELSE s[i + 1]
  <2>1. (head \o tail)[i] = IF i <= j - 1 THEN head[i] ELSE tail[i - (j - 1)]
    BY <1>0, <1>1, <1>2, <1>3
  <2>2. CASE i < j
    <3>1. i \in 1..(j - 1)
      BY <1>0, <2>2
    <3>. QED BY <1>0, <1>1, <2>1, <2>2, <3>1
  <2>3. CASE ~ (i < j)
    <3>1. i - (j - 1) \in 1..(Len(s) - j)
      BY <1>0, <2>3
    <3>2. tail[i - (j - 1)] = s[(i - (j - 1)) + j] /\ (i - (j - 1)) + j = i + 1
      BY <1>0, <1>2, <3>1
    <3>. QED BY <1>0, <2>1, <2>3, <3>2
  <2>. QED BY <2>2, <2>3
<1>. QED BY <1>4, <1>5, <1>6

\* A storage call is made.
LEMMA WriteFacts ==
    ASSUME writes \in Seq(StorageCall), NEW o \in CallId \cup {None},
           NEW d \in Dict \cup {None}, Write(o, d)
    PROVE  /\ writes' \in Seq(StorageCall)
           /\ Len(writes') = Len(writes) + 1 /\ Len(writes') <= MaxWrites
           /\ \A j \in 1..Len(writes) : writes'[j] = writes[j]
           /\ writes'[Len(writes) + 1].owner = o
           /\ writes'[Len(writes) + 1].data = d
<1>1. [owner |-> o, data |-> d] \in StorageCall
  BY DEF StorageCall
<1>2. writes' = Append(writes, [owner |-> o, data |-> d]) /\ Len(writes) < MaxWrites
  BY DEF Write
<1>3. /\ writes' \in Seq(StorageCall)
      /\ Len(writes') = Len(writes) + 1
      /\ \A i \in 1..Len(writes) : writes'[i] = writes[i]
      /\ writes'[Len(writes) + 1] = [owner |-> o, data |-> d]
  BY <1>1, <1>2, AppendFacts
<1>. QED BY <1>2, <1>3, BotAssumption

Linked == conn \in [Conn -> Link] /\ call \in [CallId -> Progress]

\* A storage call ends.
LEMMA EndsFacts ==
    ASSUME Linked, writes \in Seq(StorageCall),
           NEW j \in DOMAIN writes, NEW ok \in BOOLEAN, WriteEnds(j, ok)
    PROVE  /\ writes' \in Seq(StorageCall) /\ writes[j] \in StorageCall
           /\ Len(writes') = Len(writes) - 1
           /\ \A i \in 1..(Len(writes) - 1) :
                writes'[i] = IF i < j THEN writes[i] ELSE writes[i + 1]
           /\ Linked'
           /\ conn' = conn
           /\ \A i \in CallId :
                /\ call'[i].by = call[i].by
                /\ call'[i].pc = IF writes[j].owner = i THEN After(call[i].pc)
                                 ELSE call[i].pc
<1>1. j \in 1..Len(writes) /\ writes[j] \in StorageCall
  OBVIOUS
<1>2. writes' = RemoveAt(writes, j)
  BY DEF WriteEnds
<1>3. /\ writes' \in Seq(StorageCall)
      /\ Len(writes') = Len(writes) - 1
      /\ \A i \in 1..(Len(writes) - 1) :
           writes'[i] = IF i < j THEN writes[i] ELSE writes[i + 1]
  BY <1>1, <1>2, RemoveAtFacts
<1>4. conn' = conn
  BY DEF WriteEnds
<1>5. call' = [i \in CallId |-> IF writes[j].owner = i
                    THEN [call[i] EXCEPT !.pc = After(call[i].pc)] ELSE call[i]]
  BY DEF WriteEnds
<1>7. \A pc : pc \in {"unused", "recording", "recorded", "acting", "confirming", "over"} =>
        After(pc) \in {"unused", "recording", "recorded", "acting", "confirming", "over"}
  BY DEF After
<1>8. ASSUME NEW i \in CallId
      PROVE  /\ call'[i] \in Progress
             /\ call'[i].by = call[i].by
             /\ call'[i].pc = IF writes[j].owner = i THEN After(call[i].pc)
                              ELSE call[i].pc
  BY <1>5, <1>7 DEF Linked, Progress
<1>9. Linked'
  BY <1>4, <1>5, <1>8 DEF Linked
<1>. QED BY <1>1, <1>3, <1>4, <1>8, <1>9

\* A call moves to pc, made by c.
LEMMA CallFacts ==
    ASSUME Linked, NEW i \in CallId, NEW pc \in {"recording", "acting", "confirming", "over"},
           NEW c \in Conn \cup {None}, call' = [call EXCEPT ![i] = [pc |-> pc, by |-> c]]
    PROVE  /\ call' \in [CallId -> Progress]
           /\ call'[i].pc = pc /\ call'[i].by = c
           /\ \A o \in CallId \ {i} : call'[o] = call[o]
BY DEF Linked, Progress

\* A connection is bound to another registry.
LEMMA ToolsFacts ==
    ASSUME Linked, NEW c \in Conn, NEW r \in Registry,
           conn' = [conn EXCEPT ![c].tools = r]
    PROVE  /\ conn' \in [Conn -> Link]
           /\ conn'[c].tools = r
           /\ conn'[c].st = conn[c].st /\ conn'[c].got = conn[c].got
           /\ conn'[c].resumed = conn[c].resumed /\ conn'[c].ended = conn[c].ended
           /\ conn'[c].stale = conn[c].stale /\ conn'[c].dump = conn[c].dump
           /\ \A d \in Conn \ {c} : conn'[d] = conn[d]
BY DEF Linked, Link

LEMMA GoneType ==
    /\ Gone \in Link /\ Gone.st = "gone" /\ Gone.tools = EmptyRegistry
    /\ Gone.got = None
BY EmptyOK DEF Gone, Link, RegistryOK

-----------------------------------------------------------------------------
(* The types. *)

\* Every registry and dictionary is one that the methods of the registry make.
Formed ==
    /\ \A c \in Conn : /\ RegistryOK(conn[c].tools)
                       /\ conn[c].got # None => DictOK(conn[c].got)
    /\ \A j \in 1..Len(writes) : writes[j].data # None => DictOK(writes[j].data)
    /\ store # None => DictOK(store)
    /\ \A i \in CallId : InProgress(i) => call[i].by \in Conn

LEMMA TypeLinked == TypeOK => Linked /\ writes \in Seq(StorageCall)
BY DEF TypeOK, Linked, Link, Progress, StorageCall

LEMMA InitType == Init => TypeOK /\ Formed
<1> SUFFICES ASSUME Init PROVE TypeOK /\ Formed
  OBVIOUS
<1>1. conn \in [Conn -> Link] /\ \A c \in Conn : RegistryOK(conn[c].tools) /\ conn[c].got = None
  BY GoneType, EmptyOK DEF Init
<1>2. call \in [CallId -> Progress] /\ \A i \in CallId : ~ InProgress(i)
  BY DEF Init, Progress, InProgress
<1>3. writes \in Seq(StorageCall) /\ Len(writes) = 0
  BY DEF Init
<1>. QED BY <1>1, <1>2, <1>3, BotAssumption
         DEF Init, TypeOK, Formed, Link, Progress, StorageCall

\* The registries that a tool call makes.
LEMMA CallTools ==
    ASSUME TypeOK, Formed, NEW i \in CallId, NEW c \in Conn
    PROVE  /\ RegistryOK(RegisterCall(conn[c].tools, KeyOf[i], i, "pending"))
           /\ RegistryOK(CompleteCall(conn[c].tools, i, CHOOSE res \in Result : TRUE))
<1>1. KeyOf[i] \in Key /\ i # None
  BY RegistryAssumption
<1>2. (CHOOSE res \in Result : TRUE) \in Result
  BY BotAssumption
<1>3. RegistryOK(conn[c].tools)
  BY DEF Formed
<1>. QED BY <1>1, <1>2, <1>3, RegisterOK, SettleOK DEF CompleteCall, Status, Name

\* A well-formed registry is stored as a well-formed dictionary.
LEMMA StoredType ==
    ASSUME NEW r, RegistryOK(r)
    PROVE  r \in Registry /\ ToDict(r) \in Dict /\ DictOK(ToDict(r)) /\ ToDict(r) # None
BY ToDictOK, BotAssumption DEF RegistryOK, DictOK

LEMMA WriteKeeps ==
    ASSUME TypeOK, Formed, NEW o \in CallId \cup {None}, NEW d \in Dict \cup {None},
           Write(o, d), d # None => DictOK(d)
    PROVE  /\ writes' \in Seq(StorageCall) /\ Len(writes') <= MaxWrites
           /\ \A j \in 1..Len(writes') : writes'[j].data # None => DictOK(writes'[j].data)
<1>1. /\ writes' \in Seq(StorageCall) /\ Len(writes') <= MaxWrites
      /\ Len(writes') = Len(writes) + 1 /\ Len(writes) \in Nat
      /\ \A j \in 1..Len(writes) : writes'[j] = writes[j]
      /\ writes'[Len(writes) + 1].data = d
  <2>1. writes \in Seq(StorageCall)
    BY TypeLinked
  <2>2. Len(writes) \in Nat
    BY <2>1
  <2>3. /\ writes' \in Seq(StorageCall)
        /\ Len(writes') = Len(writes) + 1 /\ Len(writes') <= MaxWrites
        /\ \A j \in 1..Len(writes) : writes'[j] = writes[j]
        /\ writes'[Len(writes) + 1].data = d
    BY <2>1, WriteFacts
  <2>. QED BY <2>2, <2>3
<1>2. ASSUME NEW j \in 1..Len(writes'), writes'[j].data # None
      PROVE  DictOK(writes'[j].data)
  <2>1. CASE j = Len(writes) + 1
    BY <1>1, <1>2, <2>1
  <2>2. CASE j # Len(writes) + 1
    <3>1. j \in 1..Len(writes)
      BY <1>1, <2>2
    <3>. QED BY <1>1, <1>2, <3>1 DEF Formed
  <2>. QED BY <2>1, <2>2
<1>. QED BY <1>1, <1>2

\* No accident is forgotten.
LEMMA AccidentsGrow ==
    ASSUME TypeOK, [Next]_vars
    PROVE  accidents \subseteq accidents' /\ accidents' \subseteq Accident
<1>1. accidents \subseteq Accident
  BY DEF TypeOK
<1>2. ASSUME NEW S \in SUBSET Accident, Happens(S)
      PROVE  accidents \subseteq accidents' /\ accidents' \subseteq Accident
  BY <1>1, <1>2 DEF Happens
<1>3. ASSUME UNCHANGED accidents
      PROVE  accidents \subseteq accidents' /\ accidents' \subseteq Accident
  BY <1>1, <1>3
<1>4. ASSUME NEW c \in Conn
      PROVE  Untimely(c) \in SUBSET Accident
  BY DEF Untimely
<1>5. ASSUME NEW j \in DOMAIN writes, NEW ok \in BOOLEAN, WriteEnds(j, ok)
      PROVE  \E S \in SUBSET Accident : Happens(S)
  BY <1>5 DEF WriteEnds
<1>6. ASSUME NEW c \in Conn, NEW ok \in BOOLEAN, Load(c, ok)
      PROVE  \E S \in SUBSET Accident : Happens(S)
  BY <1>6 DEF Load
<1>7. ASSUME NEW c \in Conn, EndCall(c)
      PROVE  \E S \in SUBSET Accident : Happens(S)
  BY <1>7 DEF EndCall
<1>8. ASSUME NEW c \in Conn, TurnEnded(c) \/ DumpLogs(c)
      PROVE  \E S \in SUBSET Accident : Happens(S)
  BY <1>4, <1>8 DEF TurnEnded, DumpLogs
<1>9. ASSUME NEW c \in Conn, NEW i \in CallId, CallTool(i, c)
      PROVE  UNCHANGED accidents \/ \E S \in SUBSET Accident : Happens(S)
  <2> DEFINE S == Untimely(c) \cup
                   {a \in Accident :
                       \/ a = "parallel" /\ \E j \in CallId : InProgress(j)
                       \/ a = "late" /\ conn[c].ended}
  <2>1. S \in SUBSET Accident
    BY <1>4
  <2>2. UNCHANGED accidents \/ Happens(S)
    BY <1>9 DEF CallTool
  <2>. QED BY <2>1, <2>2
<1>10. ASSUME NEW c \in Conn, Connect(c) \/ Resume(c) \/ RunEnds(c)
       PROVE  UNCHANGED accidents
  BY <1>10 DEF Connect, Resume, RunEnds
<1>11. ASSUME NEW i \in CallId, Act(i) \/ Finish(i)
       PROVE  UNCHANGED accidents
  BY <1>11 DEF Act, Finish
<1>12. Crash \/ UNCHANGED vars => UNCHANGED accidents
  BY DEF Crash, vars
<1>. QED BY <1>2, <1>3, <1>5, <1>6, <1>7, <1>8, <1>9, <1>10, <1>11, <1>12 DEF Next

LEMMA NextType ==
    ASSUME TypeOK, Formed, [Next]_vars
    PROVE  TypeOK' /\ Formed'
<1>a. /\ Linked /\ writes \in Seq(StorageCall) /\ Len(writes) <= MaxWrites
      /\ Len(writes) \in Nat
      /\ store \in Dict \cup {None} /\ effects \in [Key -> Nat]
      /\ accidents' \subseteq Accident
  BY TypeLinked, AccidentsGrow DEF TypeOK
<1>b. /\ \A c \in Conn : conn[c] \in Link
      /\ \A i \in CallId : call[i] \in Progress
  BY <1>a DEF Linked
<1>1. ASSUME Linked', writes' \in Seq(StorageCall), Len(writes') <= MaxWrites,
             store' \in Dict \cup {None}, effects' \in [Key -> Nat]
      PROVE  TypeOK'
  BY <1>a, <1>1 DEF TypeOK, Linked, Link, Progress, StorageCall
<1>2. ASSUME NEW c \in Conn, Linked', UNCHANGED <<call, writes, store, effects>>,
             RegistryOK(conn'[c].tools), conn'[c].got # None => DictOK(conn'[c].got),
             \A d \in Conn \ {c} : conn'[d] = conn[d]
      PROVE  TypeOK' /\ Formed'
  <2>1. TypeOK'
    BY <1>a, <1>1, <1>2
  <2>. QED BY <1>2, <2>1 DEF Formed, InProgress
<1>3. ASSUME NEW j \in DOMAIN writes, NEW ok \in BOOLEAN, WriteEnds(j, ok)
      PROVE  TypeOK' /\ Formed'
  <2>1. j \in 1..Len(writes) /\ writes[j] \in StorageCall
    BY <1>a
  <2>2. /\ store' = IF ok THEN writes[j].data ELSE store
        /\ effects' \in [Key -> Nat]
    BY <1>a, <1>3 DEF WriteEnds
  <2>3. store' \in Dict \cup {None} /\ (store' # None => DictOK(store'))
    BY <1>a, <2>1, <2>2 DEF Formed, StorageCall
  <2>4. TypeOK'
    <3>1. /\ Linked' /\ writes' \in Seq(StorageCall)
          /\ Len(writes') = Len(writes) - 1
      BY <1>a, <1>3, EndsFacts
    <3>2. Len(writes') <= MaxWrites
      BY <1>a, <3>1, BotAssumption
    <3>. QED BY <1>1, <2>2, <2>3, <3>1, <3>2
  <2>5. \A c \in Conn : /\ RegistryOK(conn'[c].tools)
                        /\ conn'[c].got # None => DictOK(conn'[c].got)
    BY <1>a, <1>3, EndsFacts DEF Formed
  <2>6. \A i \in 1..Len(writes') : writes'[i].data # None => DictOK(writes'[i].data)
    <3>1. /\ Len(writes') = Len(writes) - 1
          /\ \A i \in 1..(Len(writes) - 1) :
                writes'[i] = IF i < j THEN writes[i] ELSE writes[i + 1]
      BY <1>a, <1>3, EndsFacts
    <3>2. \A i \in 1..(Len(writes) - 1) : i \in 1..Len(writes) /\ i + 1 \in 1..Len(writes)
      BY <1>a
    <3>. QED BY <3>1, <3>2 DEF Formed
  <2>7. \A i \in CallId : InProgress(i)' => call'[i].by \in Conn
    <3>1. \A i \in CallId : InProgress(i)' => InProgress(i)
      BY <1>a, <1>3, EndsFacts DEF InProgress, After
    <3>2. \A i \in CallId : call'[i].by = call[i].by
      BY <1>a, <1>3, EndsFacts
    <3>. QED BY <3>1, <3>2 DEF Formed
  <2>. QED BY <2>3, <2>4, <2>5, <2>6, <2>7 DEF Formed
<1>4. ASSUME NEW c \in Conn, Connect(c)
      PROVE  TypeOK' /\ Formed'
  <2>1. conn' = [conn EXCEPT ![c] = [Gone EXCEPT !.st = "opened"]]
    BY <1>4 DEF Connect
  <2>2. /\ [Gone EXCEPT !.st = "opened"] \in Link
        /\ [Gone EXCEPT !.st = "opened"].tools = EmptyRegistry
        /\ [Gone EXCEPT !.st = "opened"].got = None
    BY GoneType DEF Link
  <2>3. Linked' /\ conn'[c].tools = EmptyRegistry /\ conn'[c].got = None
        /\ \A d \in Conn \ {c} : conn'[d] = conn[d]
    BY <1>a, <1>4, <2>1, <2>2 DEF Linked, Connect
  <2>. QED BY <1>a, <1>2, <1>4, <2>3, EmptyOK DEF Connect
<1>5. ASSUME NEW c \in Conn, NEW ok \in BOOLEAN, Load(c, ok)
      PROVE  TypeOK' /\ Formed'
  <2>1. /\ conn' \in [Conn -> Link]
        /\ \A d \in Conn : conn'[d].tools = conn[d].tools
        /\ \A d \in Conn : conn'[d].got \in {conn[d].got, store, None}
    <3>1. ASSUME NEW d \in Conn
          PROVE  /\ conn'[d] \in Link /\ conn'[d].tools = conn[d].tools
                 /\ conn'[d].got \in {conn[d].got, store, None}
      <4> DEFINE g == IF ok THEN store ELSE None
                 new == [conn[c] EXCEPT !.st = "loaded", !.stale = FALSE, !.got = g]
                 old == [conn[d] EXCEPT !.stale = TRUE]
      <4>1. conn'[d] = IF d = c THEN new
                       ELSE IF conn[d].st = "gone" THEN conn[d] ELSE old
        BY <1>5 DEF Load
      <4>2. new \in Link /\ new.tools = conn[c].tools /\ new.got = g
        BY <1>a, <1>b DEF Link
      <4>3. old \in Link /\ old.tools = conn[d].tools /\ old.got = conn[d].got
        BY <1>b DEF Link
      <4> HIDE DEF new, old
      <4>. QED BY <1>b, <4>1, <4>2, <4>3
    <3>2. conn' = [d \in Conn |-> conn'[d]]
      BY <1>5 DEF Load
    <3>3. conn' \in [Conn -> Link]
      BY <3>1, <3>2
    <3>. QED BY <3>1, <3>3
  <2>2. UNCHANGED <<call, writes, store, effects>>
    BY <1>5 DEF Load
  <2>3. TypeOK'
    BY <1>a, <1>1, <2>1, <2>2 DEF Linked
  <2>. QED BY <2>1, <2>2, <2>3 DEF Formed, InProgress
<1>6. ASSUME NEW c \in Conn, Resume(c)
      PROVE  TypeOK' /\ Formed'
  <2> DEFINE r == IF conn[c].got = None THEN EmptyRegistry ELSE LoadFromDict(conn[c].got)
             new == [conn[c] EXCEPT !.st = "ready", !.got = None,
                                    !.resumed = (conn[c].got # None), !.tools = r]
  <2>1. conn' = [conn EXCEPT ![c] = new]
    BY <1>6 DEF Resume
  <2>2. RegistryOK(r) /\ r \in Registry
    BY EmptyOK, LoadOK DEF Formed, RegistryOK
  <2>3. new \in Link /\ new.tools = r /\ new.got = None
    BY <1>b, <2>2 DEF Link
  <2>4. Linked' /\ conn'[c] = new /\ \A d \in Conn \ {c} : conn'[d] = conn[d]
    BY <1>a, <1>6, <2>1, <2>3 DEF Linked, Resume
  <2>5. /\ UNCHANGED <<call, writes, store, effects>>
        /\ RegistryOK(conn'[c].tools) /\ conn'[c].got = None
    BY <1>a, <1>6, <2>2, <2>3, <2>4 DEF Resume
  <2> HIDE DEF r, new
  <2>. QED BY <1>2, <2>4, <2>5
<1>7. ASSUME NEW c \in Conn, EndCall(c)
      PROVE  TypeOK' /\ Formed'
  <2> DEFINE new == [conn[c] EXCEPT !.ended = TRUE]
  <2>1. new \in Link /\ new.tools = conn[c].tools /\ new.got = conn[c].got
    BY <1>b DEF Link
  <2>2. Linked' /\ conn'[c] = new /\ \A d \in Conn \ {c} : conn'[d] = conn[d]
    BY <1>a, <1>7, <2>1 DEF Linked, EndCall
  <2>. QED BY <1>a, <1>2, <1>7, <2>1, <2>2 DEF EndCall, Formed
<1>8. ASSUME Linked', UNCHANGED store, effects' \in [Key -> Nat],
             \A d \in Conn : /\ RegistryOK(conn'[d].tools)
                             /\ conn'[d].got = conn[d].got,
             \A i \in CallId : InProgress(i)' => call'[i].by \in Conn,
             \/ writes' = writes
             \/ \E o \in CallId \cup {None}, d \in Dict \cup {None} :
                   Write(o, d) /\ (d # None => DictOK(d))
      PROVE  TypeOK' /\ Formed'
  <2>1. /\ writes' \in Seq(StorageCall) /\ Len(writes') <= MaxWrites
        /\ \A j \in 1..Len(writes') : writes'[j].data # None => DictOK(writes'[j].data)
    BY <1>a, <1>8, WriteKeeps DEF Formed
  <2>2. TypeOK'
    BY <1>a, <1>1, <1>8, <2>1
  <2>. QED BY <1>8, <2>1, <2>2 DEF Formed
<1>9. ASSUME NEW c \in Conn, TurnEnded(c)
      PROVE  TypeOK' /\ Formed'
  <2>1. Write(None, ToDict(conn[c].tools)) /\ UNCHANGED <<conn, call, store, effects>>
    BY <1>9 DEF TurnEnded
  <2>2. ToDict(conn[c].tools) \in Dict /\ DictOK(ToDict(conn[c].tools))
    BY StoredType DEF Formed
  <2>3. Linked' /\ \A i \in CallId : InProgress(i)' => call'[i].by \in Conn
    BY <1>a, <2>1 DEF Linked, Formed, InProgress
  <2>. QED BY <1>a, <1>8, <2>1, <2>2, <2>3 DEF Formed
<1>10. ASSUME NEW c \in Conn, DumpLogs(c)
       PROVE  TypeOK' /\ Formed'
  <2> DEFINE d == IF conn[c].ended THEN None ELSE ToDict(conn[c].tools)
             p == IF conn[c].ended THEN "cleared" ELSE "kept"
             new == [conn[c] EXCEPT !.dump = p]
  <2>1. Write(None, d) /\ UNCHANGED <<call, store, effects>>
        /\ conn' = [conn EXCEPT ![c] = new]
    BY <1>10 DEF DumpLogs
  <2>2. d \in Dict \cup {None} /\ (d # None => DictOK(d))
    BY StoredType DEF Formed
  <2>3. new \in Link /\ new.tools = conn[c].tools /\ new.got = conn[c].got
    BY <1>b DEF Link
  <2> HIDE DEF new
  <2>4. /\ Linked' /\ \A e \in Conn : conn'[e].tools = conn[e].tools /\ conn'[e].got = conn[e].got
        /\ \A i \in CallId : InProgress(i)' => call'[i].by \in Conn
    BY <1>a, <2>1, <2>3 DEF Linked, Formed, InProgress
  <2> HIDE DEF d
  <2>. QED BY <1>a, <1>8, <2>1, <2>2, <2>4 DEF Formed
<1>11. ASSUME NEW c \in Conn, NEW i \in CallId, CallTool(i, c)
       PROVE  TypeOK' /\ Formed'
  <2> DEFINE r == RegisterCall(conn[c].tools, KeyOf[i], i, "pending")
  <2>1. RegistryOK(r)
    BY CallTools
  <2>2. r \in Registry /\ ToDict(r) \in Dict /\ DictOK(ToDict(r))
    BY <2>1, StoredType
  <2>3. /\ UNCHANGED <<store, effects>>
        /\ \/ /\ call' = [call EXCEPT ![i] = [pc |-> "over", by |-> c]]
              /\ UNCHANGED <<conn, writes>>
           \/ /\ call' = [call EXCEPT ![i] = [pc |-> "recording", by |-> c]]
              /\ conn' = [conn EXCEPT ![c].tools = r]
              /\ Write(i, ToDict(r))
    BY <1>11 DEF CallTool
  <2> HIDE DEF r
  <2>4. /\ call' \in [CallId -> Progress]
        /\ \A o \in CallId : InProgress(o)' => call'[o].by \in Conn
    BY <1>a, <2>3, CallFacts DEF InProgress, Formed
  <2>5. /\ conn' \in [Conn -> Link]
        /\ \A d \in Conn : RegistryOK(conn'[d].tools) /\ conn'[d].got = conn[d].got
    BY <1>a, <2>1, <2>2, <2>3, ToolsFacts DEF Formed, Linked
  <2>. QED BY <1>a, <1>8, <2>2, <2>3, <2>4, <2>5 DEF Linked
<1>12. ASSUME NEW i \in CallId, Act(i)
       PROVE  TypeOK' /\ Formed'
  <2>1. /\ call' = [call EXCEPT ![i].pc = "acting"] /\ InProgress(i)
        /\ effects' = [effects EXCEPT ![KeyOf[i]] = @ + 1]
        /\ UNCHANGED <<conn, writes, store>>
    BY <1>12 DEF Act, InProgress
  <2>2. effects' \in [Key -> Nat]
    BY <1>a, <2>1, RegistryAssumption
  <2>3. /\ call' \in [CallId -> Progress]
        /\ \A o \in CallId : InProgress(o)' => call'[o].by \in Conn
    BY <1>a, <1>b, <2>1 DEF InProgress, Formed, Linked, Progress
  <2>. QED BY <1>a, <1>8, <2>1, <2>2, <2>3 DEF Linked, Formed
<1>13. ASSUME NEW i \in CallId, Finish(i)
       PROVE  TypeOK' /\ Formed'
  <2> DEFINE c == call[i].by
             r == CompleteCall(conn[c].tools, i, CHOOSE res \in Result : TRUE)
  <2>0. c \in Conn /\ InProgress(i)
    BY <1>13 DEF Finish, InProgress, Formed
  <2>1. RegistryOK(r)
    BY <2>0, CallTools
  <2>2. r \in Registry /\ ToDict(r) \in Dict /\ DictOK(ToDict(r))
    BY <2>1, StoredType
  <2>3. /\ UNCHANGED <<store, effects>>
        /\ call' = [call EXCEPT ![i].pc = "confirming"]
        /\ conn' = [conn EXCEPT ![c].tools = r]
        /\ Write(i, ToDict(r))
    BY <1>13 DEF Finish
  <2>4. /\ call' \in [CallId -> Progress]
        /\ \A o \in CallId : InProgress(o)' => call'[o].by \in Conn
    BY <1>a, <1>b, <2>0, <2>3 DEF InProgress, Formed, Linked, Progress
  <2> HIDE DEF c, r
  <2>5. /\ conn' \in [Conn -> Link]
        /\ \A d \in Conn : RegistryOK(conn'[d].tools) /\ conn'[d].got = conn[d].got
    BY <1>a, <2>0, <2>1, <2>2, <2>3, ToolsFacts DEF Formed, Linked
  <2>. QED BY <1>a, <1>8, <2>2, <2>3, <2>4, <2>5 DEF Linked
<1>14. CASE Crash
  <2>1. /\ conn' = [c \in Conn |-> Gone] /\ writes' = <<>>
        /\ call' = [i \in CallId |->
              IF InProgress(i) THEN [call[i] EXCEPT !.pc = "over"] ELSE call[i]]
        /\ UNCHANGED <<store, effects>>
    BY <1>14 DEF Crash
  <2>2. /\ call' \in [CallId -> Progress]
        /\ \A i \in CallId : ~ InProgress(i)'
    BY <1>b, <2>1 DEF InProgress, Progress
  <2>3. /\ conn' \in [Conn -> Link]
        /\ \A d \in Conn : RegistryOK(conn'[d].tools) /\ conn'[d].got = None
    BY <2>1, GoneType, EmptyOK
  <2>4. writes' \in Seq(StorageCall) /\ Len(writes') = 0
    BY <2>1
  <2>5. TypeOK'
    BY <1>a, <1>1, <2>1, <2>2, <2>3, <2>4, BotAssumption DEF Linked
  <2>. QED BY <2>1, <2>2, <2>3, <2>4, <2>5 DEF Formed
<1>15. ASSUME NEW c \in Conn, RunEnds(c)
       PROVE  TypeOK' /\ Formed'
  <2>1. UNCHANGED <<call, writes, store, effects>>
    BY <1>15 DEF RunEnds
  <2>2. /\ [conn[c] EXCEPT !.st = "gone"] \in Link
        /\ [conn[c] EXCEPT !.st = "gone"].tools = conn[c].tools
        /\ [conn[c] EXCEPT !.st = "gone"].got = conn[c].got
    BY <1>b DEF Link
  <2>3. conn' = [conn EXCEPT ![c] = IF Busy(c) THEN [conn[c] EXCEPT !.st = "gone"] ELSE Gone]
    BY <1>15 DEF RunEnds
  <2>4. /\ Linked' /\ \A d \in Conn \ {c} : conn'[d] = conn[d]
        /\ RegistryOK(conn'[c].tools) /\ (conn'[c].got # None => DictOK(conn'[c].got))
    BY <1>a, <2>1, <2>2, <2>3, GoneType, EmptyOK DEF Linked, Formed
  <2>. QED BY <1>2, <2>1, <2>4
<1>16. CASE UNCHANGED vars
  <2>1. UNCHANGED <<conn, call, writes, store, effects>>
    BY <1>16 DEF vars
  <2>2. Linked' /\ \A i \in CallId : InProgress(i)' => call'[i].by \in Conn
    BY <1>a, <2>1 DEF Linked, Formed, InProgress
  <2>. QED BY <1>a, <1>8, <2>1, <2>2 DEF Formed
<1>. QED BY <1>3, <1>4, <1>5, <1>6, <1>7, <1>9, <1>10, <1>11, <1>12, <1>13, <1>14, <1>15,
            <1>16 DEF Next

\* Every state is well typed, whatever goes wrong.
THEOREM BotTypeCorrect == Spec => []TypeOK
BY InitType, NextType, PTL DEF Spec

-----------------------------------------------------------------------------
(* What holds until the first accident, parallel tool calls set apart. *)

\* d records every request that b does.
Within(b, d) == \A k \in Key : b[k] # None => d[k] # None

\* The connection that has loaded the row last.
Holder(c) == conn[c].st \in {"loaded", "ready"} /\ ~ conn[c].stale

\* Connections whose registry still counts.
Serving(c) ==
    \/ conn[c].st = "ready" /\ ~ conn[c].stale /\ ~ Cleared(c)
    \/ Busy(c)

\* One connection holds the session, and every tool call goes on for it; its own
\* pipeline may have ended meanwhile.
Alone ==
    /\ \A c, d \in Conn : Holder(c) /\ Holder(d) => c = d
    /\ \A i, j \in CallId : InProgress(i) /\ InProgress(j) => call[i].by = call[j].by
    /\ \A i \in CallId, c \in Conn : InProgress(i) /\ Holder(c) => c = call[i].by

\* A tool call works on a registry that knows it, before end_call.
Working ==
    \A i \in CallId : InProgress(i) =>
        /\ conn[call[i].by].st \notin {"opened", "loaded"}
        /\ ~ conn[call[i].by].stale
        /\ ~ conn[call[i].by].ended
        /\ conn[call[i].by].tools.index[i] = KeyOf[i]

\* Between its load and its return, resume_or_start has the session for itself.
Fresh ==
    \A c \in Conn : conn[c].st = "loaded" /\ ~ conn[c].stale =>
        /\ writes = <<>>
        /\ \A i \in CallId : ~ InProgress(i)
        /\ conn[c].got = store

\* Who waits for a storage call, and that a deletion is the last of them.
Proper(j) ==
    /\ writes[j].owner \in CallId =>
          /\ call[writes[j].owner].pc \in {"recording", "confirming"}
          /\ writes[j].data # None
          /\ writes[j].data[KeyOf[writes[j].owner]] # None
    /\ writes[j].data = None =>
          /\ j = Len(writes)
          /\ \A i \in CallId : ~ InProgress(i)
          /\ \A c \in Conn : ~ Serving(c)

Owned ==
    /\ \A j \in 1..Len(writes) : Proper(j)
    /\ \A j, m \in 1..Len(writes) :
          writes[j].owner = writes[m].owner /\ writes[j].owner # None => j = m

\* Of the checkpoints in flight a later one knows more, the registry most.
Growing ==
    /\ \A j, m \in 1..Len(writes) :
          j < m /\ writes[j].data # None /\ writes[m].data # None =>
              Within(writes[j].data, writes[m].data)
    /\ \A j \in 1..Len(writes), c \in Conn :
          Serving(c) /\ writes[j].data # None =>
              Within(writes[j].data, conn[c].tools.records)

\* Nothing in this host fails a call.
Unfailed(d) == \A k \in Key : d[k] # None => d[k].status # "failed"

NoneFailed ==
    /\ \A c \in Conn : /\ Unfailed(conn[c].tools.records)
                       /\ conn[c].got # None => Unfailed(conn[c].got)
    /\ \A j \in 1..Len(writes) : writes[j].data # None => Unfailed(writes[j].data)
    /\ store # None => Unfailed(store)

\* On a connection that resumed nothing, a pending request is being worked on.
Untold ==
    \A c \in Conn, k \in Key :
        /\ conn[c].st = "ready" /\ ~ conn[c].stale /\ ~ conn[c].resumed
        /\ conn[c].tools.records[k] # None
        /\ conn[c].tools.records[k].status = "pending"
        => \E i \in CallId : /\ KeyOf[i] = k
                             /\ call[i].pc \in {"recording", "recorded", "acting"}

Orderly == Alone /\ Working /\ Fresh /\ Owned /\ Growing /\ NoneFailed /\ Untold

\* d knows every request that took effect, and as completed only such ones.
Faithful(d) ==
    \A k \in Key : /\ effects[k] > 0 => d[k] # None
                   /\ d[k] # None => (d[k].status = "completed" => effects[k] > 0)

Kept ==
    /\ store = None => \A k \in Key : effects[k] = 0
    /\ store # None => Faithful(store)
    /\ \A j \in 1..Len(writes) : writes[j].data # None => Faithful(writes[j].data)

Held == \A c \in Conn : Serving(c) => Faithful(conn[c].tools.records)

\* How far a call is and what has happened.
Timed ==
    \A i \in CallId :
        /\ call[i].pc \in {"acting", "confirming"} => effects[KeyOf[i]] > 0
        /\ call[i].pc = "recorded" =>
              /\ store # None /\ store[KeyOf[i]] # None
              /\ \A j \in 1..Len(writes) :
                    writes[j].data # None => writes[j].data[KeyOf[i]] # None

Remembered == Kept /\ Held /\ Timed

\* While no tool calls go on in parallel either, a call under way is the only one,
\* and the first for its request to take effect.
Single ==
    /\ \A i, j \in CallId : InProgress(i) /\ InProgress(j) => i = j
    /\ \A i \in CallId :
          call[i].pc \in {"recording", "recorded"} => effects[KeyOf[i]] = 0
    /\ \A k \in Key : effects[k] <= 1

Inv ==
    /\ TypeOK /\ Formed
    /\ Smooth => Orderly /\ Remembered
    /\ accidents = {} => Single

-----------------------------------------------------------------------------
(* Facts of these invariants. *)

LEMMA Appended ==
    ASSUME TypeOK, NEW o \in CallId \cup {None}, NEW d \in Dict \cup {None},
           Write(o, d)
    PROVE  /\ Len(writes) \in Nat /\ Len(writes') = Len(writes) + 1
           /\ \A j \in 1..Len(writes') :
                \/ j \in 1..Len(writes) /\ writes'[j] = writes[j]
                \/ j = Len(writes) + 1 /\ writes'[j].owner = o /\ writes'[j].data = d
<1>1. writes \in Seq(StorageCall)
  BY TypeLinked
<1>2. Len(writes) \in Nat
  BY <1>1
<1>3. /\ Len(writes') = Len(writes) + 1
      /\ \A j \in 1..Len(writes) : writes'[j] = writes[j]
      /\ writes'[Len(writes) + 1].owner = o /\ writes'[Len(writes) + 1].data = d
  BY <1>1, WriteFacts
<1>. QED BY <1>2, <1>3

\* What is smooth after a step was so before it.
LEMMA Peaceful ==
    ASSUME TypeOK, [Next]_vars
    PROVE  (Smooth' => Smooth) /\ (accidents' = {} => accidents = {})
BY AccidentsGrow DEF Smooth

LEMMA Removed ==
    ASSUME TypeOK, Smooth', NEW j \in DOMAIN writes, NEW ok \in BOOLEAN,
           WriteEnds(j, ok)
    PROVE  /\ ok /\ j = 1 /\ Len(writes) \in Nat \ {0} /\ Len(writes') = Len(writes) - 1
           /\ \A m \in 1..Len(writes') :
                m + 1 \in 2..Len(writes) /\ writes'[m] = writes[m + 1]
<1>1. Linked /\ writes \in Seq(StorageCall)
  BY TypeLinked
<1>2. Len(writes) \in Nat /\ j \in 1..Len(writes)
  BY <1>1
<1>3. ok /\ j = 1
  BY DEF WriteEnds, Happens, Smooth, Accident
<1>4. /\ Len(writes') = Len(writes) - 1
      /\ \A m \in 1..(Len(writes) - 1) :
            writes'[m] = IF m < j THEN writes[m] ELSE writes[m + 1]
  BY <1>1, EndsFacts
<1>. QED BY <1>2, <1>3, <1>4

\* One registry counts.
LEMMA ServesAlone ==
    ASSUME Inv, Smooth, NEW c \in Conn, NEW e \in Conn, Serving(c), Serving(e)
    PROVE  c = e
<1>1. Alone
  BY DEF Inv, Orderly
<1>2. ASSUME NEW d \in Conn, Serving(d)
      PROVE  Holder(d) \/ Busy(d)
  BY <1>2 DEF Serving, Holder
<1>3. (Holder(c) \/ Busy(c)) /\ (Holder(e) \/ Busy(e))
  BY <1>2
<1>. QED BY <1>1, <1>3 DEF Alone, Busy

\* Where something goes on, no deletion is in flight.
LEMMA NoDeletion ==
    ASSUME Inv, Smooth, \/ \E c \in Conn : Serving(c)
                        \/ \E i \in CallId : InProgress(i)
    PROVE  \A j \in 1..Len(writes) : writes[j].data # None
BY DEF Inv, Orderly, Owned, Proper

\* The registry of a call in progress holds its record.
LEMMA CallRecorded ==
    ASSUME Inv, Smooth, NEW i \in CallId, InProgress(i)
    PROVE  /\ call[i].by \in Conn
           /\ conn[call[i].by].tools.records[KeyOf[i]] # None
<1>1. call[i].by \in Conn /\ RegistryOK(conn[call[i].by].tools)
  BY DEF Inv, Formed
<1>2. KeyOf[i] \in Key /\ i \in Name /\ i \notin Key /\ KeyOf[i] # None
  BY RegistryAssumption DEF Name
<1>. QED BY <1>1, <1>2 DEF Inv, Orderly, Working, RegistryOK, IndexLeadsHome, Home, Recorded

\* What the host's calls do to the records of a registry.
LEMMA Registered ==
    ASSUME NEW r, RegistryOK(r), NEW i \in CallId
    PROVE  LET q == RegisterCall(r, KeyOf[i], i, "pending") IN
           /\ q.index[i] = KeyOf[i]
           /\ \A j \in CallId \ {i} : q.index[j] = r.index[j]
           /\ \A k \in Key \ {KeyOf[i]} : q.records[k] = r.records[k]
           /\ q.records[KeyOf[i]] # None
           /\ q.records[KeyOf[i]].status = IF r.records[KeyOf[i]] = None THEN "pending"
                                           ELSE r.records[KeyOf[i]].status
<1> DEFINE k == KeyOf[i]
           q == RegisterCall(r, k, i, "pending")
           new == IF r.records[k] = None THEN NewRecord(k, i, "pending")
                  ELSE NoteCall(r.records[k], i)
<1>1. k \in Key /\ i \in Name /\ i # None
  BY RegistryAssumption DEF Name
<1>2. r.records \in [Key -> Record \cup {None}] /\ r.index \in [Name -> Key \cup {None}]
  BY DEF RegistryOK, Registry
<1>3. /\ q.records = [r.records EXCEPT ![k] = new]
      /\ q.index = [r.index EXCEPT ![i] = k]
  BY <1>1, <1>2 DEF RegisterCall
<1>4. new \in Record /\ new.status = IF r.records[k] = None THEN "pending"
                                     ELSE r.records[k].status
  <2>1. CASE r.records[k] = None
    BY <1>1, <2>1 DEF NewRecord, Record, Status
  <2>2. CASE r.records[k] # None
    <3>1. r.records[k] \in Record
      BY <1>1, <1>2, <2>2
    <3>. QED BY <1>1, <2>2, <3>1 DEF NoteCall, Record
  <2>. QED BY <2>1, <2>2
<1> HIDE DEF new
<1>5. new # None
  BY <1>4, RecordFields
<1>6. /\ q.records[k] = new /\ q.index[i] = k
      /\ \A j \in CallId \ {i} : q.index[j] = r.index[j]
      /\ \A j \in Key \ {k} : q.records[j] = r.records[j]
  BY <1>1, <1>2, <1>3 DEF Name
<1>. QED BY <1>4, <1>5, <1>6

LEMMA Completed ==
    ASSUME NEW r, RegistryOK(r), NEW i \in CallId, r.index[i] = KeyOf[i],
           NEW res \in Result
    PROVE  LET q == CompleteCall(r, i, res) IN
           /\ \A k \in Key \ {KeyOf[i]} : q.records[k] = r.records[k]
           /\ q.records[KeyOf[i]] # None
           /\ q.records[KeyOf[i]].status = "completed"
           /\ q.index = r.index
<1> DEFINE k == KeyOf[i]
           q == CompleteCall(r, i, res)
           new == [r.records[k] EXCEPT !.status = "completed", !.result = res]
<1>1. k \in Key /\ i \in Name /\ i \notin Key /\ k # None
  BY RegistryAssumption DEF Name
<1>2. r.records \in [Key -> Record \cup {None}] /\ r.records[k] # None
  BY <1>1 DEF RegistryOK, Registry, IndexLeadsHome, Home, Recorded
<1>3. r.records[k] \in Record
  BY <1>1, <1>2
<1>4. Resolve(r, i) = k
  BY <1>1 DEF Resolve
<1>5. q = [r EXCEPT !.records[k] = new]
  BY <1>1, <1>2, <1>4 DEF CompleteCall, Settle
<1>6. q.records = [r.records EXCEPT ![k] = new] /\ q.index = r.index
  BY <1>5 DEF RegistryOK, Registry
<1>7. new \in Record /\ new.status = "completed"
  BY <1>3 DEF Record, Status
<1> HIDE DEF new
<1>8. new # None
  BY <1>7, RecordFields
<1>. QED BY <1>1, <1>2, <1>6, <1>7, <1>8

LEMMA Checked ==
    ASSUME NEW r, RegistryOK(r), NEW i \in CallId
    PROVE  Check(r, KeyOf[i], i) = r.records[KeyOf[i]]
<1>1. i \in Name /\ i \notin Key /\ i # None
  BY RegistryAssumption DEF Name
<1>. QED BY <1>1 DEF RegistryOK, IndexLeadsHome, Home, Recorded, Check

\* What a stored row makes a resumed connection believe.
LEMMA Resumed ==
    ASSUME NEW d, DictOK(d)
    PROVE  \A k \in Key :
              /\ LoadFromDict(d).records[k] # None <=> d[k] # None
              /\ d[k] # None => LoadFromDict(d).records[k].status = d[k].status
BY LoadFacts DEF LoadedFrom

LEMMA StoredSame ==
    ASSUME NEW r, RegistryOK(r)
    PROVE  ToDict(r) \in Dict /\ ToDict(r) # None /\ \A k \in Key : ToDict(r)[k] = r.records[k]
BY StoredType, ToDictOK

-----------------------------------------------------------------------------
(* The queue of storage calls, when connection c makes one more. *)

LEMMA AppendKeeps ==
    ASSUME Inv, Smooth, NEW o \in CallId \cup {None}, NEW d \in Dict \cup {None},
           Write(o, d), NEW c \in Conn, Serving(c),
           \A j \in 1..Len(writes) : /\ writes[j].data # None
                                     /\ o # None => writes[j].owner # o,
           \A i \in CallId : i # o => call'[i].pc = call[i].pc,
           \A e \in Conn : Serving(e)' => e = c,
           o \in CallId => /\ call'[o].pc \in {"recording", "confirming"}
                           /\ d # None /\ d[KeyOf[o]] # None,
           d = None => /\ \A i \in CallId : ~ InProgress(i)'
                       /\ \A e \in Conn : ~ Serving(e)',
           d # None => \A k \in Key : d[k] = conn'[c].tools.records[k],
           Within(conn[c].tools.records, conn'[c].tools.records),
           Unfailed(conn'[c].tools.records)
    PROVE  /\ Owned' /\ Growing'
           /\ \A j \in 1..Len(writes') : writes'[j].data # None => Unfailed(writes'[j].data)
<1>1. /\ Len(writes) \in Nat /\ Len(writes') = Len(writes) + 1
      /\ \A j \in 1..Len(writes') :
            \/ j \in 1..Len(writes) /\ writes'[j] = writes[j]
            \/ j = Len(writes) + 1 /\ writes'[j].owner = o /\ writes'[j].data = d
  BY Appended DEF Inv
<1>2. /\ \A j \in 1..Len(writes) : Proper(j)
      /\ \A j, m \in 1..Len(writes) :
            writes[j].owner = writes[m].owner /\ writes[j].owner # None => j = m
      /\ \A j, m \in 1..Len(writes) : j < m => Within(writes[j].data, writes[m].data)
      /\ \A j \in 1..Len(writes) : Within(writes[j].data, conn[c].tools.records)
      /\ \A j \in 1..Len(writes) : Unfailed(writes[j].data)
  BY DEF Inv, Orderly, Owned, Growing, NoneFailed
<1>3. None \notin CallId
  BY RegistryAssumption
<1>4. ASSUME NEW j \in 1..Len(writes')
      PROVE  Proper(j)'
  <2>1. CASE j \in 1..Len(writes) /\ writes'[j] = writes[j]
    <3>1. Proper(j) /\ writes[j].data # None
      BY <1>2, <2>1
    <3>2. writes[j].owner \in CallId => writes[j].owner # o
      BY <1>3, <2>1
    <3>. QED BY <2>1, <3>1, <3>2 DEF Proper
  <2>2. CASE j = Len(writes) + 1 /\ writes'[j].owner = o /\ writes'[j].data = d
    BY <1>1, <2>2 DEF Proper
  <2>. QED BY <1>1, <2>1, <2>2
<1>5. \A j, m \in 1..Len(writes') :
         writes'[j].owner = writes'[m].owner /\ writes'[j].owner # None => j = m
  BY <1>1, <1>2
<1>6. \A j \in 1..Len(writes) : Within(writes[j].data, conn'[c].tools.records)
  BY <1>2 DEF Within
<1>7. ASSUME NEW j \in 1..Len(writes'), NEW m \in 1..Len(writes'), j < m,
             writes'[j].data # None, writes'[m].data # None
      PROVE  Within(writes'[j].data, writes'[m].data)
  <2>1. j \in 1..Len(writes) /\ writes'[j] = writes[j]
    BY <1>1, <1>7
  <2>2. CASE m \in 1..Len(writes) /\ writes'[m] = writes[m]
    BY <1>2, <1>7, <2>1, <2>2
  <2>3. CASE m = Len(writes) + 1 /\ writes'[m].data = d
    BY <1>6, <1>7, <2>1, <2>3 DEF Within
  <2>. QED BY <1>1, <2>2, <2>3
<1>8. ASSUME NEW j \in 1..Len(writes'), writes'[j].data # None
      PROVE  /\ Within(writes'[j].data, conn'[c].tools.records)
             /\ Unfailed(writes'[j].data)
  <2>1. CASE j \in 1..Len(writes) /\ writes'[j] = writes[j]
    BY <1>2, <1>6, <2>1
  <2>2. CASE j = Len(writes) + 1 /\ writes'[j].data = d
    BY <1>8, <2>2 DEF Within, Unfailed
  <2>. QED BY <1>1, <2>1, <2>2
<1>9. Owned'
  BY <1>4, <1>5 DEF Owned
<1>10. Growing'
  BY <1>7, <1>8 DEF Growing
<1>. QED BY <1>8, <1>9, <1>10

\* ... and what is remembered, as nothing outside happens meanwhile.
LEMMA AppendRemembers ==
    ASSUME Inv, Remembered, NEW o \in CallId \cup {None},
           NEW d \in Dict \cup {None}, Write(o, d), NEW c \in Conn,
           UNCHANGED <<store, effects>>,
           \A e \in Conn : Serving(e)' => e = c,
           Faithful(conn'[c].tools.records),
           d # None => \A k \in Key : d[k] = conn'[c].tools.records[k],
           \A i \in CallId : \/ call'[i].pc = call[i].pc
                             \/ call'[i].pc = "recording"
                             \/ call'[i].pc = "confirming" /\ effects[KeyOf[i]] > 0
                             \/ call'[i].pc = "over",
           \A i \in CallId : call'[i].pc = "recorded" =>
                conn'[c].tools.records[KeyOf[i]] # None
    PROVE  Remembered'
<1>1. /\ Len(writes) \in Nat /\ Len(writes') = Len(writes) + 1
      /\ \A j \in 1..Len(writes') :
            \/ j \in 1..Len(writes) /\ writes'[j] = writes[j]
            \/ j = Len(writes) + 1 /\ writes'[j].owner = o /\ writes'[j].data = d
  BY Appended DEF Inv
<1>2. ASSUME NEW b, Faithful(b)
      PROVE  Faithful(b)'
  BY <1>2 DEF Faithful
<1>3. d # None => Faithful(d)
  BY DEF Faithful
<1>4. Kept'
  BY <1>1, <1>3 DEF Remembered, Kept, Faithful
<1>5. Held'
  BY DEF Held, Faithful
<1>6. Timed'
  <2> SUFFICES ASSUME NEW i \in CallId
               PROVE  /\ call'[i].pc \in {"acting", "confirming"} => effects'[KeyOf[i]] > 0
                      /\ call'[i].pc = "recorded" =>
                            /\ store' # None /\ store'[KeyOf[i]] # None
                            /\ \A j \in 1..Len(writes') : writes'[j].data # None =>
                                  writes'[j].data[KeyOf[i]] # None
    BY DEF Timed
  <2>1. call'[i].pc \in {"acting", "confirming"} => effects'[KeyOf[i]] > 0
    BY DEF Remembered, Timed
  <2>2. ASSUME call'[i].pc = "recorded"
        PROVE  /\ store' # None /\ store'[KeyOf[i]] # None
               /\ \A j \in 1..Len(writes') : writes'[j].data # None =>
                     writes'[j].data[KeyOf[i]] # None
    <3>1. call[i].pc = "recorded"
      BY <2>2
    <3>2. /\ store # None /\ store[KeyOf[i]] # None
          /\ \A j \in 1..Len(writes) :
                writes[j].data # None => writes[j].data[KeyOf[i]] # None
      BY <3>1 DEF Remembered, Timed
    <3>3. KeyOf[i] \in Key
      BY RegistryAssumption
    <3>4. d # None => d[KeyOf[i]] # None
      BY <2>2, <3>3
    <3>. QED BY <1>1, <3>2, <3>4
  <2>. QED BY <2>1, <2>2
<1>. QED BY <1>4, <1>5, <1>6 DEF Remembered

-----------------------------------------------------------------------------
(* Every smooth step keeps what is orderly and remembered, one lemma per     *)
(* action.                                                                   *)

Calm == Inv /\ Smooth /\ Smooth'

Keeps == Orderly' /\ Remembered'

\* A storage call that is no accident is made by the connection that serves.
LEMMA Timely ==
    ASSUME Smooth', NEW c \in Conn, NEW S, Happens(Untimely(c) \cup S)
    PROVE  conn[c].st = "ready" /\ ~ conn[c].stale /\ ~ Cleared(c) /\ Serving(c)
<1>1. \A a \in {"early", "overlap", "late"} : a \notin Untimely(c)
  BY DEF Happens, Smooth
<1>. QED BY <1>1 DEF Untimely, Accident, Serving

\* Faithfulness depends on nothing but what has taken effect.
LEMMA SameEffects ==
    ASSUME effects' = effects
    PROVE  \A b : Faithful(b)' <=> Faithful(b)
BY DEF Faithful

LEMMA ConnectKeeps ==
    ASSUME Calm, NEW c \in Conn, Connect(c)
    PROVE  Keeps
<1>1. /\ conn[c].st = "gone" /\ ~ Busy(c)
      /\ UNCHANGED <<call, writes, store, effects>>
      /\ conn' = [conn EXCEPT ![c] = [Gone EXCEPT !.st = "opened"]]
  BY DEF Connect
<1>2. /\ conn'[c].st = "opened" /\ conn'[c].tools = EmptyRegistry /\ conn'[c].got = None
      /\ \A d \in Conn \ {c} : conn'[d] = conn[d]
  BY <1>1 DEF Calm, Inv, TypeOK, Gone
<1>3. /\ \A i \in CallId : InProgress(i)' <=> InProgress(i)
      /\ \A i \in CallId : InProgress(i) => call[i].by # c
      /\ \A d \in Conn : Serving(d)' => Serving(d) /\ d # c
      /\ \A d \in Conn : Holder(d)' => Holder(d) /\ d # c
  BY <1>1, <1>2 DEF InProgress, Serving, Busy, Holder, Cleared
<1>. USE DEF Calm, Inv, Orderly
<1>4. Alone'
  BY <1>1, <1>3 DEF Alone
<1>5. Working'
  BY <1>1, <1>2, <1>3 DEF Working, Formed
<1>6. Fresh'
  BY <1>1, <1>2, <1>3 DEF Fresh
<1>7. Owned'
  BY <1>1, <1>3 DEF Owned, Proper
<1>8. Growing'
  BY <1>1, <1>2, <1>3 DEF Growing
<1>9. NoneFailed'
  <2>1. Unfailed(conn'[c].tools.records)
    BY <1>2 DEF Unfailed, EmptyRegistry
  <2>. QED BY <1>1, <1>2, <2>1 DEF NoneFailed
<1>10. Untold'
  BY <1>1, <1>2 DEF Untold
<1>11. Kept' /\ Timed'
  BY <1>1 DEF Remembered, Kept, Timed, Faithful
<1>12. Held'
  BY <1>1, <1>2, <1>3, SameEffects DEF Remembered, Held
<1>. QED BY <1>4, <1>5, <1>6, <1>7, <1>8, <1>9, <1>10, <1>11, <1>12 DEF Keeps, Remembered

LEMMA LoadKeeps ==
    ASSUME Calm, NEW c \in Conn, NEW ok \in BOOLEAN, Load(c, ok)
    PROVE  Keeps
<1>1. /\ conn[c].st = "opened" /\ ok /\ writes = <<>>
      /\ \A i \in CallId : ~ InProgress(i)
      /\ UNCHANGED <<call, writes, store, effects>>
  BY DEF Load, Happens, Calm, Smooth, Accident
<1>2. /\ conn'[c].st = "loaded" /\ conn'[c].tools = conn[c].tools /\ conn'[c].got = store
      /\ ~ conn'[c].stale
  BY <1>1 DEF Load, Calm, Inv, TypeOK
<1>3. \A d \in Conn \ {c} :
         /\ conn'[d].st = conn[d].st /\ conn'[d].tools = conn[d].tools
         /\ conn'[d].got = conn[d].got
         /\ conn[d].st = "gone" \/ conn'[d].stale
  BY DEF Load, Calm, Inv, TypeOK
<1>4. /\ \A i \in CallId : ~ InProgress(i)'
      /\ \A d \in Conn : ~ Serving(d)'
      /\ Len(writes') = 0 /\ writes' = <<>>
      /\ \A d \in Conn : Holder(d)' => d = c
  BY <1>1, <1>2, <1>3 DEF InProgress, Serving, Holder, Busy, Cleared
<1>5. Alone' /\ Working' /\ Owned' /\ Growing'
  BY <1>4 DEF Alone, Working, Owned, Growing
<1>6. Fresh'
  BY <1>1, <1>2, <1>4 DEF Fresh, Holder
<1>7. NoneFailed'
  BY <1>1, <1>2, <1>3 DEF Calm, Inv, Orderly, NoneFailed
<1>8. Untold'
  BY <1>2, <1>4 DEF Untold, Holder
<1>9. Kept'
  BY <1>1 DEF Calm, Inv, Remembered, Kept, Faithful
<1>10. Held' /\ Timed'
  BY <1>4 DEF Held, Timed, InProgress
<1>. QED BY <1>5, <1>6, <1>7, <1>8, <1>9, <1>10 DEF Keeps, Orderly, Remembered

LEMMA ResumeKeeps ==
    ASSUME Calm, NEW c \in Conn, Resume(c)
    PROVE  Keeps
<1> DEFINE r == IF conn[c].got = None THEN EmptyRegistry ELSE LoadFromDict(conn[c].got)
<1>1. /\ conn[c].st = "loaded"
      /\ UNCHANGED <<call, writes, store, effects>>
      /\ conn' = [conn EXCEPT ![c] = [conn[c] EXCEPT !.st = "ready", !.got = None,
                        !.resumed = (conn[c].got # None), !.tools = r]]
  BY DEF Resume
<1>2. /\ conn'[c].st = "ready" /\ conn'[c].got = None
      /\ conn'[c].resumed = (conn[c].got # None) /\ conn'[c].tools = r
      /\ conn'[c].stale = conn[c].stale
      /\ \A d \in Conn \ {c} : conn'[d] = conn[d]
  BY <1>1 DEF Calm, Inv, TypeOK
<1>3. /\ conn[c].got = None => \A k \in Key : r.records[k] = None
      /\ conn[c].got # None => \A k \in Key :
            /\ r.records[k] # None <=> conn[c].got[k] # None
            /\ conn[c].got[k] # None => r.records[k].status = conn[c].got[k].status
  BY Resumed DEF Calm, Inv, Formed, EmptyRegistry
<1> HIDE DEF r
<1>. USE DEF Calm, Inv, Orderly
<1>4. /\ \A i \in CallId : InProgress(i)' <=> InProgress(i)
      /\ \A i \in CallId : InProgress(i) => call[i].by # c
      /\ \A d \in Conn : Holder(d)' <=> Holder(d)
      /\ \A d \in Conn \ {c} : Serving(d)' => Serving(d)
      /\ Serving(c)' => Holder(c)
  <2>1. \A i \in CallId : InProgress(i)' <=> InProgress(i)
    BY <1>1 DEF InProgress
  <2>2. \A i \in CallId : InProgress(i) => call[i].by # c
    BY <1>1 DEF Working
  <2>3. \A d \in Conn : Holder(d)' <=> Holder(d)
    BY <1>1, <1>2 DEF Holder
  <2>4. \A d \in Conn \ {c} : Serving(d)' => Serving(d)
    BY <1>1, <1>2, <2>1 DEF Serving, Busy, Cleared
  <2>5. Serving(c)' => Holder(c)
    BY <1>1, <1>2, <2>1, <2>2 DEF Serving, Busy, Holder
  <2>. QED BY <2>1, <2>2, <2>3, <2>4, <2>5
<1>5. Holder(c) => writes = <<>> /\ Len(writes) = 0 /\ conn[c].got = store
  BY <1>1 DEF Fresh, Holder
<1>6. Alone'
  BY <1>1, <1>4 DEF Alone
<1>7. Working'
  BY <1>1, <1>2, <1>4 DEF Working, Formed
<1>8. Fresh'
  BY <1>1, <1>2, <1>4 DEF Fresh
<1>9. Owned'
  <2>1. ASSUME NEW j \in 1..Len(writes)
        PROVE  Proper(j)'
    <3>1. Proper(j) /\ ~ Holder(c)
      BY <1>5 DEF Owned
    <3>. QED BY <1>1, <1>4, <3>1 DEF Proper
  <2>. QED BY <1>1, <2>1 DEF Owned
<1>10. Growing'
  BY <1>1, <1>2, <1>4, <1>5 DEF Growing
<1>11. NoneFailed'
  <2>1. Unfailed(r.records)
    BY <1>3 DEF NoneFailed, Unfailed
  <2>. QED BY <1>1, <1>2, <2>1 DEF NoneFailed
<1>12. Untold'
  <2>1. ASSUME NEW k \in Key, ~ conn'[c].resumed
        PROVE  conn'[c].tools.records[k] = None
    BY <1>2, <1>3, <2>1
  <2>2. \A d \in Conn \ {c} : conn'[d] = conn[d] /\ call' = call
    BY <1>1, <1>2
  <2>. QED BY <2>1, <2>2 DEF Untold
<1>13. Kept' /\ Timed'
  BY <1>1 DEF Remembered, Kept, Timed, Faithful
<1>14. Holder(c) => Faithful(r.records)
  <2> SUFFICES ASSUME Holder(c), NEW k \in Key
               PROVE  /\ effects[k] > 0 => r.records[k] # None
                      /\ r.records[k] # None =>
                            (r.records[k].status = "completed" => effects[k] > 0)
    BY DEF Faithful
  <2>1. Kept /\ conn[c].got = store
    BY <1>5 DEF Remembered
  <2>2. CASE store = None
    <3>1. effects[k] = 0 /\ r.records[k] = None
      BY <1>3, <2>1, <2>2 DEF Kept
    <3>. QED BY <3>1
  <2>3. CASE store # None
    <3>1. /\ effects[k] > 0 => store[k] # None
          /\ store[k] # None => (store[k].status = "completed" => effects[k] > 0)
      BY <2>1, <2>3 DEF Kept, Faithful
    <3>2. /\ r.records[k] # None <=> store[k] # None
          /\ store[k] # None => r.records[k].status = store[k].status
      BY <1>3, <2>1, <2>3
    <3>. QED BY <3>1, <3>2
  <2>. QED BY <2>2, <2>3
<1>15. Held'
  BY <1>1, <1>2, <1>4, <1>14, SameEffects DEF Remembered, Held
<1>. QED BY <1>6, <1>7, <1>8, <1>9, <1>10, <1>11, <1>12, <1>13, <1>15 DEF Keeps, Remembered

LEMMA EndCallKeeps ==
    ASSUME Calm, NEW c \in Conn, EndCall(c)
    PROVE  Keeps
<1>1. /\ ~ Busy(c)
      /\ UNCHANGED <<call, writes, store, effects>>
      /\ conn' = [conn EXCEPT ![c] = [conn[c] EXCEPT !.ended = TRUE]]
  BY DEF EndCall, Calm, Smooth, Happens, Accident
<1>2. /\ \A d \in Conn : /\ conn'[d].st = conn[d].st /\ conn'[d].tools = conn[d].tools
                         /\ conn'[d].got = conn[d].got /\ conn'[d].resumed = conn[d].resumed
                         /\ conn'[d].stale = conn[d].stale /\ conn'[d].dump = conn[d].dump
      /\ \A d \in Conn \ {c} : conn'[d].ended = conn[d].ended
  BY <1>1 DEF Calm, Inv, TypeOK
<1>3. /\ \A i \in CallId : InProgress(i)' <=> InProgress(i)
      /\ \A i \in CallId : InProgress(i) => call[i].by # c
      /\ \A d \in Conn : Serving(d)' <=> Serving(d)
      /\ \A d \in Conn : Holder(d)' <=> Holder(d)
  BY <1>1, <1>2 DEF InProgress, Serving, Busy, Holder, Cleared
<1>. USE DEF Calm, Inv, Orderly
<1>4. Alone'
  BY <1>1, <1>3 DEF Alone
<1>5. Working'
  BY <1>1, <1>2, <1>3 DEF Working, Formed
<1>6. Fresh'
  BY <1>1, <1>2, <1>3 DEF Fresh
<1>7. Owned'
  BY <1>1, <1>3 DEF Owned, Proper
<1>8. Growing'
  BY <1>1, <1>2, <1>3 DEF Growing
<1>9. NoneFailed'
  BY <1>1, <1>2 DEF NoneFailed
<1>10. Untold'
  BY <1>1, <1>2 DEF Untold
<1>11. Kept' /\ Timed'
  BY <1>1 DEF Remembered, Kept, Timed, Faithful
<1>12. Held'
  BY <1>1, <1>2, <1>3, SameEffects DEF Remembered, Held
<1>. QED BY <1>4, <1>5, <1>6, <1>7, <1>8, <1>9, <1>10, <1>11, <1>12 DEF Keeps, Remembered

LEMMA RunEndsKeeps ==
    ASSUME Calm, NEW c \in Conn, RunEnds(c)
    PROVE  Keeps
<1>1. /\ UNCHANGED <<call, writes, store, effects>>
      /\ conn' = [conn EXCEPT ![c] = IF Busy(c) THEN [conn[c] EXCEPT !.st = "gone"] ELSE Gone]
  BY DEF RunEnds
<1>2. /\ conn'[c].st = "gone"
      /\ Busy(c) => /\ conn'[c].tools = conn[c].tools /\ conn'[c].got = conn[c].got
                    /\ conn'[c].stale = conn[c].stale /\ conn'[c].ended = conn[c].ended
      /\ ~ Busy(c) => conn'[c].tools = EmptyRegistry /\ conn'[c].got = None
      /\ \A d \in Conn \ {c} : conn'[d] = conn[d]
  BY <1>1, GoneType DEF Calm, Inv, TypeOK
<1>3. /\ \A i \in CallId : InProgress(i)' <=> InProgress(i)
      /\ \A i \in CallId : InProgress(i) /\ call[i].by = c => Busy(c)
      /\ Serving(c)' => Busy(c) /\ Serving(c)
      /\ \A d \in Conn \ {c} : Serving(d)' <=> Serving(d)
      /\ \A d \in Conn : Holder(d)' => Holder(d)
  BY <1>1, <1>2 DEF InProgress, Serving, Busy, Holder, Cleared
<1>. USE DEF Calm, Inv, Orderly
<1>4. Alone'
  BY <1>1, <1>3 DEF Alone
<1>5. Working'
  BY <1>1, <1>2, <1>3 DEF Working, Formed
<1>6. Fresh'
  BY <1>1, <1>2, <1>3 DEF Fresh
<1>7. Owned'
  BY <1>1, <1>3 DEF Owned, Proper
<1>8. Growing'
  BY <1>1, <1>2, <1>3 DEF Growing
<1>9. NoneFailed'
  <2>1. Unfailed(EmptyRegistry.records)
    BY DEF Unfailed, EmptyRegistry
  <2>. QED BY <1>1, <1>2, <2>1 DEF NoneFailed
<1>10. Untold'
  BY <1>1, <1>2 DEF Untold
<1>11. Kept' /\ Timed'
  BY <1>1 DEF Remembered, Kept, Timed, Faithful
<1>12. Held'
  BY <1>1, <1>2, <1>3, SameEffects DEF Remembered, Held
<1>. QED BY <1>4, <1>5, <1>6, <1>7, <1>8, <1>9, <1>10, <1>11, <1>12 DEF Keeps, Remembered

LEMMA TurnEndedKeeps ==
    ASSUME Calm, NEW c \in Conn, TurnEnded(c)
    PROVE  Keeps
<1> DEFINE d == ToDict(conn[c].tools)
<1>1. /\ Write(None, d) /\ Happens(Untimely(c) \cup {})
      /\ UNCHANGED <<conn, call, store, effects>>
  BY DEF TurnEnded
<1>2. d \in Dict /\ d # None /\ \A k \in Key : d[k] = conn[c].tools.records[k]
  BY StoredSame DEF Calm, Inv, Formed
<1> HIDE DEF d
<1>3. /\ conn[c].st = "ready" /\ ~ conn[c].stale /\ Serving(c)
      /\ \A e \in Conn : Serving(e) => e = c
      /\ \A j \in 1..Len(writes) : writes[j].data # None
  <2>1. conn[c].st = "ready" /\ ~ conn[c].stale /\ Serving(c)
    BY <1>1, Timely DEF Calm
  <2>. QED BY <2>1, ServesAlone, NoDeletion DEF Calm
<1>4. /\ \A i \in CallId : InProgress(i)' <=> InProgress(i)
      /\ \A e \in Conn : Serving(e)' <=> Serving(e)
      /\ \A e \in Conn : Holder(e)' <=> Holder(e)
  BY <1>1 DEF InProgress, Serving, Busy, Holder, Cleared
<1>. USE DEF Calm, Inv, Orderly
<1>5. /\ Owned' /\ Growing'
      /\ \A j \in 1..Len(writes') : writes'[j].data # None => Unfailed(writes'[j].data)
  <2>1. Within(conn[c].tools.records, conn'[c].tools.records) /\ Unfailed(conn'[c].tools.records)
    BY <1>1 DEF Within, NoneFailed
  <2>2. None \notin CallId
    BY RegistryAssumption
  <2>. QED BY <1>1, <1>2, <1>3, <1>4, <2>1, <2>2, AppendKeeps
<1>6. Alone'
  BY <1>1, <1>4 DEF Alone
<1>7. Working'
  BY <1>1, <1>4 DEF Working
<1>8. Untold'
  BY <1>1 DEF Untold
<1>9. Fresh'
  \* No connection is between its load and its return while another one serves.
  <2>1. \A e \in Conn : Holder(e) => e = c
    BY <1>3 DEF Alone, Holder
  <2>. QED BY <1>1, <1>3, <2>1 DEF Fresh, Holder
<1>10. NoneFailed'
  BY <1>1, <1>5 DEF NoneFailed
<1>11. Remembered'
  <2>1. Remembered /\ Faithful(conn[c].tools.records)
    BY <1>3 DEF Remembered, Held
  <2>2. ASSUME NEW i \in CallId, call'[i].pc = "recorded"
        PROVE  conn'[c].tools.records[KeyOf[i]] # None
    <3>1. InProgress(i)
      BY <1>1, <2>2 DEF InProgress
    <3>2. call[i].by = c
      BY <1>3, <3>1 DEF Alone, Holder
    <3>. QED BY <1>1, <3>1, <3>2, CallRecorded
  <2>. QED BY <1>1, <1>2, <1>3, <1>4, <2>1, <2>2, AppendRemembers
<1>. QED BY <1>5, <1>6, <1>7, <1>8, <1>9, <1>10, <1>11 DEF Keeps

LEMMA DumpLogsKeeps ==
    ASSUME Calm, NEW c \in Conn, DumpLogs(c)
    PROVE  Keeps
<1> DEFINE d == IF conn[c].ended THEN None ELSE ToDict(conn[c].tools)
           p == IF conn[c].ended THEN "cleared" ELSE "kept"
<1>1. /\ Write(None, d) /\ Happens(Untimely(c) \cup {})
      /\ UNCHANGED <<call, store, effects>>
      /\ conn' = [conn EXCEPT ![c] = [conn[c] EXCEPT !.dump = p]]
  BY DEF DumpLogs
<1>2. /\ d \in Dict \cup {None} /\ (d = None <=> conn[c].ended)
      /\ d # None => \A k \in Key : d[k] = conn[c].tools.records[k]
  BY StoredSame DEF Calm, Inv, Formed
<1>3. /\ conn'[c].dump = p
      /\ \A e \in Conn \ {c} : conn'[e] = conn[e]
      /\ \A e \in Conn : /\ conn'[e].st = conn[e].st
                         /\ conn'[e].tools = conn[e].tools /\ conn'[e].got = conn[e].got
                         /\ conn'[e].resumed = conn[e].resumed
                         /\ conn'[e].stale = conn[e].stale
                         /\ conn'[e].ended = conn[e].ended
  BY <1>1 DEF Calm, Inv, TypeOK
<1> HIDE DEF d
<1>4. /\ conn[c].st = "ready" /\ ~ conn[c].stale /\ Serving(c) /\ Holder(c)
      /\ \A e \in Conn : Serving(e) => e = c
      /\ \A j \in 1..Len(writes) : writes[j].data # None
  <2>1. conn[c].st = "ready" /\ ~ conn[c].stale /\ Serving(c)
    BY <1>1, Timely DEF Calm
  <2>. QED BY <2>1, ServesAlone, NoDeletion DEF Calm, Holder
<1>. USE DEF Calm, Inv, Orderly
<1>5. /\ \A i \in CallId : InProgress(i)' <=> InProgress(i)
      /\ \A i \in CallId : InProgress(i) => call[i].by = c /\ ~ conn[c].ended
      /\ \A e \in Conn : Serving(e)' => Serving(e)
      /\ \A e \in Conn : Holder(e)' <=> Holder(e)
  <2>1. \A i \in CallId : InProgress(i)' <=> InProgress(i)
    BY <1>1 DEF InProgress
  <2>2. \A i \in CallId : InProgress(i) => call[i].by = c /\ ~ conn[c].ended
    BY <1>4 DEF Alone, Working
  <2>3. \A e \in Conn : Serving(e)' => Serving(e)
    BY <1>1, <1>3, <1>4, <2>1 DEF Serving, Busy, Cleared
  <2>4. \A e \in Conn : Holder(e)' <=> Holder(e)
    BY <1>3 DEF Holder
  <2>. QED BY <2>1, <2>2, <2>3, <2>4
<1>6. conn[c].ended => \A e \in Conn : ~ Serving(e)'
  <2> SUFFICES ASSUME conn[c].ended PROVE ~ Serving(c)'
    BY <1>4, <1>5
  <2>1. conn'[c].dump = "cleared"
    BY <1>3
  <2>. QED BY <1>1, <1>5, <2>1 DEF Serving, Busy, Cleared
<1>7. /\ Owned' /\ Growing'
      /\ \A j \in 1..Len(writes') : writes'[j].data # None => Unfailed(writes'[j].data)
  <2>1. Within(conn[c].tools.records, conn'[c].tools.records) /\ Unfailed(conn'[c].tools.records)
    BY <1>3 DEF Within, NoneFailed
  <2>2. None \notin CallId
    BY RegistryAssumption
  <2>3. d = None => /\ \A i \in CallId : ~ InProgress(i)'
                    /\ \A e \in Conn : ~ Serving(e)'
    BY <1>2, <1>5, <1>6
  <2>4. d # None => \A k \in Key : d[k] = conn'[c].tools.records[k]
    BY <1>2, <1>3
  <2>5. /\ \A i \in CallId : call'[i].pc = call[i].pc
        /\ \A e \in Conn : Serving(e)' => e = c
    BY <1>1, <1>4, <1>5
  <2>. QED BY <1>1, <1>2, <1>4, <2>1, <2>2, <2>3, <2>4, <2>5, AppendKeeps
<1>8. Alone'
  BY <1>1, <1>5 DEF Alone
<1>9. Working'
  BY <1>1, <1>3, <1>5 DEF Working, Formed
<1>10. Untold'
  BY <1>1, <1>3 DEF Untold
<1>11. Fresh'
  <2>1. \A e \in Conn : Holder(e) => e = c
    BY <1>4 DEF Alone
  <2>. QED BY <1>3, <1>4, <2>1 DEF Fresh, Holder
<1>12. NoneFailed'
  BY <1>1, <1>3, <1>7 DEF NoneFailed
<1>13. Remembered'
  <2>1. Remembered /\ Faithful(conn'[c].tools.records)
    BY <1>3, <1>4 DEF Remembered, Held
  <2>2. ASSUME NEW i \in CallId, call'[i].pc = "recorded"
        PROVE  conn'[c].tools.records[KeyOf[i]] # None
    <3>1. InProgress(i)
      BY <1>1, <2>2 DEF InProgress
    <3>. QED BY <1>3, <1>5, <3>1, CallRecorded
  <2>3. d # None => \A k \in Key : d[k] = conn'[c].tools.records[k]
    BY <1>2, <1>3
  <2>. QED BY <1>1, <1>2, <1>4, <1>5, <2>1, <2>2, <2>3, AppendRemembers
<1>. QED BY <1>7, <1>8, <1>9, <1>10, <1>11, <1>12, <1>13 DEF Keeps

LEMMA CallToolKeeps ==
    ASSUME Calm, NEW c \in Conn, NEW i \in CallId, CallTool(i, c)
    PROVE  Keeps
<1> DEFINE k == KeyOf[i]
           old == conn[c].tools.records[k]
           r == RegisterCall(conn[c].tools, k, i, "pending")
           d == ToDict(r)
           S == {a \in Accident : \/ a = "parallel" /\ \E j \in CallId : InProgress(j)
                                  \/ a = "late" /\ conn[c].ended}
<1>1. call[i].pc = "unused" /\ ~ InProgress(i) /\ UNCHANGED <<store, effects>>
  BY DEF CallTool, InProgress
<1>2. \/ /\ call' = [call EXCEPT ![i] = [pc |-> "over", by |-> c]]
         /\ UNCHANGED <<conn, writes>>
      \/ /\ ~ Trapped(Check(conn[c].tools, k, i), conn[c].resumed)
         /\ call' = [call EXCEPT ![i] = [pc |-> "recording", by |-> c]]
         /\ conn' = [conn EXCEPT ![c].tools = r]
         /\ Write(i, d)
         /\ Happens(Untimely(c) \cup S)
  BY DEF CallTool
<1>3. /\ k \in Key /\ RegistryOK(conn[c].tools) /\ RegistryOK(r)
      /\ d \in Dict /\ d # None /\ \A n \in Key : d[n] = r.records[n]
  BY RegistryAssumption, CallTools, StoredSame DEF Calm, Inv, Formed
<1>. USE DEF Calm, Inv, Orderly
<1>4. CASE /\ call' = [call EXCEPT ![i] = [pc |-> "over", by |-> c]]
           /\ UNCHANGED <<conn, writes>>
  <2>1. /\ call'[i].pc = "over" /\ \A j \in CallId \ {i} : call'[j] = call[j]
        /\ ~ InProgress(i)'
        /\ \A j \in CallId \ {i} : InProgress(j)' <=> InProgress(j)
    BY <1>4 DEF TypeOK, InProgress
  <2>2. /\ \A e \in Conn : Serving(e)' <=> Serving(e)
        /\ \A e \in Conn : Holder(e)' <=> Holder(e)
    BY <1>1, <1>4, <2>1 DEF Serving, Busy, Cleared, Holder
  <2>3. Alone'
    BY <1>4, <2>1, <2>2 DEF Alone
  <2>4. Working'
    BY <1>4, <2>1 DEF Working
  <2>5. Fresh' /\ NoneFailed'
    BY <1>1, <1>4, <2>1 DEF Fresh, NoneFailed
  <2>6. Owned'
    BY <1>1, <1>4, <2>1, <2>2 DEF Owned, Proper
  <2>7. Growing'
    BY <1>4, <2>2 DEF Growing
  <2>8. Untold'
    BY <1>1, <1>4, <2>1 DEF Untold
  <2>9. Kept'
    BY <1>1, <1>4 DEF Remembered, Kept, Faithful
  <2>10. Held'
    BY <1>1, <1>4, <2>2, SameEffects DEF Remembered, Held
  <2>11. Timed'
    BY <1>1, <1>4, <2>1 DEF Remembered, Timed
  <2>. QED BY <2>3, <2>4, <2>5, <2>6, <2>7, <2>8, <2>9, <2>10, <2>11 DEF Keeps, Remembered
<1>5. CASE /\ ~ Trapped(Check(conn[c].tools, k, i), conn[c].resumed)
           /\ call' = [call EXCEPT ![i] = [pc |-> "recording", by |-> c]]
           /\ conn' = [conn EXCEPT ![c].tools = r]
           /\ Write(i, d)
           /\ Happens(Untimely(c) \cup S)
  <2>1. /\ conn[c].st = "ready" /\ ~ conn[c].stale /\ Serving(c) /\ Holder(c)
        /\ ~ conn[c].ended
        /\ \A e \in Conn : Serving(e) => e = c
        /\ \A e \in Conn : Holder(e) => e = c
        /\ \A j \in CallId : InProgress(j) => call[j].by = c
        /\ \A j \in 1..Len(writes) : writes[j].data # None
    <3>1. conn[c].st = "ready" /\ ~ conn[c].stale /\ Serving(c)
      BY <1>5, Timely
    <3>2. ~ conn[c].ended
      BY <1>5 DEF Happens, Smooth, Accident
    <3>3. Holder(c)
      BY <3>1 DEF Holder
    <3>. QED BY <3>1, <3>2, <3>3, ServesAlone, NoDeletion DEF Alone
  <2>2. /\ r.index[i] = k
        /\ \A j \in CallId \ {i} : r.index[j] = conn[c].tools.index[j]
        /\ \A n \in Key \ {k} : r.records[n] = conn[c].tools.records[n]
        /\ r.records[k] # None
        /\ r.records[k].status = IF old = None THEN "pending" ELSE old.status
    BY <1>3, Registered
  <2>3. /\ conn'[c].tools = r
        /\ \A e \in Conn \ {c} : conn'[e] = conn[e]
        /\ \A e \in Conn : /\ conn'[e].st = conn[e].st /\ conn'[e].got = conn[e].got
                           /\ conn'[e].resumed = conn[e].resumed
                           /\ conn'[e].stale = conn[e].stale /\ conn'[e].dump = conn[e].dump
                           /\ conn'[e].ended = conn[e].ended
    BY <1>5 DEF TypeOK
  <2> HIDE DEF r, d
  <2>4. /\ call'[i].pc = "recording" /\ call'[i].by = c
        /\ \A j \in CallId \ {i} : call'[j] = call[j]
    BY <1>5 DEF TypeOK
  <2>5. /\ \A j \in CallId \ {i} : InProgress(j)' <=> InProgress(j)
        /\ \A j \in CallId : InProgress(j)' => call'[j].by = c
        /\ \A e \in Conn : Serving(e)' => e = c
        /\ \A e \in Conn : Holder(e)' <=> Holder(e)
    <3>1. \A j \in CallId \ {i} : InProgress(j)' <=> InProgress(j)
      BY <2>4 DEF InProgress
    <3>2. \A j \in CallId : InProgress(j)' => call'[j].by = c
      BY <2>1, <2>4, <3>1
    <3>3. \A e \in Conn : Serving(e)' => e = c
      BY <2>1, <2>3, <3>2 DEF Serving, Busy, Cleared
    <3>4. \A e \in Conn : Holder(e)' <=> Holder(e)
      BY <2>3 DEF Holder
    <3>. QED BY <3>1, <3>2, <3>3, <3>4
  <2>6. Within(conn[c].tools.records, r.records) /\ Unfailed(r.records)
    <3>1. Unfailed(conn[c].tools.records)
      BY DEF NoneFailed
    <3>. QED BY <1>3, <2>2, <3>1 DEF Within, Unfailed
  <2>7. /\ Owned' /\ Growing'
        /\ \A j \in 1..Len(writes') : writes'[j].data # None => Unfailed(writes'[j].data)
    <3>1. \A j \in 1..Len(writes) : writes[j].owner # i
      BY <1>1 DEF Owned, Proper
    <3>2. d[k] # None
      BY <1>3, <2>2
    <3>3. \A j \in CallId : j # i => call'[j].pc = call[j].pc
      BY <2>4
    <3>4. d # None => \A n \in Key : d[n] = conn'[c].tools.records[n]
      BY <1>3, <2>3
    <3>5. /\ Within(conn[c].tools.records, conn'[c].tools.records)
          /\ Unfailed(conn'[c].tools.records)
      BY <2>3, <2>6
    <3>. QED BY <1>3, <1>5, <2>1, <2>4, <2>5, <3>1, <3>2, <3>3, <3>4, <3>5, AppendKeeps
  <2>8. Alone'
    BY <2>1, <2>5 DEF Alone
  <2>9. Fresh'
    BY <2>1, <2>3 DEF Fresh, Holder
  <2>10. Working'
    <3> SUFFICES ASSUME NEW j \in CallId, InProgress(j)'
                 PROVE  /\ conn'[c].st \notin {"opened", "loaded"}
                        /\ ~ conn'[c].stale /\ ~ conn'[c].ended
                        /\ conn'[c].tools.index[j] = KeyOf[j]
      BY <2>5 DEF Working
    <3>1. CASE j = i
      BY <2>1, <2>2, <2>3, <3>1
    <3>2. CASE j # i
      BY <2>1, <2>2, <2>3, <2>5, <3>2 DEF Working
    <3>. QED BY <3>1, <3>2
  <2>11. NoneFailed'
    BY <1>1, <2>3, <2>6, <2>7 DEF NoneFailed
  <2>12. Untold'
    <3> SUFFICES ASSUME NEW e \in Conn, NEW n \in Key,
                        conn'[e].st = "ready", ~ conn'[e].stale, ~ conn'[e].resumed,
                        conn'[e].tools.records[n] # None,
                        conn'[e].tools.records[n].status = "pending"
                 PROVE  \E j \in CallId : /\ KeyOf[j] = n
                                          /\ call'[j].pc \in {"recording", "recorded", "acting"}
      BY DEF Untold
    <3>1. e = c
      BY <2>1, <2>3 DEF Holder
    <3>2. CASE n = k
      BY <2>4, <3>2
    <3>3. CASE n # k
      <4>1. conn'[e].tools.records[n] = conn[c].tools.records[n]
        BY <2>2, <2>3, <3>1, <3>3
      <4>2. PICK j \in CallId : /\ KeyOf[j] = n
                                /\ call[j].pc \in {"recording", "recorded", "acting"}
        BY <2>1, <2>3, <3>1, <4>1 DEF Untold
      <4>3. j # i
        BY <3>3, <4>2
      <4>. QED BY <2>4, <4>2, <4>3
    <3>. QED BY <3>2, <3>3
  <2>13. Remembered'
    <3>1. Remembered /\ Faithful(conn[c].tools.records)
      BY <2>1 DEF Remembered, Held
    <3>2. Faithful(conn'[c].tools.records)
      BY <1>3, <2>2, <2>3, <3>1 DEF Faithful
    <3>3. \A j \in CallId : \/ call'[j].pc = call[j].pc
                            \/ call'[j].pc = "recording"
      BY <2>4
    <3>4. ASSUME NEW j \in CallId, call'[j].pc = "recorded"
          PROVE  conn'[c].tools.records[KeyOf[j]] # None
      <4>1. j # i /\ InProgress(j) /\ KeyOf[j] \in Key
        BY <2>4, <3>4, RegistryAssumption DEF InProgress
      <4>2. conn[c].tools.records[KeyOf[j]] # None
        BY <2>1, <4>1, CallRecorded
      <4>. QED BY <2>3, <2>6, <4>1, <4>2 DEF Within
    <3>5. d # None => \A n \in Key : d[n] = conn'[c].tools.records[n]
      BY <1>3, <2>3
    <3>. QED BY <1>1, <1>3, <1>5, <2>5, <3>1, <3>2, <3>3, <3>4, <3>5, AppendRemembers
  <2>. QED BY <2>7, <2>8, <2>9, <2>10, <2>11, <2>12, <2>13 DEF Keeps
<1>. QED BY <1>2, <1>4, <1>5

LEMMA ActKeeps ==
    ASSUME Calm, NEW i \in CallId, Act(i)
    PROVE  Keeps
<1> DEFINE k == KeyOf[i]
           c == call[i].by
           Still(b) == \A n \in Key :
               /\ effects'[n] > 0 => b[n] # None
               /\ b[n] # None => (b[n].status = "completed" => effects'[n] > 0)
<1>1. /\ call[i].pc = "recorded" /\ InProgress(i)
      /\ UNCHANGED <<conn, writes, store>>
      /\ call' = [call EXCEPT ![i].pc = "acting"]
      /\ effects' = [effects EXCEPT ![k] = effects[k] + 1]
  BY DEF Act, InProgress
<1>. USE DEF Calm, Inv, Orderly
<1>2. /\ call'[i].pc = "acting" /\ \A j \in CallId : call'[j].by = call[j].by
      /\ \A j \in CallId \ {i} : call'[j] = call[j]
  BY <1>1 DEF TypeOK
<1>3. /\ k \in Key /\ c \in Conn /\ conn[c].tools.records[k] # None
      /\ effects \in [Key -> Nat]
  BY <1>1, RegistryAssumption, CallRecorded DEF TypeOK
<1>4. effects'[k] = effects[k] + 1 /\ \A n \in Key \ {k} : effects'[n] = effects[n]
  BY <1>1, <1>3
<1>5. /\ \A j \in CallId : InProgress(j)' <=> InProgress(j)
      /\ \A e \in Conn : Serving(e)' <=> Serving(e)
      /\ \A e \in Conn : Holder(e)' <=> Holder(e)
      /\ Serving(c)
      /\ \A e \in Conn : Serving(e) => e = c
  <2>1. \A j \in CallId : InProgress(j)' <=> InProgress(j)
    BY <1>1, <1>2 DEF InProgress
  <2>2. /\ \A e \in Conn : Serving(e)' <=> Serving(e)
        /\ \A e \in Conn : Holder(e)' <=> Holder(e)
    BY <1>1, <1>2, <2>1 DEF Serving, Busy, Cleared, Holder
  <2>3. Serving(c)
    BY <1>1 DEF Serving, Busy
  <2>. QED BY <1>3, <2>1, <2>2, <2>3, ServesAlone
<1>6. Alone'
  BY <1>2, <1>5 DEF Alone
<1>7. Working'
  BY <1>1, <1>2, <1>5 DEF Working
<1>8. Fresh' /\ NoneFailed'
  BY <1>1, <1>5 DEF Fresh, NoneFailed
<1>9. Owned'
  BY <1>1, <1>2, <1>5 DEF Owned, Proper
<1>10. Growing'
  BY <1>1, <1>5 DEF Growing
<1>11. Untold'
  BY <1>1, <1>2 DEF Untold
<1>12. /\ Kept /\ Held /\ Timed
       /\ store # None /\ store[k] # None
       /\ \A j \in 1..Len(writes) : writes[j].data # None => writes[j].data[k] # None
  BY <1>1 DEF Remembered, Timed
<1>13. \A n \in Key : /\ effects'[n] > 0 => n = k \/ effects[n] > 0
                      /\ effects[n] > 0 => effects'[n] > 0
  BY <1>3, <1>4
<1>14. ASSUME NEW b, Faithful(b), b[k] # None
       PROVE  Still(b)
  BY <1>13, <1>14 DEF Faithful
<1>15. Kept'
  <2>1. Still(store)
    BY <1>12, <1>14 DEF Kept
  <2>2. ASSUME NEW j \in 1..Len(writes), writes[j].data # None
        PROVE  Still(writes[j].data)
    BY <1>12, <1>14, <2>2 DEF Kept
  <2>. QED BY <1>1, <1>12, <2>1, <2>2 DEF Kept, Faithful
<1>16. Held'
  <2>1. Still(conn[c].tools.records)
    BY <1>3, <1>5, <1>12, <1>14 DEF Held
  <2>. QED BY <1>1, <1>5, <2>1 DEF Held, Faithful
<1>17. Timed'
  <2>1. \A j \in CallId : KeyOf[j] \in Key
    BY RegistryAssumption
  <2>2. \A j \in CallId : call'[j].pc \in {"acting", "confirming"} => effects'[KeyOf[j]] > 0
    BY <1>2, <1>3, <1>4, <1>12, <1>13, <2>1 DEF Timed
  <2>. QED BY <1>1, <1>2, <1>12, <2>2 DEF Timed
<1>. QED BY <1>6, <1>7, <1>8, <1>9, <1>10, <1>11, <1>15, <1>16, <1>17 DEF Keeps, Remembered

LEMMA FinishKeeps ==
    ASSUME Calm, NEW i \in CallId, Finish(i)
    PROVE  Keeps
<1> DEFINE k == KeyOf[i]
           c == call[i].by
           r == CompleteCall(conn[c].tools, i, CHOOSE res \in Result : TRUE)
           d == ToDict(r)
<1>1. /\ call[i].pc = "acting" /\ InProgress(i)
      /\ UNCHANGED <<store, effects>>
      /\ call' = [call EXCEPT ![i].pc = "confirming"]
      /\ conn' = [conn EXCEPT ![c].tools = r]
      /\ Write(i, d)
  BY DEF Finish, InProgress
<1>. USE DEF Calm, Inv, Orderly
<1>2. /\ call'[i].pc = "confirming" /\ \A j \in CallId : call'[j].by = call[j].by
      /\ \A j \in CallId \ {i} : call'[j] = call[j]
  BY <1>1 DEF TypeOK
<1>3. /\ k \in Key /\ c \in Conn /\ conn[c].tools.index[i] = k
      /\ RegistryOK(conn[c].tools) /\ (CHOOSE res \in Result : TRUE) \in Result
  BY <1>1, RegistryAssumption, BotAssumption, CallRecorded DEF Formed, Working
<1>4. /\ \A n \in Key \ {k} : r.records[n] = conn[c].tools.records[n]
      /\ r.records[k] # None /\ r.records[k].status = "completed"
      /\ r.index = conn[c].tools.index
  BY <1>3, Completed
<1>5. RegistryOK(r)
  BY <1>3, CallTools
<1>6. d \in Dict /\ d # None /\ \A n \in Key : d[n] = r.records[n]
  BY <1>5, StoredSame
<1>7. /\ conn'[c].tools = r
      /\ \A e \in Conn \ {c} : conn'[e] = conn[e]
      /\ \A e \in Conn : /\ conn'[e].st = conn[e].st /\ conn'[e].got = conn[e].got
                         /\ conn'[e].resumed = conn[e].resumed
                         /\ conn'[e].stale = conn[e].stale /\ conn'[e].dump = conn[e].dump
                         /\ conn'[e].ended = conn[e].ended
  BY <1>1, <1>3 DEF TypeOK
<1> HIDE DEF r, d
<1>8. /\ \A j \in CallId : InProgress(j)' <=> InProgress(j)
      /\ \A j \in CallId : InProgress(j) => call[j].by = c
      /\ Serving(c)
      /\ \A e \in Conn : Serving(e)' => e = c
      /\ \A e \in Conn : Holder(e)' <=> Holder(e)
      /\ \A e \in Conn : Holder(e) => e = c
      /\ \A j \in 1..Len(writes) : writes[j].data # None /\ writes[j].owner # i
  <2>1. \A j \in CallId : InProgress(j)' <=> InProgress(j)
    BY <1>1, <1>2 DEF InProgress
  <2>2. Serving(c)
    BY <1>1 DEF Serving, Busy
  <2>3. /\ \A e \in Conn : Serving(e)' => Serving(e)
        /\ \A e \in Conn : Holder(e)' <=> Holder(e)
    BY <1>2, <1>7, <2>1 DEF Serving, Busy, Cleared, Holder
  <2>4. \A j \in 1..Len(writes) : writes[j].data # None /\ writes[j].owner # i
    BY <1>1, NoDeletion DEF Owned, Proper
  <2>. QED BY <1>1, <1>3, <2>1, <2>2, <2>3, <2>4, ServesAlone DEF Alone
<1>9. Within(conn[c].tools.records, r.records) /\ Unfailed(r.records)
  <2>1. Unfailed(conn[c].tools.records)
    BY <1>3 DEF NoneFailed
  <2>. QED BY <1>3, <1>4, <2>1 DEF Within, Unfailed
<1>10. /\ Owned' /\ Growing'
       /\ \A j \in 1..Len(writes') : writes'[j].data # None => Unfailed(writes'[j].data)
  <2>1. d[k] # None
    BY <1>3, <1>4, <1>6
  <2>2. \A j \in CallId : j # i => call'[j].pc = call[j].pc
    BY <1>2
  <2>3. d # None => \A n \in Key : d[n] = conn'[c].tools.records[n]
    BY <1>6, <1>7
  <2>4. /\ Within(conn[c].tools.records, conn'[c].tools.records)
        /\ Unfailed(conn'[c].tools.records)
    BY <1>7, <1>9
  <2>. QED BY <1>1, <1>2, <1>3, <1>6, <1>8, <2>1, <2>2, <2>3, <2>4, AppendKeeps
<1>11. Alone'
  BY <1>2, <1>8 DEF Alone
<1>12. Fresh'
  <2> SUFFICES ASSUME NEW e \in Conn, conn'[e].st = "loaded", ~ conn'[e].stale
               PROVE  FALSE
    BY DEF Fresh
  <2>1. conn[e].st = "loaded" /\ ~ conn[e].stale
    BY <1>7
  <2>2. InProgress(i) /\ Fresh
    BY <1>1
  <2>. QED BY <2>1, <2>2 DEF Fresh
<1>13. Working'
  <2> SUFFICES ASSUME NEW j \in CallId, InProgress(j)'
               PROVE  /\ conn'[c].st \notin {"opened", "loaded"}
                      /\ ~ conn'[c].stale /\ ~ conn'[c].ended
                      /\ conn'[c].tools.index[j] = KeyOf[j]
    BY <1>2, <1>8 DEF Working
  <2>1. InProgress(j) /\ call[j].by = c
    BY <1>8
  <2>2. /\ conn[c].st \notin {"opened", "loaded"}
        /\ ~ conn[c].stale /\ ~ conn[c].ended
        /\ conn[c].tools.index[j] = KeyOf[j]
    BY <2>1 DEF Working
  <2>. QED BY <1>3, <1>4, <1>7, <2>2
<1>14. NoneFailed'
  BY <1>1, <1>7, <1>9, <1>10 DEF NoneFailed
<1>15. Untold'
  <2> SUFFICES ASSUME NEW e \in Conn, NEW n \in Key,
                      conn'[e].st = "ready", ~ conn'[e].stale, ~ conn'[e].resumed,
                      conn'[e].tools.records[n] # None,
                      conn'[e].tools.records[n].status = "pending"
               PROVE  \E j \in CallId : /\ KeyOf[j] = n
                                        /\ call'[j].pc \in {"recording", "recorded", "acting"}
    BY DEF Untold
  <2>1. e = c
    BY <1>7, <1>8 DEF Holder
  <2>2. n # k
    BY <1>4, <1>7, <2>1
  <2>3. conn'[e].tools.records[n] = conn[c].tools.records[n]
    BY <1>4, <1>7, <2>1, <2>2
  <2>4. PICK j \in CallId : /\ KeyOf[j] = n
                            /\ call[j].pc \in {"recording", "recorded", "acting"}
    BY <1>7, <2>1, <2>3 DEF Untold
  <2>5. j # i
    BY <2>2, <2>4
  <2>. QED BY <1>2, <2>4, <2>5
<1>16. Remembered'
  <2>1. Remembered /\ Faithful(conn[c].tools.records) /\ effects[k] > 0
    BY <1>1, <1>3, <1>8 DEF Remembered, Held, Timed
  <2>2. Faithful(conn'[c].tools.records)
    BY <1>3, <1>4, <1>7, <2>1 DEF Faithful
  <2>3. \A j \in CallId : \/ call'[j].pc = call[j].pc
                          \/ call'[j].pc = "recording"
                          \/ call'[j].pc = "confirming" /\ effects[KeyOf[j]] > 0
                          \/ call'[j].pc = "over"
    BY <1>2, <2>1
  <2>4. ASSUME NEW j \in CallId, call'[j].pc = "recorded"
        PROVE  conn'[c].tools.records[KeyOf[j]] # None
    <3>1. InProgress(j) /\ KeyOf[j] \in Key
      BY <1>2, <2>4, RegistryAssumption DEF InProgress
    <3>2. conn[c].tools.records[KeyOf[j]] # None
      BY <1>8, <3>1, CallRecorded
    <3>. QED BY <1>7, <1>9, <3>1, <3>2 DEF Within
  <2>5. d # None => \A n \in Key : d[n] = conn'[c].tools.records[n]
    BY <1>6, <1>7
  <2>6. Write(i, d) /\ UNCHANGED <<store, effects>>
    BY <1>1
  <2>7. /\ i \in CallId \cup {None} /\ d \in Dict \cup {None} /\ c \in Conn
        /\ \A e \in Conn : Serving(e)' => e = c
    BY <1>3, <1>6, <1>8
  <2>. QED BY <2>1, <2>2, <2>3, <2>4, <2>5, <2>6, <2>7, AppendRemembers
<1>. QED BY <1>10, <1>11, <1>12, <1>13, <1>14, <1>15, <1>16 DEF Keeps

LEMMA CrashKeeps ==
    ASSUME Calm, Crash
    PROVE  Keeps
<1>1. /\ UNCHANGED <<store, effects>> /\ writes' = <<>>
      /\ \A c \in Conn : conn'[c] = Gone
  BY DEF Crash
<1>2. \A i \in CallId : ~ InProgress(i)'
  BY DEF Crash, Calm, Inv, TypeOK, InProgress
<1>3. Len(writes') = 0
  BY <1>1
<1>4. /\ \A c \in Conn : conn'[c].st = "gone" /\ conn'[c].tools = EmptyRegistry
                         /\ conn'[c].got = None
      /\ \A c \in Conn : ~ Serving(c)' /\ ~ Holder(c)'
  BY <1>1, <1>2, GoneType DEF Serving, Busy, Holder
<1>5. Alone' /\ Working' /\ Fresh' /\ Owned' /\ Growing' /\ Untold'
  BY <1>2, <1>3, <1>4 DEF Alone, Working, Fresh, Owned, Growing, Untold
<1>6. NoneFailed'
  <2>1. Unfailed(EmptyRegistry.records)
    BY DEF Unfailed, EmptyRegistry
  <2>. QED BY <1>1, <1>3, <1>4, <2>1 DEF Calm, Inv, Orderly, NoneFailed
<1>7. Kept'
  BY <1>1, <1>3 DEF Calm, Inv, Remembered, Kept, Faithful
<1>8. Held' /\ Timed'
  BY <1>2, <1>4 DEF Held, Timed, InProgress
<1>. QED BY <1>5, <1>6, <1>7, <1>8 DEF Keeps, Orderly, Remembered

LEMMA StutterKeeps ==
    ASSUME Calm, UNCHANGED vars
    PROVE  Keeps
<1>1. UNCHANGED <<conn, call, writes, store, effects>>
  BY DEF vars
<1>2. /\ \A i \in CallId : InProgress(i)' <=> InProgress(i)
      /\ \A c \in Conn : Serving(c)' <=> Serving(c)
      /\ \A c \in Conn : Holder(c)' <=> Holder(c)
  BY <1>1 DEF InProgress, Serving, Busy, Cleared, Holder
<1>. USE DEF Calm, Inv, Orderly
<1>3. Alone' /\ Working' /\ Fresh'
  BY <1>1, <1>2 DEF Alone, Working, Fresh
<1>4. Owned' /\ Growing'
  BY <1>1, <1>2 DEF Owned, Proper, Growing
<1>5. NoneFailed' /\ Untold'
  BY <1>1 DEF NoneFailed, Untold
<1>6. Kept' /\ Timed'
  BY <1>1 DEF Remembered, Kept, Timed, Faithful
<1>7. Held'
  BY <1>1, <1>2, SameEffects DEF Remembered, Held
<1>. QED BY <1>3, <1>4, <1>5, <1>6, <1>7 DEF Keeps, Remembered

LEMMA WriteEndsKeeps ==
    ASSUME Calm, NEW j \in DOMAIN writes, NEW ok \in BOOLEAN, WriteEnds(j, ok)
    PROVE  Keeps
<1> DEFINE w == writes[1]
<1>1. /\ ok /\ j = 1 /\ Len(writes) \in Nat \ {0} /\ Len(writes') = Len(writes) - 1
      /\ \A m \in 1..Len(writes') : m + 1 \in 2..Len(writes) /\ writes'[m] = writes[m + 1]
  BY Removed DEF Calm, Inv
<1>2. /\ conn' = conn
      /\ \A i \in CallId :
            /\ call'[i].by = call[i].by
            /\ call'[i].pc = IF w.owner = i THEN After(call[i].pc) ELSE call[i].pc
  <2>1. Linked /\ writes \in Seq(StorageCall)
    BY TypeLinked DEF Calm, Inv
  <2>. QED BY <1>1, <2>1, EndsFacts
<1>3. /\ store' = w.data
      /\ effects' = IF w.data = None THEN [k \in Key |-> 0] ELSE effects
  BY <1>1 DEF WriteEnds
<1>. USE DEF Calm, Inv, Orderly
<1>4. /\ 1 \in 1..Len(writes) /\ Proper(1)
      /\ \A m \in 1..Len(writes') :
            /\ Proper(m + 1) /\ m + 1 \in 1..Len(writes) /\ m + 1 # 1
            /\ writes[m + 1].owner # None => writes[m + 1].owner # w.owner
  BY <1>1 DEF Owned
<1>5. /\ \A i \in CallId : InProgress(i)' => InProgress(i)
      /\ \A c \in Conn : Serving(c)' => Serving(c)
      /\ \A c \in Conn : Holder(c)' <=> Holder(c)
      /\ \A i \in CallId : call'[i].pc # call[i].pc =>
            /\ w.owner = i
            /\ \/ call[i].pc = "recording" /\ call'[i].pc = "recorded"
               \/ call[i].pc = "confirming" /\ call'[i].pc = "over"
  <2>1. \A i \in CallId : call'[i].pc # call[i].pc =>
            /\ w.owner = i
            /\ \/ call[i].pc = "recording" /\ call'[i].pc = "recorded"
               \/ call[i].pc = "confirming" /\ call'[i].pc = "over"
    BY <1>2 DEF After
  <2>2. \A i \in CallId : InProgress(i)' => InProgress(i)
    BY <2>1 DEF InProgress
  <2>3. \A c \in Conn : Serving(c)' => Serving(c)
    BY <1>2, <2>2 DEF Serving, Busy, Cleared
  <2>4. \A c \in Conn : Holder(c)' <=> Holder(c)
    BY <1>2 DEF Holder
  <2>. QED BY <2>1, <2>2, <2>3, <2>4
<1>6. \A c \in Conn : ~ (conn[c].st = "loaded" /\ ~ conn[c].stale)
  \* A storage call has been in flight.
  BY <1>1 DEF Fresh
<1>7. Alone'
  BY <1>2, <1>5 DEF Alone
<1>8. Working'
  BY <1>2, <1>5 DEF Working
<1>9. Fresh'
  BY <1>2, <1>6 DEF Fresh
<1>10. Owned'
  <2>1. ASSUME NEW m \in 1..Len(writes')
        PROVE  Proper(m)'
    <3>1. /\ Proper(m + 1) /\ writes'[m] = writes[m + 1]
          /\ writes[m + 1].owner # None => writes[m + 1].owner # w.owner
      BY <1>1, <1>4
    <3>2. None \notin CallId
      BY RegistryAssumption
    <3>3. writes'[m].data = None =>
              /\ m = Len(writes')
              /\ \A i \in CallId : ~ InProgress(i)'
              /\ \A c \in Conn : ~ Serving(c)'
      BY <1>1, <1>5, <3>1 DEF Proper
    <3>4. writes'[m].owner \in CallId =>
              /\ call'[writes'[m].owner].pc \in {"recording", "confirming"}
              /\ writes'[m].data # None
              /\ writes'[m].data[KeyOf[writes'[m].owner]] # None
      BY <1>2, <3>1, <3>2 DEF Proper
    <3>. QED BY <3>3, <3>4 DEF Proper
  <2>2. ASSUME NEW m \in 1..Len(writes'), NEW n \in 1..Len(writes'),
               writes'[m].owner = writes'[n].owner, writes'[m].owner # None
        PROVE  m = n
    <3>1. m + 1 = n + 1
      BY <1>1, <1>4, <2>2 DEF Owned
    <3>. QED BY <1>1, <3>1
  <2>. QED BY <2>1, <2>2 DEF Owned
<1>11. Growing'
  <2>1. ASSUME NEW m \in 1..Len(writes'), NEW n \in 1..Len(writes'), m < n,
               writes'[m].data # None, writes'[n].data # None
        PROVE  Within(writes'[m].data, writes'[n].data)
    <3>1. m + 1 < n + 1
      BY <1>1, <2>1
    <3>. QED BY <1>1, <1>4, <2>1, <3>1 DEF Growing
  <2>2. ASSUME NEW m \in 1..Len(writes'), NEW c \in Conn,
               Serving(c)', writes'[m].data # None
        PROVE  Within(writes'[m].data, conn'[c].tools.records)
    BY <1>1, <1>2, <1>4, <1>5, <2>2 DEF Growing
  <2>. QED BY <2>1, <2>2 DEF Growing
<1>12. NoneFailed'
  BY <1>1, <1>2, <1>3, <1>4 DEF NoneFailed
<1>13. Untold'
  <2> SUFFICES ASSUME NEW c \in Conn, NEW n \in Key,
                      conn'[c].st = "ready", ~ conn'[c].stale, ~ conn'[c].resumed,
                      conn'[c].tools.records[n] # None,
                      conn'[c].tools.records[n].status = "pending"
               PROVE  \E i \in CallId : /\ KeyOf[i] = n
                                        /\ call'[i].pc \in {"recording", "recorded", "acting"}
    BY DEF Untold
  <2>1. PICK i \in CallId : /\ KeyOf[i] = n
                            /\ call[i].pc \in {"recording", "recorded", "acting"}
    BY <1>2 DEF Untold
  <2>. QED BY <1>5, <2>1
<1>14. ASSUME w.data = None
       PROVE  Remembered'
  \* The session ends, and nothing that was known of it counts any more.
  <2>1. /\ Len(writes') = 0
        /\ \A i \in CallId : ~ InProgress(i)'
        /\ \A c \in Conn : ~ Serving(c)'
    <3>1. /\ 1 = Len(writes)
          /\ \A i \in CallId : ~ InProgress(i)
          /\ \A c \in Conn : ~ Serving(c)
      BY <1>4, <1>14 DEF Proper
    <3>2. Len(writes') = 0
      <4>1. Len(writes') = Len(writes) - 1
        BY <1>1
      <4>. QED BY <3>1, <4>1
    <3>3. /\ \A i \in CallId : ~ InProgress(i)'
          /\ \A c \in Conn : ~ Serving(c)'
      BY <1>5, <3>1
    <3>. QED BY <3>2, <3>3
  <2>2. store' = None /\ \A k \in Key : effects'[k] = 0
    BY <1>3, <1>14
  <2>3. Kept' /\ Held'
    BY <2>1, <2>2 DEF Kept, Held
  <2>4. Timed'
    BY <2>1 DEF Timed, InProgress
  <2>. QED BY <2>3, <2>4 DEF Remembered
<1>15. ASSUME w.data # None
       PROVE  Remembered'
  <2>1. Remembered /\ store' = w.data /\ effects' = effects
    BY <1>3, <1>15
  <2>2. Faithful(w.data)
    BY <1>4, <1>15, <2>1 DEF Remembered, Kept
  <2>3. Kept'
    <3>1. ASSUME NEW m \in 1..Len(writes'), writes'[m].data # None
          PROVE  Faithful(writes'[m].data)
      BY <1>1, <1>4, <2>1, <3>1 DEF Remembered, Kept
    <3>. QED BY <1>15, <2>1, <2>2, <3>1 DEF Kept, Faithful
  <2>4. Held'
    BY <1>2, <1>5, <2>1 DEF Remembered, Held, Faithful
  <2>5. Timed'
    <3> SUFFICES ASSUME NEW i \in CallId
                 PROVE  /\ call'[i].pc \in {"acting", "confirming"} => effects'[KeyOf[i]] > 0
                        /\ call'[i].pc = "recorded" =>
                              /\ store' # None /\ store'[KeyOf[i]] # None
                              /\ \A m \in 1..Len(writes') : writes'[m].data # None =>
                                    writes'[m].data[KeyOf[i]] # None
      BY DEF Timed
    <3>1. call'[i].pc \in {"acting", "confirming"} => effects'[KeyOf[i]] > 0
      BY <1>5, <2>1 DEF Remembered, Timed
    <3>2. ASSUME call'[i].pc = "recorded"
          PROVE  /\ w.data[KeyOf[i]] # None
                 /\ \A m \in 1..Len(writes') : writes'[m].data # None =>
                       writes'[m].data[KeyOf[i]] # None
      <4>0. KeyOf[i] \in Key
        BY RegistryAssumption
      <4>1. CASE call[i].pc = "recorded"
        BY <1>1, <1>4, <1>15, <2>1, <4>1 DEF Remembered, Timed
      <4>2. CASE call[i].pc # "recorded"
        <5>1. w.owner = i
          BY <1>5, <3>2, <4>2
        <5>2. w.data[KeyOf[i]] # None
          BY <1>4, <5>1 DEF Proper
        <5>3. ASSUME NEW m \in 1..Len(writes'), writes'[m].data # None
              PROVE  writes'[m].data[KeyOf[i]] # None
          <6>1. 1 < m + 1 /\ m + 1 \in 1..Len(writes) /\ writes'[m] = writes[m + 1]
            BY <1>1, <1>4
          <6>2. Within(w.data, writes[m + 1].data)
            BY <1>4, <1>15, <5>3, <6>1 DEF Growing
          <6>. QED BY <4>0, <5>2, <6>1, <6>2 DEF Within
        <5>. QED BY <5>2, <5>3
      <4>. QED BY <4>1, <4>2
    <3>. QED BY <1>15, <2>1, <3>1, <3>2
  <2>. QED BY <2>3, <2>4, <2>5 DEF Remembered
<1>. QED BY <1>7, <1>8, <1>9, <1>10, <1>11, <1>12, <1>13, <1>14, <1>15 DEF Keeps

-----------------------------------------------------------------------------
(* Without any accident a call under way is the only one. *)

Tranquil == Inv /\ Single /\ Smooth /\ accidents' = {}

\* A call is made when its request has not been made before: nothing of it is
\* completed or failed, a pending one is trapped after a reconnect, and without one
\* a call would be under way.
LEMMA FirstCall ==
    ASSUME Tranquil, NEW c \in Conn, NEW i \in CallId, CallTool(i, c), InProgress(i)'
    PROVE  /\ \A j \in CallId : ~ InProgress(j)
           /\ effects[KeyOf[i]] = 0
           /\ call'[i].pc = "recording"
           /\ \A j \in CallId \ {i} : call'[j] = call[j]
<1> DEFINE k == KeyOf[i]
           old == conn[c].tools.records[k]
           S == {a \in Accident : \/ a = "parallel" /\ \E j \in CallId : InProgress(j)
                                  \/ a = "late" /\ conn[c].ended}
<1>. USE DEF Tranquil
<1>1. call[i].pc = "unused" /\ call \in [CallId -> Progress]
  BY TypeLinked DEF CallTool, Inv, Linked
<1>2. call' # [call EXCEPT ![i] = [pc |-> "over", by |-> c]]
  BY <1>1 DEF InProgress
<1>3. /\ ~ Trapped(Check(conn[c].tools, k, i), conn[c].resumed)
      /\ call' = [call EXCEPT ![i] = [pc |-> "recording", by |-> c]]
      /\ Happens(Untimely(c) \cup S)
  BY <1>2 DEF CallTool
<1>4. conn[c].st = "ready" /\ ~ conn[c].stale /\ Serving(c)
  BY <1>3, Timely DEF Smooth
<1>5. \A j \in CallId : ~ InProgress(j)
  BY <1>3 DEF Happens, Accident
<1>6. k \in Key /\ RegistryOK(conn[c].tools)
  BY RegistryAssumption DEF Inv, Formed
<1>7. ~ Trapped(old, conn[c].resumed)
  BY <1>3, <1>6, Checked
<1>8. old = None
  <2> SUFFICES ASSUME old # None PROVE FALSE
    OBVIOUS
  <2>1. old.status \in Status
    <3>1. old \in Record
      BY <1>6 DEF RegistryOK, Registry
    <3>. QED BY <3>1, RecordFields
  <2>2. old.status # "failed"
    BY <1>6 DEF Inv, Orderly, NoneFailed, Unfailed
  <2>3. old.status = "pending" /\ ~ conn[c].resumed
    BY <1>7, <2>1, <2>2 DEF Trapped, Status
  <2>4. \E j \in CallId : InProgress(j)
    BY <1>4, <1>6, <2>3 DEF Inv, Orderly, Untold, InProgress
  <2>. QED BY <1>5, <2>4
<1>9. effects[k] = 0
  <2>1. Faithful(conn[c].tools.records)
    BY <1>4 DEF Inv, Remembered, Held
  <2>2. effects[k] \in Nat /\ ~ (effects[k] > 0)
    BY <1>6, <1>8, <2>1 DEF Inv, TypeOK, Faithful
  <2>. QED BY <2>2
<1>. QED BY <1>1, <1>3, <1>5, <1>9

\* No call but this goes on, and it has not moved on with an effect behind it.
LEMMA SingleKept ==
    ASSUME Tranquil,
           \A i \in CallId : InProgress(i)' => InProgress(i),
           \A i \in CallId : call'[i].pc \in {"recording", "recorded"} =>
                                call[i].pc \in {"recording", "recorded"},
           \/ effects' = effects
           \/ effects' = [k \in Key |-> 0]
    PROVE  Single'
<1>1. \A i \in CallId : KeyOf[i] \in Key
  BY RegistryAssumption
<1>. QED BY <1>1 DEF Tranquil, Single

LEMMA SingleKeeps ==
    ASSUME Tranquil, [Next]_vars
    PROVE  Single'
<1>. USE DEF Tranquil
<1>1. ASSUME NEW j \in DOMAIN writes, NEW ok \in BOOLEAN, WriteEnds(j, ok)
      PROVE  Single'
  <2>1. Linked /\ writes \in Seq(StorageCall)
    BY TypeLinked DEF Inv
  <2>2. \A i \in CallId :
           call'[i].pc = IF writes[j].owner = i THEN After(call[i].pc) ELSE call[i].pc
    BY <1>1, <2>1, EndsFacts
  <2>3. /\ \A i \in CallId : InProgress(i)' => InProgress(i)
        /\ \A i \in CallId : call'[i].pc \in {"recording", "recorded"} =>
                                call[i].pc \in {"recording", "recorded"}
    BY <2>2 DEF InProgress, After
  <2>4. effects' = effects \/ effects' = [k \in Key |-> 0]
    BY <1>1 DEF WriteEnds
  <2>. QED BY <2>3, <2>4, SingleKept
<1>2. ASSUME UNCHANGED <<call, effects>>
      PROVE  Single'
  BY <1>2 DEF Single, InProgress
<1>3. ASSUME NEW c \in Conn, NEW i \in CallId, CallTool(i, c)
      PROVE  Single'
  <2>1. effects' = effects
    BY <1>3 DEF CallTool
  <2>2. CASE InProgress(i)'
    <3>1. /\ \A j \in CallId : ~ InProgress(j)
          /\ effects[KeyOf[i]] = 0
          /\ call'[i].pc = "recording"
          /\ \A j \in CallId \ {i} : call'[j] = call[j]
      BY <1>3, <2>2, FirstCall
    <3>2. \A j \in CallId \ {i} : ~ InProgress(j)'
      BY <3>1 DEF InProgress
    <3>3. \A j \in CallId : call'[j].pc \in {"recording", "recorded"} => j = i
      BY <3>2 DEF InProgress
    <3>. QED BY <2>1, <3>1, <3>2, <3>3 DEF Single
  <2>3. CASE ~ InProgress(i)'
    <3>1. call \in [CallId -> Progress]
      BY TypeLinked DEF Inv, Linked
    <3>2. \A j \in CallId \ {i} : call'[j] = call[j]
      BY <1>3, <3>1 DEF CallTool
    <3>3. /\ \A j \in CallId : InProgress(j)' => InProgress(j)
          /\ \A j \in CallId : call'[j].pc \in {"recording", "recorded"} =>
                                  call[j].pc \in {"recording", "recorded"}
      BY <2>3, <3>2 DEF InProgress
    <3>. QED BY <2>1, <3>3, SingleKept
  <2>. QED BY <2>2, <2>3
<1>4. ASSUME NEW i \in CallId, Act(i)
      PROVE  Single'
  <2>1. /\ call[i].pc = "recorded" /\ InProgress(i)
        /\ call' = [call EXCEPT ![i].pc = "acting"]
        /\ effects' = [effects EXCEPT ![KeyOf[i]] = effects[KeyOf[i]] + 1]
    BY <1>4 DEF Act, InProgress
  <2>2. /\ KeyOf[i] \in Key /\ effects \in [Key -> Nat] /\ call \in [CallId -> Progress]
    BY RegistryAssumption, TypeLinked DEF Inv, Linked, TypeOK
  <2>3. /\ call'[i].pc = "acting" /\ \A j \in CallId \ {i} : call'[j] = call[j]
    BY <2>1, <2>2 DEF Progress
  <2>4. /\ \A j \in CallId : InProgress(j) => j = i
        /\ effects[KeyOf[i]] = 0 /\ \A k \in Key : effects[k] <= 1
    BY <2>1 DEF Single
  <2>5. \A j \in CallId : InProgress(j)' => j = i
    BY <2>3, <2>4 DEF InProgress
  <2>6. \A j \in CallId : call'[j].pc \notin {"recording", "recorded"}
    BY <2>3, <2>5 DEF InProgress
  <2>7. \A k \in Key : effects'[k] <= 1
    BY <2>1, <2>2, <2>4
  <2>. QED BY <2>5, <2>6, <2>7 DEF Single
<1>5. ASSUME NEW i \in CallId, Finish(i)
      PROVE  Single'
  <2>1. /\ call[i].pc = "acting" /\ InProgress(i) /\ effects' = effects
        /\ call' = [call EXCEPT ![i].pc = "confirming"]
    BY <1>5 DEF Finish, InProgress
  <2>2. call \in [CallId -> Progress]
    BY TypeLinked DEF Inv, Linked
  <2>3. /\ call'[i].pc = "confirming" /\ \A j \in CallId \ {i} : call'[j] = call[j]
    BY <2>1, <2>2 DEF Progress
  <2>4. /\ \A j \in CallId : InProgress(j)' => InProgress(j)
        /\ \A j \in CallId : call'[j].pc \in {"recording", "recorded"} =>
                                call[j].pc \in {"recording", "recorded"}
    BY <2>1, <2>3 DEF InProgress
  <2>. QED BY <2>1, <2>4, SingleKept
<1>6. CASE Crash
  <2>1. \A i \in CallId : ~ InProgress(i)'
    BY <1>6 DEF Crash, Inv, TypeOK, InProgress
  <2>2. \A i \in CallId : call'[i].pc \notin {"recording", "recorded"}
    BY <2>1 DEF InProgress
  <2>. QED BY <1>6, <2>1, <2>2, SingleKept DEF Crash
<1>7. ASSUME NEW c \in Conn, NEW ok \in BOOLEAN,
             \/ Connect(c) \/ Load(c, ok) \/ Resume(c) \/ TurnEnded(c)
             \/ EndCall(c) \/ DumpLogs(c) \/ RunEnds(c)
      PROVE  UNCHANGED <<call, effects>>
  BY <1>7 DEF Connect, Load, Resume, TurnEnded, EndCall, DumpLogs, RunEnds
<1>8. UNCHANGED vars => UNCHANGED <<call, effects>>
  BY DEF vars
<1>. QED BY <1>1, <1>2, <1>3, <1>4, <1>5, <1>6, <1>7, <1>8 DEF Next

-----------------------------------------------------------------------------
(* The invariant, and the properties. *)

LEMMA InitInv == Init => Inv
<1> SUFFICES ASSUME Init PROVE Inv
  OBVIOUS
<1>1. TypeOK /\ Formed
  BY InitType
<1>2. /\ \A c \in Conn : conn[c] = Gone
      /\ \A i \in CallId : ~ InProgress(i) /\ call[i].pc = "unused"
      /\ writes = <<>> /\ Len(writes) = 0 /\ store = None
      /\ \A k \in Key : effects[k] = 0
  BY DEF Init, InProgress
<1>3. /\ \A c \in Conn : conn[c].st = "gone" /\ conn[c].tools = EmptyRegistry
                         /\ conn[c].got = None
      /\ \A c \in Conn : ~ Serving(c) /\ ~ Holder(c)
  BY <1>2, GoneType DEF Serving, Busy, Holder
<1>4. Alone /\ Working /\ Fresh /\ Owned /\ Growing /\ Untold
  BY <1>2, <1>3 DEF Alone, Working, Fresh, Owned, Growing, Untold
<1>5. NoneFailed
  <2>1. Unfailed(EmptyRegistry.records)
    BY DEF Unfailed, EmptyRegistry
  <2>. QED BY <1>2, <1>3, <2>1 DEF NoneFailed
<1>6. Kept /\ Held /\ Timed
  BY <1>2, <1>3 DEF Kept, Held, Timed
<1>7. Single
  BY <1>2 DEF Single
<1>. QED BY <1>1, <1>4, <1>5, <1>6, <1>7 DEF Inv, Orderly, Remembered

LEMMA NextInv ==
    ASSUME Inv, [Next]_vars
    PROVE  Inv'
<1>1. TypeOK' /\ Formed' /\ (Smooth' => Smooth) /\ (accidents' = {} => accidents = {})
  BY NextType, Peaceful DEF Inv
<1>2. ASSUME Smooth'
      PROVE  Keeps
  <2>0. Calm
    BY <1>1, <1>2 DEF Calm
  <2>1. CASE \E j \in DOMAIN writes, ok \in BOOLEAN : WriteEnds(j, ok)
    BY <2>0, <2>1, WriteEndsKeeps
  <2>2. ASSUME NEW c \in Conn,
               \/ Connect(c) \/ Resume(c) \/ TurnEnded(c) \/ EndCall(c)
               \/ DumpLogs(c) \/ RunEnds(c)
               \/ \E ok \in BOOLEAN : Load(c, ok)
               \/ \E i \in CallId : CallTool(i, c)
        PROVE  Keeps
    BY <2>0, <2>2, ConnectKeeps, ResumeKeeps, TurnEndedKeeps, EndCallKeeps,
       DumpLogsKeeps, RunEndsKeeps, LoadKeeps, CallToolKeeps
  <2>3. CASE \E i \in CallId : Act(i) \/ Finish(i)
    BY <2>0, <2>3, ActKeeps, FinishKeeps
  <2>4. CASE Crash
    BY <2>0, <2>4, CrashKeeps
  <2>5. CASE UNCHANGED vars
    BY <2>0, <2>5, StutterKeeps
  <2>. QED BY <2>1, <2>2, <2>3, <2>4, <2>5 DEF Next
<1>3. ASSUME accidents' = {}
      PROVE  Single'
  <2>1. Tranquil
    BY <1>1, <1>3 DEF Tranquil, Inv, Smooth
  <2>. QED BY <2>1, SingleKeeps
<1>. QED BY <1>1, <1>2, <1>3 DEF Inv, Keeps

LEMMA Invariance == Spec => []Inv
BY InitInv, NextInv, PTL DEF Spec

\* Until something goes otherwise than bot.py counts on, a request takes effect at
\* most once, however often the LLM makes it and wherever workers die.
THEOREM AtMostOneEffect == Spec => []NoDuplicateEffect
<1>1. Inv => NoDuplicateEffect
  BY DEF Inv, Single, NoDuplicateEffect
<1>. QED BY <1>1, Invariance, PTL

\* ... whoever resumes the session finds what has taken effect recorded, tool calls
\* made in parallel or not ...
THEOREM EffectsAreRemembered == Spec => []EffectsRemembered
<1>1. Inv => EffectsRemembered
  <2> SUFFICES ASSUME Inv, Smooth, NEW k \in Key, effects[k] > 0
               PROVE  store # None /\ store[k] # None
    BY DEF EffectsRemembered
  <2>1. store # None
    BY DEF Inv, Remembered, Kept
  <2>. QED BY <2>1 DEF Inv, Remembered, Kept, Faithful
<1>. QED BY <1>1, Invariance, PTL

\* ... and what the connection that holds the session tells the LLM of a request
\* is true.
THEOREM BeliefsAreTrue == Spec => []TrueBeliefs
<1>1. Inv => TrueBeliefs
  <2> SUFFICES ASSUME Inv, Smooth, NEW c \in Conn, NEW k \in Key,
                      conn[c].st = "ready", ~ conn[c].stale, ~ Cleared(c)
               PROVE  LET rec == conn[c].tools.records[k] IN
                      /\ rec # None /\ rec.status = "completed" => effects[k] > 0
                      /\ effects[k] > 0 => rec # None
    BY DEF TrueBeliefs
  <2>1. Faithful(conn[c].tools.records)
    BY DEF Inv, Remembered, Held, Serving
  <2>. QED BY <2>1 DEF Faithful
<1>. QED BY <1>1, Invariance, PTL
=============================================================================
