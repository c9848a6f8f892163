------------------------ MODULE ResilientSessionProofs ------------------------
(***************************************************************************)
(* Proofs about ResilientSession, for any sessions, sockets, async         *)
(* functions, attempts and mishaps, and whatever the application does: its *)
(* types, that there is one connection but for a hurried connect, no dead  *)
(* end but for an exception, a clean end of a call but for the cases that  *)
(* spoil it, and that the credentials in use are those of one session but  *)
(* for the ways the code has of mixing two.                                *)
(***************************************************************************)
EXTENDS ResilientSession, FiniteSetTheorems, TLAPS

Line == [st : {"none", "connecting", "open", "closing"},
         session : Session \cup {None}]

Function == [pc : {"done", "loading", "creating", "persisting", "clearing"},
             then : {"end", "create", "dial"}, key : 1..3, data : Strings]

-----------------------------------------------------------------------------
(* The types. *)

\* Strings that name sessions of the server.
Named(c) == /\ c.id \in minted \cup {None}
            /\ c.sig \in minted \cup {None}
            /\ c.start \in minted \cup {None}

\* What each async function does afterwards.
Sound(t) ==
    /\ job[t].pc = "done" => job[t] = Done
    /\ job[t].pc \in {"loading", "creating"} => job[t].then = "dial"
    /\ job[t].pc = "persisting" => job[t].then \in {"end", "dial"}
    /\ job[t].pc = "clearing" => job[t].then \in {"end", "create"}
    /\ Named(job[t].data)

Placed(w) == IF sock[w].st = "none" THEN sock[w] = Closed
             ELSE sock[w].session \in minted

\* Every session that is in use has been created by the server.
Known ==
    /\ creds # None => creds.id \in minted
    /\ \A w \in Socket : Placed(w)
    /\ current # None => sock[current].st \in {"open", "closing"}
    /\ Named(cached)
    /\ \A t \in Task : Sound(t)

\* TypeOK as the steps below use it.
Typed ==
    /\ creds \in Strings \cup {None}
    /\ status \in {"idle", "creating_session", "connecting", "connected",
                   "reconnecting", "disconnected", "expired", "error"}
    /\ current \in Socket \cup {None}
    /\ attempt \in 0..MaxAttempts
    /\ timer \in BOOLEAN /\ userClosed \in BOOLEAN
    /\ sock \in [Socket -> Line]
    /\ job \in [Task -> Function]
    /\ cached \in Strings
    /\ old \subseteq Session \cup {None}
    /\ minted \subseteq Session

HistoryTyped ==
    /\ creates \in BOOLEAN /\ thrown \in BOOLEAN
    /\ rushed \in BOOLEAN /\ torn \in BOOLEAN
    /\ mishaps \in 0..MaxMishaps
    /\ ending \in {"none", "clean", "hasty", "cut", "failed"}

LEMMA Types == TypeOK <=> Typed /\ HistoryTyped
<1>1. Len(Keys) = 3
  BY DEF Keys
<1>2. Function = [pc : {"done", "loading", "creating", "persisting", "clearing"},
                  then : {"end", "create", "dial"}, key : 1..Len(Keys), data : Strings]
  BY <1>1 DEF Function
<1>3. {creates, timer, userClosed, thrown, rushed, torn} \subseteq BOOLEAN <=>
        /\ timer \in BOOLEAN /\ userClosed \in BOOLEAN /\ creates \in BOOLEAN
        /\ thrown \in BOOLEAN /\ rushed \in BOOLEAN /\ torn \in BOOLEAN
  OBVIOUS
<1>4. job \in [Task -> Function] <=>
        job \in [Task -> [pc : {"done", "loading", "creating", "persisting", "clearing"},
                         then : {"end", "create", "dial"}, key : 1..Len(Keys),
                         data : Strings]]
  BY <1>2
<1>5. sock \in [Socket -> Line] <=>
        sock \in [Socket -> [st : {"none", "connecting", "open", "closing"},
                            session : Session \cup {None}]]
  BY DEF Line
<1>6. TypeOK => Typed /\ HistoryTyped
  BY <1>3, <1>4, <1>5, Zenon DEF TypeOK, Typed, HistoryTyped
<1>7. Typed /\ HistoryTyped => TypeOK
  BY <1>3, <1>4, <1>5, Zenon DEF TypeOK, Typed, HistoryTyped
<1>. QED BY <1>6, <1>7

LEMMA NothingType == Nothing \in Strings /\ Nothing.id = None /\ Nothing.sig = None /\ Nothing.start = None
BY DEF Nothing, Strings

LEMMA OwnType ==
    ASSUME NEW s \in Session
    PROVE  Own(s) \in Strings /\ Own(s) # None /\ Own(s).id = s /\ Own(s).sig = s /\ Own(s).start = s
BY StringsAssumption DEF Own, Strings

LEMMA DoneType ==
    /\ Done \in Function /\ Done.pc = "done" /\ Done.then = "end"
    /\ Done.key = 1 /\ Done.data = Nothing
BY NothingType DEF Done, Function

LEMMA JobType ==
    ASSUME NEW pc \in {"loading", "creating", "persisting", "clearing"},
           NEW then \in {"end", "create", "dial"}, NEW data \in Strings
    PROVE  /\ Job(pc, then, data) \in Function
           /\ Job(pc, then, data).pc = pc /\ Job(pc, then, data).then = then
           /\ Job(pc, then, data).key = 1 /\ Job(pc, then, data).data = data
BY DoneType DEF Job, Function

\* A new object has the credentials it is given, and a persist of them.
LEMMA GivenFacts ==
    ASSUME NEW given \in Session \cup {None}
    PROVE  /\ Given(given) \in Strings \cup {None}
           /\ Given(given) # None => given \in Session /\ Given(given) = Own(given)
           /\ \A t \in Task : \/ Constructor(given)[t] = Done
                            \/ /\ given \in Session
                               /\ Constructor(given)[t].pc = "persisting"
                               /\ Constructor(given)[t].then = "end"
                               /\ Constructor(given)[t].key = 1
                               /\ Constructor(given)[t].data = Own(given)
           /\ \A t, u \in Task :
                Constructor(given)[t] # Done /\ Constructor(given)[u] # Done => t = u
           /\ Constructor(given) \in [Task -> Function]
<1>1. Given(given) \in Strings \cup {None}
  BY OwnType DEF Given
<1>2. Given(given) # None => given \in Session /\ Given(given) = Own(given)
  BY DEF Given
<1>3. \A t \in Task : \/ Constructor(given)[t] = Done
                     \/ /\ t = CHOOSE u \in Task : TRUE
                        /\ given \in Session
                        /\ Constructor(given)[t] = Job("persisting", "end", Own(given))
  BY DEF Constructor
<1>4. given \in Session => /\ Job("persisting", "end", Own(given)) \in Function
                         /\ Job("persisting", "end", Own(given)).pc = "persisting"
                         /\ Job("persisting", "end", Own(given)).then = "end"
                         /\ Job("persisting", "end", Own(given)).key = 1
                         /\ Job("persisting", "end", Own(given)).data = Own(given)
  BY JobType, OwnType
<1>5. Constructor(given) = [t \in Task |-> Constructor(given)[t]]
  BY DEF Constructor
<1>6. \A t \in Task : Constructor(given)[t] \in Function
  BY <1>3, <1>4, DoneType
<1>7. Constructor(given) \in [Task -> Function]
  BY <1>5, <1>6
<1>. QED BY <1>1, <1>2, <1>3, <1>4, <1>7

\* So what it does is sound, once its session counts as created.
LEMMA NewSound ==
    ASSUME NEW given \in Session \cup {None}, job = Constructor(given),
           given # None => given \in minted
    PROVE  \A t \in Task : Sound(t)
BY GivenFacts, OwnType, DoneType, NothingType DEF Sound, Named

LEMMA InitKnown == Init => TypeOK /\ Known
<1> SUFFICES ASSUME Init PROVE TypeOK /\ Known
  OBVIOUS
<1>1. /\ status = "idle" /\ current = None /\ attempt = 0 /\ timer = FALSE
      /\ userClosed = FALSE /\ sock = [w \in Socket |-> Closed] /\ old = {}
  BY DEF Init
<1>2. HistoryTyped
  <2>1. 0 \in 0..MaxMishaps
    BY ClientAssumption
  <2>. QED BY <2>1, Zenon DEF Init, HistoryTyped
<1>3. PICK given \in Session \cup {None}, earlier \in Session \cup {None} :
        /\ creds = Given(given)
        /\ job = Constructor(given)
        /\ cached = IF earlier = None THEN Nothing ELSE Own(earlier)
        /\ minted = {given, earlier} \ {None}
  BY DEF Init
<1>4. Closed \in Line /\ Closed.st = "none"
  BY DEF Closed, Line
<1>5. Named(cached) /\ cached \in Strings
  BY <1>3, NothingType, OwnType DEF Named
<1>6. 0 \in 0..MaxAttempts
  BY ClientAssumption
<1>7. job \in [Task -> Function] /\ \A t \in Task : Sound(t)
  BY <1>3, GivenFacts, NewSound
<1>8. /\ creds \in Strings \cup {None} /\ minted \subseteq Session
      /\ creds # None => creds.id \in minted
  BY <1>3, GivenFacts, OwnType, ClientAssumption
<1>. QED BY <1>1, <1>2, <1>4, <1>5, <1>6, <1>7, <1>8, Types DEF Typed, Known, Placed

\* A step of an async function.
LEMMA StartFacts ==
    ASSUME TypeOK, NEW t \in Task, NEW j \in Function, Start(t, j)
    PROVE  /\ job' \in [Task -> Function] /\ job'[t] = j
           /\ \A u \in Task \ {t} : job'[u] = job[u]
BY Types DEF Typed, Start

\* A socket to session s is created.
Dialled(s) ==
    \E w \in Socket :
        /\ sock[w].st = "none"
        /\ sock' \in [Socket -> Line]
        /\ sock'[w].st = "connecting" /\ sock'[w].session = s
        /\ \A v \in Socket \ {w} : sock'[v] = sock[v]

Statuses == {"idle", "creating_session", "connecting", "connected", "reconnecting",
             "disconnected", "expired", "error"}

\* A handshake has begun for c, or an exception has been thrown.
Handshake(c, st) ==
    \/ c # None /\ Dialled(c.id) /\ status' = st /\ thrown' = FALSE
    \/ UNCHANGED sock /\ status' \in {st, "error"} /\ thrown' = TRUE

LEMMA DialFacts ==
    ASSUME TypeOK, NEW c \in Strings \cup {None}, NEW again \in BOOLEAN, Dial(c, again)
    PROVE  Handshake(c, IF again THEN "reconnecting" ELSE "connecting")
<1>. DEFINE st == IF again THEN "reconnecting" ELSE "connecting"
<1>1. CASE thrown' = TRUE /\ UNCHANGED sock /\ status' \in {st, "error"}
  BY <1>1 DEF Handshake
<1>2. ASSUME c # None, status' = st, thrown' = FALSE, NEW w \in Socket, sock[w] = Closed,
             sock' = [sock EXCEPT ![w] = [st |-> "connecting", session |-> c.id]]
      PROVE  Handshake(c, st)
  <2>1. [st |-> "connecting", session |-> c.id] \in Line
    BY <1>2 DEF Line, Strings
  <2>2. sock \in [Socket -> Line]
    BY Types DEF Typed
  <2>3. /\ sock' \in [Socket -> Line]
        /\ sock'[w] = [st |-> "connecting", session |-> c.id]
        /\ \A v \in Socket \ {w} : sock'[v] = sock[v]
    BY <1>2, <2>1, <2>2
  <2>4. sock[w].st = "none"
    BY <1>2 DEF Closed
  <2>. QED BY <1>2, <2>3, <2>4 DEF Handshake, Dialled
<1>3. \/ thrown' = TRUE /\ UNCHANGED sock /\ status' \in {st, "error"}
      \/ /\ c # None /\ status' = st /\ thrown' = FALSE
         /\ \E w \in Socket :
                /\ sock[w] = Closed
                /\ sock' = [sock EXCEPT ![w] = [st |-> "connecting", session |-> c.id]]
  BY DEF Dial
<1>. QED BY <1>1, <1>2, <1>3

\* How a connect goes on that has come to the credentials c.
GoesOn(t, c) ==
    /\ job' \in [Task -> Function]
    /\ \A u \in Task \ {t} : job'[u] = job[u]
    /\ \/ /\ c # None
          /\ job'[t].pc = "clearing" /\ job'[t].then = "create"
          /\ job'[t].key = 1 /\ job'[t].data = Nothing
          /\ UNCHANGED <<status, sock, thrown>>
       \/ job'[t] = Done /\ Handshake(c, "connecting")
       \/ /\ c = None /\ job'[t] = Done
          /\ UNCHANGED sock /\ thrown' = TRUE /\ status' \in {status, "expired"}
       \/ /\ c = None
          /\ job'[t].pc = "creating" /\ job'[t].then = "dial"
          /\ job'[t].key = 1 /\ job'[t].data = Nothing
          /\ status' = "creating_session" /\ UNCHANGED <<sock, thrown>>

LEMMA ProceedFacts ==
    ASSUME TypeOK, NEW t \in Task, NEW c \in Strings \cup {None},
           NEW st \in {status, "expired"}, Proceed(t, c, st)
    PROVE  GoesOn(t, c)
<1>1. CASE c # None /\ Start(t, Done) /\ Dial(c, FALSE)
  <2>1. Handshake(c, "connecting")
    BY <1>1, DialFacts
  <2>. QED BY <1>1, <2>1, StartFacts, DoneType DEF GoesOn
<1>2. CASE /\ c = None /\ Start(t, Job("creating", "dial", Nothing))
           /\ status' = "creating_session" /\ UNCHANGED <<sock, thrown>>
  BY <1>2, StartFacts, JobType, NothingType DEF GoesOn
<1>3. CASE c = None /\ Start(t, Done) /\ status' = st /\ thrown' = TRUE /\ UNCHANGED sock
  BY <1>3, StartFacts, DoneType DEF GoesOn
<1>. QED BY <1>1, <1>2, <1>3 DEF Proceed

LEMMA CheckFacts ==
    ASSUME TypeOK, NEW t \in Task, NEW c \in Strings \cup {None}, NEW expired \in BOOLEAN,
           CheckCredentials(t, c, expired)
    PROVE  GoesOn(t, c)
<1>1. CASE c # None /\ Start(t, Job("clearing", "create", Nothing))
           /\ UNCHANGED <<status, sock, thrown>>
  BY <1>1, StartFacts, JobType, NothingType DEF GoesOn
<1>2. CASE Proceed(t, c, status)
  BY <1>2, ProceedFacts
<1>. QED BY <1>1, <1>2 DEF CheckCredentials

\* A key of three strings is set.
LEMMA KeyFacts ==
    ASSUME TypeOK, NEW t \in Task, NEW c \in Strings, NEW v \in Session \cup {None}
    PROVE  /\ [c EXCEPT ![KeyOf(t)] = v] \in Strings
           /\ [c EXCEPT ![KeyOf(t)] = v].id = IF job[t].key = 1 THEN v ELSE c.id
           /\ [c EXCEPT ![KeyOf(t)] = v].sig = IF job[t].key = 2 THEN v ELSE c.sig
           /\ [c EXCEPT ![KeyOf(t)] = v].start = IF job[t].key = 3 THEN v ELSE c.start
           /\ c[KeyOf(t)] = IF job[t].key = 1 THEN c.id
                            ELSE IF job[t].key = 2 THEN c.sig ELSE c.start
           /\ c[KeyOf(t)] \in Session \cup {None}
<1>1. job[t].key \in 1..3
  BY Types DEF Typed, Function
<1>2. CASE job[t].key = 1
  <2>1. KeyOf(t) = "id"
    BY <1>2 DEF KeyOf, Keys
  <2>. QED BY <1>2, <2>1 DEF Strings
<1>3. CASE job[t].key = 2
  <2>1. KeyOf(t) = "sig"
    BY <1>3 DEF KeyOf, Keys
  <2>. QED BY <1>3, <2>1 DEF Strings
<1>4. CASE job[t].key = 3
  <2>1. KeyOf(t) = "start"
    BY <1>4 DEF KeyOf, Keys
  <2>. QED BY <1>4, <2>1 DEF Strings
<1>. QED BY <1>1, <1>2, <1>3, <1>4

LEMMA NextKeyFacts ==
    ASSUME TypeOK, NEW t \in Task, job[t].key < 3
    PROVE  /\ NextKey(t) \in Function
           /\ NextKey(t).pc = job[t].pc /\ NextKey(t).then = job[t].then
           /\ NextKey(t).key = job[t].key + 1 /\ NextKey(t).data = job[t].data
<1>1. job[t] \in Function
  BY Types DEF Typed, Statuses
<1>. QED BY <1>1 DEF NextKey, Function

LEMMA DialledPlaces ==
    ASSUME TypeOK, Known, NEW s \in minted, Dialled(s), minted' = minted
    PROVE  /\ sock' \in [Socket -> Line] /\ \A w \in Socket : Placed(w)'
           /\ current # None => sock'[current] = sock[current]
<1>1. sock' \in [Socket -> Line] /\ \A w \in Socket : Placed(w)'
  BY DEF Dialled, Known, Placed
<1>2. current \in Socket \cup {None}
  BY Types DEF Typed, Statuses
<1>. QED BY <1>1, <1>2 DEF Dialled, Known

\* The other functions stay as sound as they were.
LEMMA StaySound ==
    ASSUME Known, NEW t \in Task, Sound(t)', minted \subseteq minted',
           \A u \in Task \ {t} : job'[u] = job[u]
    PROVE  \A u \in Task : Sound(u)'
BY DEF Known, Sound, Named

LEMMA HandshakePlaces ==
    ASSUME TypeOK, Known, NEW c \in Strings \cup {None}, NEW st \in Statuses,
           c # None => c.id \in minted, Handshake(c, st), minted' = minted
    PROVE  /\ sock' \in [Socket -> Line] /\ \A w \in Socket : Placed(w)'
           /\ current # None => sock'[current] = sock[current]
           /\ status' \in Statuses
<1>1. CASE UNCHANGED sock /\ status' \in {st, "error"}
  BY <1>1, Types DEF Typed, Known, Placed, Statuses
<1>2. CASE c # None /\ Dialled(c.id) /\ status' = st
  BY <1>2, DialledPlaces
<1>. QED BY <1>1, <1>2 DEF Handshake

LEMMA GoesOnKnown ==
    ASSUME TypeOK, Known, NEW t \in Task, NEW c \in Strings \cup {None},
           c # None => c.id \in minted, GoesOn(t, c), minted' = minted
    PROVE  /\ sock' \in [Socket -> Line] /\ \A w \in Socket : Placed(w)'
           /\ current # None => sock'[current] = sock[current]
           /\ status' \in Statuses
           /\ job' \in [Task -> Function] /\ \A u \in Task : Sound(u)'
<1>1. job' \in [Task -> Function] /\ \A u \in Task \ {t} : job'[u] = job[u]
  BY DEF GoesOn
<1>2. Sound(t)'
  BY NothingType, DoneType DEF GoesOn, Sound, Named
<1>3. /\ sock' \in [Socket -> Line] /\ \A w \in Socket : Placed(w)'
      /\ current # None => sock'[current] = sock[current]
      /\ status' \in Statuses
  <2>1. CASE UNCHANGED sock /\ status' \in {status, "expired", "creating_session"}
    BY <2>1, Types DEF Typed, Known, Placed, Statuses
  <2>2. CASE Handshake(c, "connecting")
    BY <2>2, HandshakePlaces DEF Statuses
  <2>. QED BY <2>1, <2>2 DEF GoesOn
<1>4. \A u \in Task : Sound(u)'
  BY <1>1, <1>2, StaySound
<1>. QED BY <1>1, <1>3, <1>4

\* this.socket is closed, if there is one.
LEMMA SocketCloses ==
    ASSUME TypeOK, Known, minted' = minted,
           sock' = IF current = None THEN sock ELSE [sock EXCEPT ![current].st = "closing"]
    PROVE  /\ sock' \in [Socket -> Line] /\ \A w \in Socket : Placed(w)'
           /\ current # None => sock'[current].st = "closing"
<1>1. sock \in [Socket -> Line] /\ current \in Socket \cup {None}
  BY Types DEF Typed, Statuses
<1>2. CASE current = None
  BY <1>1, <1>2 DEF Known, Placed
<1>3. CASE current # None
  <2>1. current \in Socket /\ sock' = [sock EXCEPT ![current].st = "closing"]
    BY <1>1, <1>3
  <2>2. [sock[current] EXCEPT !.st = "closing"] \in Line
    BY <1>1, <2>1 DEF Line
  <2>3. sock' \in [Socket -> Line]
    BY <1>1, <2>1, <2>2
  <2>4. /\ \A w \in Socket \ {current} : sock'[w] = sock[w]
        /\ sock'[current].st = "closing" /\ sock'[current].session = sock[current].session
    BY <1>1, <2>1 DEF Line
  <2>5. sock[current].session \in minted
    BY <1>3, <2>1 DEF Known, Placed
  <2>. QED BY <2>3, <2>4, <2>5 DEF Known, Placed
<1>. QED BY <1>2, <1>3

\* A function is started that touches no data of its own.
LEMMA JobStarts ==
    ASSUME TypeOK, Known, minted' = minted, NEW t \in Task,
           NEW pc \in {"loading", "creating", "clearing"}, NEW then \in {"end", "create", "dial"},
           pc \in {"loading", "creating"} => then = "dial",
           pc = "clearing" => then \in {"end", "create"},
           Start(t, Job(pc, then, Nothing))
    PROVE  job' \in [Task -> Function] /\ \A u \in Task : Sound(u)'
<1>1. /\ Job(pc, then, Nothing) \in Function
      /\ Job(pc, then, Nothing).pc = pc /\ Job(pc, then, Nothing).then = then
      /\ Job(pc, then, Nothing).data = Nothing
  BY JobType, NothingType
<1>2. /\ job' \in [Task -> Function] /\ job'[t] = Job(pc, then, Nothing)
      /\ \A u \in Task \ {t} : job'[u] = job[u]
  BY <1>1, StartFacts
<1>3. Sound(t)'
  BY <1>1, <1>2, NothingType DEF Sound, Named
<1>. QED BY <1>2, <1>3, StaySound

\* A function returns.
LEMMA JobEnds ==
    ASSUME TypeOK, Known, minted' = minted, NEW t \in Task, Start(t, Done)
    PROVE  job' \in [Task -> Function] /\ \A u \in Task : Sound(u)'
<1>1. /\ job' \in [Task -> Function] /\ job'[t] = Done
      /\ \A u \in Task \ {t} : job'[u] = job[u]
  BY DoneType, StartFacts
<1>2. Sound(t)'
  BY <1>1, DoneType, NothingType DEF Sound, Named
<1>. QED BY <1>1, <1>2, StaySound

\* No function starts, proceeds or returns.
LEMMA JobsStay ==
    ASSUME TypeOK, Known, minted \subseteq minted', UNCHANGED job
    PROVE  job' \in [Task -> Function] /\ \A u \in Task : Sound(u)'
<1>1. job' \in [Task -> Function]
  BY Types DEF Typed, Statuses
<1>. QED BY <1>1 DEF Known, Sound, Named

-----------------------------------------------------------------------------
(* Each step keeps the types. *)

LEMMA ConnectKnown ==
    ASSUME TypeOK, Known, NEW t \in Task, Connect(t)
    PROVE  Typed' /\ Known'
<1>1. /\ UNCHANGED <<creds, current, attempt, cached, old, minted>>
      /\ userClosed' = FALSE /\ timer' = FALSE
  BY DEF Connect, env
<1>2. /\ sock' \in [Socket -> Line] /\ \A w \in Socket : Placed(w)'
      /\ current # None => sock'[current] = sock[current]
      /\ status' \in Statuses
      /\ job' \in [Task -> Function] /\ \A u \in Task : Sound(u)'
  <2>1. CASE creds = None
    <3>1. Start(t, Job("loading", "dial", Nothing)) /\ UNCHANGED <<status, sock>>
      BY <2>1 DEF Connect
    <3>2. job' \in [Task -> Function] /\ \A u \in Task : Sound(u)'
      BY <1>1, <3>1, JobStarts
    <3>. QED BY <1>1, <3>1, <3>2, Types DEF Typed, Known, Placed, Statuses
  <2>2. CASE creds # None
    <3>1. CheckCredentials(t, creds, Expired(creds)) /\ Expired(creds) \in BOOLEAN
      BY <2>2 DEF Connect, Expired
    <3>2. creds \in Strings \cup {None} /\ (creds # None => creds.id \in minted)
      BY Types DEF Typed, Known
    <3>. QED BY <1>1, <3>1, <3>2, CheckFacts, GoesOnKnown
  <2>. QED BY <2>1, <2>2
<1>3. Typed'
  BY <1>1, <1>2, Types DEF Typed, Statuses
<1>4. Known'
  BY <1>1, <1>2 DEF Known, Named
<1>. QED BY <1>3, <1>4

LEMMA DisconnectKnown ==
    ASSUME TypeOK, Known, NEW t \in Task, NEW purge \in BOOLEAN, Disconnect(t, purge)
    PROVE  Typed' /\ Known'
<1>1. /\ UNCHANGED <<creds, attempt, cached, old, minted>>
      /\ userClosed' = TRUE /\ timer' = FALSE /\ current' = None
      /\ status' = "disconnected"
  BY DEF Disconnect, env
<1>2. sock' \in [Socket -> Line] /\ \A w \in Socket : Placed(w)'
  BY <1>1, SocketCloses DEF Disconnect
<1>3. job' \in [Task -> Function] /\ \A u \in Task : Sound(u)'
  BY <1>1, JobStarts, JobsStay DEF Disconnect
<1>4. Typed'
  BY <1>1, <1>2, <1>3, Types DEF Typed, Statuses
<1>5. Known'
  BY <1>1, <1>2, <1>3 DEF Known, Named
<1>. QED BY <1>4, <1>5

LEMMA SimulateKnown ==
    ASSUME TypeOK, Known, SimulateDisconnect
    PROVE  Typed' /\ Known'
<1>1. /\ UNCHANGED <<creds, status, current, attempt, timer, job, cached, old, minted>>
      /\ userClosed' = FALSE
  BY DEF SimulateDisconnect, env, hist
<1>2. /\ sock' \in [Socket -> Line] /\ \A w \in Socket : Placed(w)'
      /\ current # None => sock'[current].st \in {"open", "closing"}
  <2>1. CASE UNCHANGED sock
    BY <1>1, <2>1, Types DEF Typed, Known, Placed
  <2>2. CASE current # None /\ sock' = [sock EXCEPT ![current].st = "closing"]
    BY <1>1, <2>2, SocketCloses
  <2>. QED BY <2>1, <2>2 DEF SimulateDisconnect
<1>3. job' \in [Task -> Function] /\ \A u \in Task : Sound(u)'
  BY <1>1, JobsStay
<1>4. Typed'
  BY <1>1, <1>2, <1>3, Types DEF Typed, Statuses
<1>5. Known'
  BY <1>1, <1>2, <1>3 DEF Known, Named
<1>. QED BY <1>4, <1>5

\* What connect goes on with after loading.
Loaded(c) == IF None \in {c.id, c.sig} THEN None ELSE c

LEMMA GetItemFacts ==
    ASSUME TypeOK, Known, NEW t \in Task, GetItem(t),
           NEW got, got = [job[t].data EXCEPT ![KeyOf(t)] = cached[KeyOf(t)]]
    PROVE  /\ got \in Strings /\ Named(got)
           /\ got.id = IF job[t].key = 1 THEN cached.id ELSE job[t].data.id
           /\ got.sig = IF job[t].key = 2 THEN cached.sig ELSE job[t].data.sig
           /\ got.start = IF job[t].key = 3 THEN cached.start ELSE job[t].data.start
           /\ job[t].key \in 1..3
           /\ \/ /\ job[t].key < 3
                 /\ Start(t, [NextKey(t) EXCEPT !.data = got])
                 /\ [NextKey(t) EXCEPT !.data = got] \in Function
                 /\ [NextKey(t) EXCEPT !.data = got].pc = "loading"
                 /\ [NextKey(t) EXCEPT !.data = got].then = job[t].then
                 /\ [NextKey(t) EXCEPT !.data = got].key = job[t].key + 1
                 /\ [NextKey(t) EXCEPT !.data = got].data = got
                 /\ UNCHANGED <<creds, status, sock, old, thrown>>
              \/ /\ job[t].key = 3
                 /\ creds' = Loaded(got) /\ old' = old \ {None}
                 /\ CheckCredentials(t, Loaded(got), got.start \in old \ {None})
<1>1. job[t] \in Function /\ cached \in Strings
  BY Types DEF Typed, Statuses
<1>2. job[t].data \in Strings /\ job[t].key \in 1..3 /\ job[t].pc = "loading"
  BY <1>1 DEF Function, GetItem
<1>3. cached[KeyOf(t)] \in Session \cup {None}
      /\ cached[KeyOf(t)] = IF job[t].key = 1 THEN cached.id
                            ELSE IF job[t].key = 2 THEN cached.sig ELSE cached.start
  BY <1>1, KeyFacts
<1>4. /\ got \in Strings
      /\ got.id = IF job[t].key = 1 THEN cached.id ELSE job[t].data.id
      /\ got.sig = IF job[t].key = 2 THEN cached.sig ELSE job[t].data.sig
      /\ got.start = IF job[t].key = 3 THEN cached.start ELSE job[t].data.start
  BY <1>2, <1>3, KeyFacts
<1>5. Named(got)
  BY <1>4 DEF Known, Sound, Named
<1>6. Len(Keys) = 3
  BY DEF Keys
<1>7. CASE job[t].key < 3
  <2>1. Start(t, [NextKey(t) EXCEPT !.data = got]) /\ UNCHANGED <<creds, status, sock, old, thrown>>
    BY <1>6, <1>7 DEF GetItem
  <2>2. /\ NextKey(t) \in Function /\ NextKey(t).pc = "loading"
        /\ NextKey(t).then = job[t].then /\ NextKey(t).key = job[t].key + 1
    BY <1>2, <1>7, NextKeyFacts
  <2>3. /\ [NextKey(t) EXCEPT !.data = got] \in Function
        /\ [NextKey(t) EXCEPT !.data = got].pc = "loading"
        /\ [NextKey(t) EXCEPT !.data = got].then = job[t].then
        /\ [NextKey(t) EXCEPT !.data = got].key = job[t].key + 1
        /\ [NextKey(t) EXCEPT !.data = got].data = got
    BY <1>4, <2>2 DEF Function
  <2>. QED BY <1>2, <1>4, <1>5, <1>7, <2>1, <2>3
<1>8. CASE job[t].key = 3
  <2>1. /\ creds' = Loaded(got) /\ old' = old \ {None}
        /\ CheckCredentials(t, Loaded(got), got.start \in old \ {None})
    BY <1>6, <1>8 DEF GetItem, Loaded
  <2>. QED BY <1>2, <1>4, <1>5, <1>8, <2>1
<1>. QED BY <1>2, <1>7, <1>8

LEMMA GetItemKnown ==
    ASSUME TypeOK, Known, NEW t \in Task, GetItem(t)
    PROVE  Typed' /\ Known'
<1>1. /\ UNCHANGED <<current, attempt, timer, userClosed, cached, minted>>
      /\ job[t].pc = "loading"
  BY DEF GetItem, hist
<1>. DEFINE got == [job[t].data EXCEPT ![KeyOf(t)] = cached[KeyOf(t)]]
<1>2. /\ got \in Strings /\ Named(got)
      /\ \/ /\ job[t].key < 3
            /\ Start(t, [NextKey(t) EXCEPT !.data = got])
            /\ [NextKey(t) EXCEPT !.data = got] \in Function
            /\ [NextKey(t) EXCEPT !.data = got].pc = "loading"
            /\ [NextKey(t) EXCEPT !.data = got].then = job[t].then
            /\ [NextKey(t) EXCEPT !.data = got].data = got
            /\ UNCHANGED <<creds, status, sock, old, thrown>>
         \/ /\ creds' = Loaded(got) /\ old' = old \ {None}
            /\ CheckCredentials(t, Loaded(got), got.start \in old \ {None})
  BY GetItemFacts
<1>. HIDE DEF got
<1>. DEFINE next == [NextKey(t) EXCEPT !.data = got]
<1>3. CASE /\ Start(t, next) /\ next \in Function /\ next.pc = "loading"
           /\ next.then = job[t].then /\ next.data = got
           /\ UNCHANGED <<creds, status, sock, old, thrown>>
  <2>. HIDE DEF next
  <2>1. /\ job' \in [Task -> Function] /\ job'[t] = next
        /\ \A u \in Task \ {t} : job'[u] = job[u]
    BY <1>3, StartFacts
  <2>2. Sound(t)'
    BY <1>1, <1>2, <1>3, <2>1 DEF Known, Sound, Named
  <2>3. \A u \in Task : Sound(u)'
    BY <1>1, <2>1, <2>2, StaySound
  <2>4. Typed'
    BY <1>1, <1>3, <2>1, Types DEF Typed
  <2>5. Known'
    BY <1>1, <1>3, <2>3 DEF Known, Placed, Named
  <2>. QED BY <2>4, <2>5
<1>4. CASE /\ creds' = Loaded(got) /\ old' = old \ {None}
           /\ CheckCredentials(t, Loaded(got), got.start \in old \ {None})
  <2>1. /\ Loaded(got) \in Strings \cup {None}
        /\ Loaded(got) # None => Loaded(got).id \in minted
    BY <1>2 DEF Loaded, Named
  <2>2. (got.start \in old \ {None}) \in BOOLEAN
    OBVIOUS
  <2>3. /\ sock' \in [Socket -> Line] /\ \A w \in Socket : Placed(w)'
        /\ current # None => sock'[current] = sock[current]
        /\ status' \in Statuses
        /\ job' \in [Task -> Function] /\ \A u \in Task : Sound(u)'
    BY <1>1, <1>4, <2>1, <2>2, CheckFacts, GoesOnKnown
  <2>4. Typed'
    BY <1>1, <1>4, <2>1, <2>3, Types DEF Typed, Statuses
  <2>5. Known'
    BY <1>1, <1>4, <2>1, <2>3 DEF Known, Named
  <2>. QED BY <2>4, <2>5
<1>. QED BY <1>2, <1>3, <1>4

\* connect goes on to the handshake with whatever is in memory, or nothing happens.
LEMMA HandshakeKnown ==
    ASSUME TypeOK, Known, NEW again \in BOOLEAN, minted' = minted,
           Dial(creds, again) \/ UNCHANGED <<status, sock>>
    PROVE  /\ sock' \in [Socket -> Line] /\ \A w \in Socket : Placed(w)'
           /\ current # None => sock'[current] = sock[current]
           /\ status' \in Statuses
<1>1. creds \in Strings \cup {None} /\ (creds # None => creds.id \in minted)
  BY Types DEF Typed, Known
<1>2. CASE UNCHANGED <<status, sock>>
  BY <1>2, Types DEF Typed, Known, Placed, Statuses
<1>3. CASE Dial(creds, again)
  <2>1. (IF again THEN "reconnecting" ELSE "connecting") \in Statuses
    BY DEF Statuses
  <2>2. Handshake(creds, IF again THEN "reconnecting" ELSE "connecting")
    BY <1>1, <1>3, DialFacts
  <2>. QED BY <1>1, <2>1, <2>2, HandshakePlaces
<1>. QED BY <1>2, <1>3

\* A key of the adapter is set to a session's name, or removed.
LEMMA StoreKnown ==
    ASSUME TypeOK, Known, NEW t \in Task, minted' = minted,
           NEW v \in minted \cup {None}, NEW lands \in BOOLEAN, Store(t, v, lands)
    PROVE  /\ cached' \in Strings /\ Named(cached)'
           /\ cached'.id = IF lands /\ job[t].key = 1 THEN v ELSE cached.id
           /\ cached'.sig = IF lands /\ job[t].key = 2 THEN v ELSE cached.sig
           /\ cached'.start = IF lands /\ job[t].key = 3 THEN v ELSE cached.start
<1>1. cached \in Strings /\ v \in Session \cup {None}
  BY Types DEF Typed, Statuses
<1>2. CASE ~ lands
  BY <1>1, <1>2 DEF Store, Known, Named
<1>3. CASE lands
  <2>1. cached' = [cached EXCEPT ![KeyOf(t)] = v]
    BY <1>3 DEF Store
  <2>2. /\ cached' \in Strings
        /\ cached'.id = IF job[t].key = 1 THEN v ELSE cached.id
        /\ cached'.sig = IF job[t].key = 2 THEN v ELSE cached.sig
        /\ cached'.start = IF job[t].key = 3 THEN v ELSE cached.start
    BY <1>1, <2>1, KeyFacts
  <2>. QED BY <1>1, <1>3, <2>1, <2>2 DEF Known, Named
<1>. QED BY <1>2, <1>3

\* The next key's turn.
LEMMA NextKeyKnown ==
    ASSUME TypeOK, Known, NEW t \in Task, job[t].key < 3, minted' = minted,
           Start(t, NextKey(t)), job[t].pc \in {"persisting", "clearing"}
    PROVE  job' \in [Task -> Function] /\ \A u \in Task : Sound(u)'
<1>1. /\ NextKey(t) \in Function
      /\ NextKey(t).pc = job[t].pc /\ NextKey(t).then = job[t].then
      /\ NextKey(t).data = job[t].data
  BY NextKeyFacts
<1>2. /\ job' \in [Task -> Function] /\ job'[t] = NextKey(t)
      /\ \A u \in Task \ {t} : job'[u] = job[u]
  BY <1>1, StartFacts
<1>3. Sound(t)'
  BY <1>1, <1>2 DEF Known, Sound, Named
<1>. QED BY <1>2, <1>3, StaySound

LEMMA SetItemKnown ==
    ASSUME TypeOK, Known, NEW t \in Task, NEW lands \in BOOLEAN, SetItem(t, lands)
    PROVE  Typed' /\ Known'
<1>1. /\ UNCHANGED <<creds, current, attempt, timer, userClosed, old, minted>>
      /\ job[t].pc = "persisting" /\ Store(t, job[t].data[KeyOf(t)], lands)
  BY DEF SetItem, env
<1>2. job[t] \in Function /\ job[t].data \in Strings /\ job[t].key \in 1..3
  BY Types DEF Typed, Function
<1>3. job[t].data[KeyOf(t)] \in minted \cup {None}
  <2>1. job[t].data[KeyOf(t)] = IF job[t].key = 1 THEN job[t].data.id
                                ELSE IF job[t].key = 2 THEN job[t].data.sig
                                ELSE job[t].data.start
    BY <1>2, KeyFacts
  <2>. QED BY <2>1 DEF Known, Sound, Named
<1>4. cached' \in Strings /\ Named(cached)'
  BY <1>1, <1>3, StoreKnown
<1>5. Len(Keys) = 3
  BY DEF Keys
<1>6. /\ sock' \in [Socket -> Line] /\ \A w \in Socket : Placed(w)'
      /\ current # None => sock'[current] = sock[current]
      /\ status' \in Statuses
  <2>1. Dial(creds, FALSE) \/ UNCHANGED <<status, sock>>
    BY DEF SetItem
  <2>. QED BY <1>1, <2>1, HandshakeKnown
<1>7. job' \in [Task -> Function] /\ \A u \in Task : Sound(u)'
  <2>1. \/ job[t].key < 3 /\ Start(t, NextKey(t))
        \/ Start(t, Done)
    BY <1>5 DEF SetItem
  <2>. QED BY <1>1, <2>1, NextKeyKnown, JobEnds
<1>8. Typed'
  BY <1>1, <1>4, <1>6, <1>7, Types DEF Typed, Statuses
<1>9. Known'
  BY <1>1, <1>4, <1>6, <1>7 DEF Known
<1>. QED BY <1>8, <1>9

LEMMA RemoveItemKnown ==
    ASSUME TypeOK, Known, NEW t \in Task, NEW lands \in BOOLEAN, RemoveItem(t, lands)
    PROVE  Typed' /\ Known'
<1>1. /\ UNCHANGED <<current, attempt, timer, userClosed, old, minted>>
      /\ job[t].pc = "clearing" /\ Store(t, None, lands)
  BY DEF RemoveItem, env
<1>2. cached' \in Strings /\ Named(cached)'
  BY <1>1, StoreKnown
<1>3. Len(Keys) = 3
  BY DEF Keys
<1>4. /\ creds' \in {creds, None}
      /\ sock' \in [Socket -> Line] /\ \A w \in Socket : Placed(w)'
      /\ current # None => sock'[current] = sock[current]
      /\ status' \in Statuses
      /\ job' \in [Task -> Function] /\ \A u \in Task : Sound(u)'
  <2>1. CASE /\ UNCHANGED <<status, sock>> /\ creds' \in {creds, None}
             /\ (job[t].key < 3 /\ Start(t, NextKey(t))) \/ Start(t, Done)
    <3>1. job' \in [Task -> Function] /\ \A u \in Task : Sound(u)'
      BY <1>1, <2>1, NextKeyKnown, JobEnds
    <3>. QED BY <1>1, <2>1, <3>1, Types DEF Typed, Known, Placed, Statuses
  <2>2. CASE creds' = None /\ Proceed(t, None, "expired")
    <3>1. GoesOn(t, None)
      BY <2>2, ProceedFacts
    <3>. QED BY <1>1, <2>2, <3>1, GoesOnKnown
  <2>. QED BY <1>3, <2>1, <2>2 DEF RemoveItem
<1>6. Typed'
  BY <1>1, <1>2, <1>4, Types DEF Typed, Statuses
<1>7. Known'
  BY <1>1, <1>2, <1>4 DEF Known, Placed
<1>. QED BY <1>6, <1>7

LEMMA StorageFailsKnown ==
    ASSUME TypeOK, Known, NEW t \in Task, StorageFails(t)
    PROVE  Typed' /\ Known'
<1>1. UNCHANGED <<current, attempt, timer, userClosed, cached, old, minted>>
  BY DEF StorageFails, env
<1>2. creds \in Strings \cup {None} /\ (creds # None => creds.id \in minted)
  BY Types DEF Typed, Known
<1>3. /\ creds' \in {creds, None}
      /\ sock' \in [Socket -> Line] /\ \A w \in Socket : Placed(w)'
      /\ current # None => sock'[current] = sock[current]
      /\ status' \in Statuses
      /\ job' \in [Task -> Function] /\ \A u \in Task : Sound(u)'
  <2>1. CASE creds' = None /\ CheckCredentials(t, None, FALSE)
    <3>1. GoesOn(t, None)
      BY <2>1, CheckFacts
    <3>. QED BY <1>1, <2>1, <3>1, GoesOnKnown
  <2>2. CASE creds' = creds /\ Proceed(t, creds, "expired")
    <3>1. GoesOn(t, creds)
      BY <1>2, <2>2, ProceedFacts
    <3>. QED BY <1>1, <1>2, <2>2, <3>1, GoesOnKnown
  <2>3. CASE /\ creds' = creds /\ Start(t, Done)
             /\ Dial(creds, FALSE) \/ UNCHANGED <<status, sock>>
    BY <1>1, <2>3, HandshakeKnown, JobEnds
  <2>. QED BY <2>1, <2>2, <2>3 DEF StorageFails
<1>4. Typed'
  BY <1>1, <1>3, Types DEF Typed, Statuses
<1>5. Known'
  BY <1>1, <1>2, <1>3 DEF Known, Named
<1>. QED BY <1>4, <1>5

LEMMA CreatedKnown ==
    ASSUME TypeOK, Known, NEW t \in Task, Created(t)
    PROVE  Typed' /\ Known'
<1>1. /\ UNCHANGED <<status, current, attempt, timer, userClosed, sock, cached, old>>
      /\ job[t].pc = "creating"
  BY DEF Created, hist
<1>2. PICK s \in Session \ minted :
        /\ minted' = minted \cup {s} /\ creds' = Own(s)
        /\ Start(t, Job("persisting", "dial", Own(s)))
  BY DEF Created
<1>3. /\ Job("persisting", "dial", Own(s)) \in Function
      /\ Job("persisting", "dial", Own(s)).pc = "persisting"
      /\ Job("persisting", "dial", Own(s)).then = "dial"
      /\ Job("persisting", "dial", Own(s)).data = Own(s)
  BY JobType, OwnType
<1>4. /\ job' \in [Task -> Function] /\ job'[t] = Job("persisting", "dial", Own(s))
      /\ \A u \in Task \ {t} : job'[u] = job[u]
  BY <1>2, <1>3, StartFacts
<1>5. Sound(t)'
  BY <1>2, <1>3, <1>4, OwnType DEF Sound, Named
<1>6. \A u \in Task : Sound(u)'
  BY <1>2, <1>4, <1>5, StaySound
<1>7. Typed'
  BY <1>1, <1>2, <1>4, OwnType, Types DEF Typed, Statuses
<1>8. Known'
  BY <1>1, <1>2, <1>6, OwnType DEF Known, Placed, Named
<1>. QED BY <1>7, <1>8

LEMMA CreateFailsKnown ==
    ASSUME TypeOK, Known, NEW t \in Task, CreateFails(t)
    PROVE  Typed' /\ Known'
<1>1. /\ UNCHANGED <<creds, current, attempt, timer, userClosed, sock, cached, old, minted>>
      /\ status' = "error" /\ Start(t, Done)
  BY DEF CreateFails, env, hist
<1>2. job' \in [Task -> Function] /\ \A u \in Task : Sound(u)'
  BY <1>1, JobEnds
<1>3. Typed'
  BY <1>1, <1>2, Types DEF Typed, Statuses
<1>4. Known'
  BY <1>1, <1>2 DEF Known, Placed, Named
<1>. QED BY <1>3, <1>4

LEMMA OnOpenKnown ==
    ASSUME TypeOK, Known, NEW w \in Socket, OnOpen(w)
    PROVE  Typed' /\ Known'
<1>1. /\ UNCHANGED <<creds, timer, userClosed, job, cached, old, minted>>
      /\ sock[w].st = "connecting" /\ sock' = [sock EXCEPT ![w].st = "open"]
      /\ current' = w /\ attempt' = 0 /\ status' = "connected"
  BY DEF OnOpen, env
<1>2. sock \in [Socket -> Line] /\ 0 \in 0..MaxAttempts
  BY Types, ClientAssumption DEF Typed
<1>3. [sock[w] EXCEPT !.st = "open"] \in Line
  BY <1>2 DEF Line
<1>4. sock' \in [Socket -> Line] /\ \A v \in Socket \ {w} : sock'[v] = sock[v]
  BY <1>1, <1>2, <1>3
<1>5. sock'[w].st = "open" /\ sock'[w].session = sock[w].session
  BY <1>1, <1>2 DEF Line
<1>6. sock[w].session \in minted
  BY <1>1 DEF Known, Placed
<1>7. \A v \in Socket : Placed(v)'
  BY <1>1, <1>4, <1>5, <1>6 DEF Known, Placed
<1>8. job' \in [Task -> Function] /\ \A u \in Task : Sound(u)'
  BY <1>1, JobsStay
<1>9. Typed'
  BY <1>1, <1>2, <1>4, <1>6, <1>8, Types DEF Typed, Statuses
<1>10. Known'
  BY <1>1, <1>5, <1>7, <1>8 DEF Known, Named
<1>. QED BY <1>9, <1>10

LEMMA OnCloseKnown ==
    ASSUME TypeOK, Known, NEW w \in Socket, NEW clean \in BOOLEAN, OnClose(w, clean)
    PROVE  Typed' /\ Known'
<1>1. /\ UNCHANGED <<creds, userClosed, cached, old, minted>>
      /\ sock' = [sock EXCEPT ![w] = Closed] /\ current' = None
  BY DEF OnClose, env, hist
<1>2. sock \in [Socket -> Line] /\ Closed \in Line /\ Closed.st = "none"
  BY Types DEF Typed, Line, Closed
<1>3. sock' \in [Socket -> Line] /\ \A v \in Socket : Placed(v)'
  BY <1>1, <1>2 DEF Known, Placed
<1>4. /\ status' \in {"disconnected", "expired", "reconnecting"}
      /\ attempt' \in 0..MaxAttempts /\ timer' \in BOOLEAN
      /\ job' \in [Task -> Function] /\ \A u \in Task : Sound(u)'
  <2>1. attempt \in 0..MaxAttempts /\ timer \in BOOLEAN /\ MaxAttempts \in Nat
    BY Types, ClientAssumption DEF Typed
  <2>2. CASE status' = "disconnected" /\ UNCHANGED <<attempt, timer, job>>
    BY <1>1, <2>1, <2>2, JobsStay
  <2>3. ASSUME NEW t \in Task, Start(t, Job("clearing", "end", Nothing)),
               status' = "expired", UNCHANGED <<attempt, timer>>
        PROVE  /\ status' \in {"disconnected", "expired", "reconnecting"}
               /\ attempt' \in 0..MaxAttempts /\ timer' \in BOOLEAN
               /\ job' \in [Task -> Function] /\ \A u \in Task : Sound(u)'
    BY <1>1, <2>1, <2>3, JobStarts
  <2>4. CASE AutoReconnect /\ UNCHANGED job
    <3>1. job' \in [Task -> Function] /\ \A u \in Task : Sound(u)'
      BY <1>1, <2>4, JobsStay
    <3>2. CASE attempt >= MaxAttempts /\ status' = "disconnected" /\ UNCHANGED <<attempt, timer>>
      BY <2>1, <3>1, <3>2
    <3>3. CASE ~ (attempt >= MaxAttempts) /\ attempt' = attempt + 1
               /\ status' = "reconnecting" /\ timer' = TRUE
      BY <2>1, <3>1, <3>3
    <3>. QED BY <2>4, <3>2, <3>3, Zenon DEF AutoReconnect
  <2>. QED BY <2>2, <2>3, <2>4 DEF OnClose
<1>5. Typed'
  BY <1>1, <1>3, <1>4, Types DEF Typed, Statuses
<1>6. Known'
  BY <1>1, <1>3, <1>4 DEF Known, Named
<1>. QED BY <1>5, <1>6

LEMMA FireTimerKnown ==
    ASSUME TypeOK, Known, FireTimer
    PROVE  Typed' /\ Known'
<1>1. /\ UNCHANGED <<creds, current, attempt, userClosed, job, cached, old, minted>>
      /\ timer' = FALSE
      /\ Dial(creds, TRUE) \/ UNCHANGED <<status, sock>>
  BY DEF FireTimer, env, hist
<1>2. /\ sock' \in [Socket -> Line] /\ \A w \in Socket : Placed(w)'
      /\ current # None => sock'[current] = sock[current]
      /\ status' \in Statuses
      /\ job' \in [Task -> Function] /\ \A u \in Task : Sound(u)'
  BY <1>1, HandshakeKnown, JobsStay
<1>3. Typed'
  BY <1>1, <1>2, Types DEF Typed, Statuses
<1>4. Known'
  BY <1>1, <1>2 DEF Known, Named
<1>. QED BY <1>3, <1>4

LEMMA ExpireKnown ==
    ASSUME TypeOK, Known, Expire
    PROVE  Typed' /\ Known'
<1>1. /\ UNCHANGED <<creds, status, current, attempt, timer, userClosed, sock, job, cached,
                     minted>>
      /\ \E s \in minted \cup {None} : old' = old \cup {s}
  BY DEF Expire, client, hist
<1>2. Typed'
  BY <1>1, Types DEF Typed, Statuses
<1>3. Known'
  BY <1>1 DEF Known, Placed, Named, Sound
<1>. QED BY <1>2, <1>3

LEMMA ReloadKnown ==
    ASSUME TypeOK, Known, Reload
    PROVE  Typed' /\ Known'
<1>1. PICK given \in Session \cup {None} :
        /\ creds' = Given(given) /\ job' = Constructor(given)
        /\ minted' = minted \cup ({given} \ {None})
  BY DEF Reload
<1>2. /\ UNCHANGED <<cached, old>> /\ status' = "idle" /\ current' = None
      /\ attempt' = 0 /\ timer' = FALSE /\ userClosed' = FALSE
      /\ sock' = [w \in Socket |-> Closed]
  BY DEF Reload
<1>3. Closed \in Line /\ Closed.st = "none"
  BY DEF Line, Closed
<1>4. sock' \in [Socket -> Line] /\ \A w \in Socket : Placed(w)'
  BY <1>2, <1>3 DEF Placed
<1>5. job' \in [Task -> Function] /\ \A t \in Task : Sound(t)'
  <2>1. given # None => given \in minted'
    BY <1>1
  <2>2. \A t \in Task : \/ job'[t] = Done
                       \/ /\ given \in Session
                          /\ job'[t].pc = "persisting" /\ job'[t].then = "end"
                          /\ job'[t].key = 1 /\ job'[t].data = Own(given)
    BY <1>1, GivenFacts
  <2>3. \A t \in Task : Sound(t)'
    BY <2>1, <2>2, ClientAssumption, OwnType, DoneType, NothingType DEF Sound, Named
  <2>. QED BY <1>1, <2>3, GivenFacts
<1>6. 0 \in 0..MaxAttempts
  BY ClientAssumption
<1>7. /\ creds' \in Strings \cup {None} /\ minted' \subseteq Session
      /\ creds' # None => creds'.id \in minted'
  BY <1>1, GivenFacts, OwnType, ClientAssumption, Types DEF Typed
<1>8. Typed'
  BY <1>1, <1>2, <1>4, <1>5, <1>6, <1>7, Types DEF Typed
<1>9. Known'
  BY <1>1, <1>2, <1>4, <1>5, <1>7 DEF Known, Named
<1>. QED BY <1>8, <1>9

\* What is remembered of the past keeps its type, too.
LEMMA HistoryKnown ==
    ASSUME TypeOK, [Next]_vars
    PROVE  HistoryTyped'
<1>1. HistoryTyped
  BY Types
<1>2. /\ creates' = creates
      /\ mishaps' = mishaps \/ (mishaps < MaxMishaps /\ mishaps' = mishaps + 1)
  BY DEF Next, vars, hist, env, Connect, Disconnect, SimulateDisconnect, GetItem, SetItem,
         RemoveItem, StorageFails, Created, CreateFails, OnOpen, OnClose, FireTimer, Expire,
         Reload, Mishap
<1>3. mishaps' \in 0..MaxMishaps
  BY <1>1, <1>2, ClientAssumption DEF HistoryTyped
<1>4. rushed' \in BOOLEAN /\ torn' \in BOOLEAN
  BY <1>1 DEF HistoryTyped, Next, vars, hist, Connect, Disconnect, SimulateDisconnect, GetItem,
         SetItem, RemoveItem, StorageFails, Created, CreateFails, OnOpen, OnClose, FireTimer,
         Expire, Reload
<1>5. ending' \in {ending, "none", "clean", "hasty", "cut", "failed"}
  BY DEF Next, vars, hist, Connect, Disconnect, SimulateDisconnect, GetItem, SetItem,
         RemoveItem, StorageFails, Created, CreateFails, OnOpen, OnClose, FireTimer, Expire,
         Reload, Store, EndingAfter
<1>6. thrown' \in {thrown, TRUE, FALSE}
  <2>1. ASSUME NEW c, NEW again, Dial(c, again)
        PROVE  thrown' \in {TRUE, FALSE}
    BY <2>1 DEF Dial
  <2>2. ASSUME NEW t, NEW c, NEW st, Proceed(t, c, st)
        PROVE  thrown' \in {thrown, TRUE, FALSE}
    BY <2>1, <2>2 DEF Proceed
  <2>3. ASSUME NEW t, NEW c, NEW expired, CheckCredentials(t, c, expired)
        PROVE  thrown' \in {thrown, TRUE, FALSE}
    BY <2>2, <2>3 DEF CheckCredentials
  <2>4. ASSUME AutoReconnect
        PROVE  thrown' \in {thrown, TRUE, FALSE}
    BY <2>4, Zenon DEF AutoReconnect
  <2>5. ASSUME NEW t, \/ Connect(t) \/ GetItem(t) \/ StorageFails(t)
        PROVE  thrown' \in {thrown, TRUE, FALSE}
    BY <2>1, <2>2, <2>3, <2>5 DEF Connect, GetItem, StorageFails
  <2>6. ASSUME NEW t, NEW lands, SetItem(t, lands) \/ RemoveItem(t, lands)
        PROVE  thrown' \in {thrown, TRUE, FALSE}
    BY <2>1, <2>2, <2>6 DEF SetItem, RemoveItem
  <2>7. ASSUME NEW w, NEW clean, OnClose(w, clean)
        PROVE  thrown' \in {thrown, TRUE, FALSE}
    BY <2>4, <2>7 DEF OnClose
  <2>8. ASSUME FireTimer
        PROVE  thrown' \in {thrown, TRUE, FALSE}
    BY <2>1, <2>8 DEF FireTimer
  <2>9. ASSUME \/ SimulateDisconnect \/ Expire \/ Reload \/ UNCHANGED vars
               \/ \E t : \/ \E purge : Disconnect(t, purge)
                        \/ Created(t) \/ CreateFails(t)
               \/ \E w : OnOpen(w)
        PROVE  thrown' \in {thrown, TRUE, FALSE}
    BY <2>9 DEF SimulateDisconnect, Expire, Reload, vars, hist, Disconnect, Created,
                CreateFails, OnOpen
  <2>. QED BY <2>5, <2>6, <2>7, <2>8, <2>9, Zenon DEF Next
<1>. QED BY <1>1, <1>2, <1>3, <1>4, <1>5, <1>6 DEF HistoryTyped

LEMMA NextKnown ==
    ASSUME TypeOK, Known, [Next]_vars
    PROVE  TypeOK' /\ Known'
<1>1. Typed' /\ Known'
  <2>1. CASE UNCHANGED vars
    <3>1. Typed'
      BY <2>1, Types DEF Typed, vars, client, env, hist
    <3>2. Known'
      BY <2>1 DEF Known, Placed, Named, Sound, vars, client, env, hist
    <3>. QED BY <3>1, <3>2
  <2>2. CASE Next
    BY <2>2, ConnectKnown, DisconnectKnown, GetItemKnown, StorageFailsKnown, SetItemKnown,
       RemoveItemKnown, CreatedKnown, CreateFailsKnown, SimulateKnown, OnOpenKnown,
       OnCloseKnown, FireTimerKnown, ExpireKnown, ReloadKnown DEF Next
  <2>. QED BY <2>1, <2>2
<1>2. Typed' /\ HistoryTyped' => TypeOK'
  BY Types, PTL
<1>. QED BY <1>1, <1>2, HistoryKnown

\* Every session that is used, stored or connected to was created by the server, and
\* the fields have the values the code tests for, whatever the application does.
THEOREM ClientTypeCorrect == Spec => []TypeOK
<1>. DEFINE I == TypeOK /\ Known
<1>1. Init => I
  BY InitKnown
<1>2. I /\ [Next]_vars => I'
  BY NextKnown
<1>. QED BY <1>1, <1>2, PTL DEF Spec

-----------------------------------------------------------------------------
(* What a step of an async function does to the rest.                        *)

\* Such a step leaves the sockets and the status alone, or connect goes on to the
\* handshake, or session creation has failed.  Only a connect finds credentials.
TaskStep(t) ==
    /\ UNCHANGED <<timer, current, attempt, userClosed, rushed>>
    /\ job' \in [Task -> Function] /\ \A u \in Task \ {t} : job'[u] = job[u]
    /\ ~ InConnect(t) => creds' \in {creds, None}
    /\ \/ UNCHANGED <<status, sock, thrown>> /\ (InConnect(t)' <=> InConnect(t))
       \/ InConnect(t) /\ GoesOn(t, creds')
       \/ InConnect(t) /\ ~ InConnect(t)' /\ status' = "error" /\ UNCHANGED sock

LEMMA GetItemStep ==
    ASSUME TypeOK, Known, NEW t \in Task, GetItem(t)
    PROVE  TaskStep(t)
<1>1. /\ UNCHANGED <<timer, current, attempt, userClosed, rushed>>
      /\ job[t].pc = "loading"
  BY DEF GetItem
<1>2. InConnect(t)
  BY <1>1 DEF InConnect, Known, Sound
<1>. DEFINE got == [job[t].data EXCEPT ![KeyOf(t)] = cached[KeyOf(t)]]
            next == [NextKey(t) EXCEPT !.data = got]
<1>3. /\ got \in Strings
      /\ \/ /\ Start(t, next) /\ next \in Function
            /\ next.then = job[t].then
            /\ UNCHANGED <<creds, status, sock, old, thrown>>
         \/ /\ creds' = Loaded(got) /\ old' = old \ {None}
            /\ CheckCredentials(t, Loaded(got), got.start \in old \ {None})
  BY GetItemFacts
<1>. HIDE DEF got, next
<1>4. CASE /\ Start(t, next) /\ next \in Function /\ next.then = job[t].then
           /\ UNCHANGED <<creds, status, sock, old, thrown>>
  <2>1. /\ job' \in [Task -> Function] /\ job'[t] = next
        /\ \A u \in Task \ {t} : job'[u] = job[u]
    BY <1>4, StartFacts
  <2>. QED BY <1>1, <1>2, <1>4, <2>1 DEF TaskStep, InConnect
<1>5. CASE /\ creds' = Loaded(got)
           /\ CheckCredentials(t, Loaded(got), got.start \in old \ {None})
  <2>1. GoesOn(t, Loaded(got))
    <3>1. Loaded(got) \in Strings \cup {None} /\ (got.start \in old \ {None}) \in BOOLEAN
      BY <1>3 DEF Loaded
    <3>. QED BY <1>5, <3>1, CheckFacts
  <2>2. job' \in [Task -> Function] /\ \A u \in Task \ {t} : job'[u] = job[u]
    BY <2>1 DEF GoesOn
  <2>. QED BY <1>1, <1>2, <1>5, <2>1, <2>2 DEF TaskStep
<1>. QED BY <1>3, <1>4, <1>5

\* The end of an async function, with the handshake where connect awaits it.
LEMMA EndStep ==
    ASSUME TypeOK, Known, NEW t \in Task, Start(t, Done), UNCHANGED creds,
           UNCHANGED <<timer, current, attempt, userClosed, rushed>>,
           IF job[t].then = "dial" THEN Dial(creds, FALSE) ELSE UNCHANGED <<status, sock, thrown>>,
           job[t].then # "create"
    PROVE  TaskStep(t)
<1>1. /\ job' \in [Task -> Function] /\ job'[t] = Done /\ Done.then = "end"
      /\ \A u \in Task \ {t} : job'[u] = job[u]
  BY StartFacts, DoneType
<1>2. creds \in Strings \cup {None} /\ job[t].then \in {"end", "create", "dial"}
  BY Types DEF Typed, Function
<1>3. CASE job[t].then = "dial"
  <2>1. Handshake(creds, "connecting")
    BY <1>2, <1>3, DialFacts
  <2>2. GoesOn(t, creds')
    BY <1>1, <2>1 DEF GoesOn
  <2>. QED BY <1>1, <1>3, <2>2 DEF TaskStep, InConnect
<1>4. CASE job[t].then # "dial"
  BY <1>1, <1>2, <1>4 DEF TaskStep, InConnect
<1>. QED BY <1>3, <1>4

\* An async function has gone on to its next key.
LEMMA NextKeyStep ==
    ASSUME TypeOK, NEW t \in Task, Start(t, NextKey(t)), job[t].key < 3, UNCHANGED creds,
           UNCHANGED <<timer, current, attempt, userClosed, rushed, status, sock, thrown>>
    PROVE  TaskStep(t)
<1>1. NextKey(t) \in Function /\ NextKey(t).then = job[t].then
  BY NextKeyFacts
<1>2. /\ job' \in [Task -> Function] /\ job'[t] = NextKey(t)
      /\ \A u \in Task \ {t} : job'[u] = job[u]
  BY <1>1, StartFacts
<1>. QED BY <1>1, <1>2 DEF TaskStep, InConnect

\* The job with key i + 1 is the last.
LEMMA LastKey ==
    ASSUME TypeOK, NEW t \in Task
    PROVE  Len(Keys) = 3 /\ job[t].key \in 1..3
BY Types DEF Keys, Typed, Function

LEMMA SetItemStep ==
    ASSUME TypeOK, Known, NEW t \in Task, NEW lands \in BOOLEAN, SetItem(t, lands)
    PROVE  TaskStep(t)
<1>1. /\ UNCHANGED <<creds, timer, current, attempt, userClosed, rushed>>
      /\ job[t].then # "create"
  BY DEF SetItem, Known, Sound
<1>2. CASE /\ job[t].key < 3 /\ Start(t, NextKey(t)) /\ UNCHANGED <<status, sock, thrown>>
  BY <1>1, <1>2, NextKeyStep
<1>3. CASE /\ Start(t, Done)
           /\ IF job[t].then = "dial" THEN Dial(creds, FALSE)
              ELSE UNCHANGED <<status, sock, thrown>>
  BY <1>1, <1>3, EndStep
<1>. QED BY <1>2, <1>3, LastKey DEF SetItem

LEMMA RemoveItemStep ==
    ASSUME TypeOK, Known, NEW t \in Task, NEW lands \in BOOLEAN, RemoveItem(t, lands)
    PROVE  TaskStep(t)
<1>1. /\ UNCHANGED <<timer, current, attempt, userClosed, rushed>>
      /\ job[t].then \in {"end", "create"}
  BY DEF RemoveItem, Known, Sound
<1>2. CASE /\ job[t].key < 3 /\ Start(t, NextKey(t))
           /\ UNCHANGED <<creds, status, sock, thrown>>
  BY <1>1, <1>2, NextKeyStep
<1>3. CASE creds' = None /\ job[t].then = "create" /\ Proceed(t, None, "expired")
  <2>1. GoesOn(t, creds')
    BY <1>3, ProceedFacts
  <2>2. job' \in [Task -> Function] /\ \A u \in Task \ {t} : job'[u] = job[u]
    BY <2>1 DEF GoesOn
  <2>. QED BY <1>1, <1>3, <2>1, <2>2 DEF TaskStep, InConnect
<1>4. CASE /\ creds' = None /\ job[t].then # "create" /\ Start(t, Done)
           /\ UNCHANGED <<status, sock, thrown>>
  <2>1. /\ job' \in [Task -> Function] /\ job'[t] = Done /\ Done.then = "end"
        /\ \A u \in Task \ {t} : job'[u] = job[u]
    BY <1>4, StartFacts, DoneType
  <2>. QED BY <1>1, <1>4, <2>1 DEF TaskStep, InConnect
<1>. QED BY <1>2, <1>3, <1>4, LastKey DEF RemoveItem

LEMMA StorageFailsStep ==
    ASSUME TypeOK, Known, NEW t \in Task, StorageFails(t)
    PROVE  TaskStep(t)
<1>1. UNCHANGED <<timer, current, attempt, userClosed, rushed>>
  BY DEF StorageFails
<1>2. creds \in Strings \cup {None}
  BY Types DEF Typed
<1>3. CASE job[t].pc = "loading" /\ creds' = None /\ CheckCredentials(t, None, FALSE)
  <2>1. GoesOn(t, creds')
    BY <1>3, CheckFacts
  <2>2. job' \in [Task -> Function] /\ \A u \in Task \ {t} : job'[u] = job[u]
    BY <2>1 DEF GoesOn
  <2>3. InConnect(t)
    BY <1>3 DEF Known, Sound, InConnect
  <2>. QED BY <1>1, <1>3, <2>1, <2>2, <2>3 DEF TaskStep
<1>4. CASE job[t].then = "create" /\ creds' = creds /\ Proceed(t, creds, "expired")
  <2>1. GoesOn(t, creds')
    BY <1>2, <1>4, ProceedFacts
  <2>2. job' \in [Task -> Function] /\ \A u \in Task \ {t} : job'[u] = job[u]
    BY <2>1 DEF GoesOn
  <2>. QED BY <1>1, <1>4, <2>1, <2>2 DEF TaskStep, InConnect
<1>5. CASE /\ job[t].then # "create" /\ creds' = creds /\ Start(t, Done)
           /\ IF job[t].then = "dial" THEN Dial(creds, FALSE)
              ELSE UNCHANGED <<status, sock, thrown>>
  BY <1>1, <1>5, EndStep
<1>. QED BY <1>3, <1>4, <1>5 DEF StorageFails

LEMMA CreateStep ==
    ASSUME TypeOK, Known, NEW t \in Task, Created(t) \/ CreateFails(t)
    PROVE  TaskStep(t)
<1>1. /\ UNCHANGED <<timer, current, attempt, userClosed, rushed>>
      /\ job[t].pc = "creating" /\ job[t].then = "dial"
  BY DEF Created, CreateFails, hist, Known, Sound
<1>2. CASE Created(t)
  <2>1. PICK s \in Session : Start(t, Job("persisting", "dial", Own(s)))
    BY <1>2 DEF Created
  <2>2. /\ job' \in [Task -> Function] /\ job'[t].then = "dial"
        /\ \A u \in Task \ {t} : job'[u] = job[u]
    BY <2>1, StartFacts, JobType, OwnType
  <2>3. UNCHANGED <<status, sock, thrown>>
    BY <1>2 DEF Created, hist
  <2>. QED BY <1>1, <2>2, <2>3 DEF TaskStep, InConnect
<1>3. CASE CreateFails(t)
  <2>1. /\ job' \in [Task -> Function] /\ job'[t] = Done /\ Done.then = "end"
        /\ \A u \in Task \ {t} : job'[u] = job[u]
        /\ status' = "error" /\ UNCHANGED sock
    BY <1>3, StartFacts, DoneType DEF CreateFails
  <2>. QED BY <1>1, <2>1 DEF TaskStep, InConnect
<1>. QED BY <1>2, <1>3

\* The steps of the async functions, and all the others.
LEMMA NextSteps ==
    ASSUME TypeOK, Known, Next
    PROVE  \/ \E t \in Task : TaskStep(t)
           \/ \E t \in Task : Connect(t)
           \/ \E t \in Task, purge \in BOOLEAN : Disconnect(t, purge)
           \/ SimulateDisconnect
           \/ \E w \in Socket : OnOpen(w)
           \/ \E w \in Socket, clean \in BOOLEAN : OnClose(w, clean)
           \/ FireTimer
           \/ Expire
           \/ Reload
BY GetItemStep, SetItemStep, RemoveItemStep, StorageFailsStep, CreateStep DEF Next

\* connect begins: it loads, or it goes on with the credentials it has.
LEMMA ConnectFacts ==
    ASSUME TypeOK, NEW t \in Task, Connect(t)
    PROVE  /\ timer' = FALSE /\ userClosed' = FALSE
           /\ UNCHANGED <<creds, current, attempt, cached>>
           /\ job[t] = Done
           /\ job' \in [Task -> Function] /\ \A u \in Task \ {t} : job'[u] = job[u]
           /\ \/ /\ creds = None
                 /\ job'[t].pc = "loading" /\ job'[t].then = "dial"
                 /\ job'[t].key = 1 /\ job'[t].data = Nothing
                 /\ UNCHANGED <<status, sock, thrown>>
              \/ creds # None /\ GoesOn(t, creds') /\ (Expired(creds) \/ job'[t] = Done)
<1>1. /\ timer' = FALSE /\ userClosed' = FALSE
      /\ UNCHANGED <<creds, current, attempt, cached>>
      /\ job[t] = Done
  BY DEF Connect, Free
<1>2. CASE creds = None
  <2>1. Start(t, Job("loading", "dial", Nothing)) /\ UNCHANGED <<status, sock, thrown>>
    BY <1>2 DEF Connect
  <2>. QED BY <1>1, <1>2, <2>1, StartFacts, JobType, NothingType
<1>3. CASE creds # None
  <2>1. CheckCredentials(t, creds, Expired(creds)) /\ Expired(creds) \in BOOLEAN
    BY <1>3 DEF Connect, Expired
  <2>2. GoesOn(t, creds)
    <3>1. creds \in Strings \cup {None}
      BY Types DEF Typed
    <3>. QED BY <2>1, <3>1, CheckFacts
  <2>3. Expired(creds) \/ job'[t] = Done
    <3>1. ~ Expired(creds) => Start(t, Done)
      BY <1>3, <2>1 DEF CheckCredentials, Proceed
    <3>. QED BY <2>1, <3>1, StartFacts, DoneType
  <2>4. job' \in [Task -> Function] /\ \A u \in Task \ {t} : job'[u] = job[u]
    BY <2>2 DEF GoesOn
  <2>. QED BY <1>1, <1>3, <2>2, <2>3, <2>4
<1>. QED BY <1>2, <1>3

\* The sockets after disconnect and simulateDisconnect: at most this.socket is closing.
LEMMA ClosingFacts ==
    ASSUME TypeOK, Known,
           \/ UNCHANGED sock
           \/ current # None /\ sock' = [sock EXCEPT ![current].st = "closing"]
    PROVE  /\ \A w \in Socket :
                /\ sock'[w].session = sock[w].session
                /\ sock'[w].st = sock[w].st \/ (w = current /\ sock'[w].st = "closing")
           /\ current # None => sock[current].st \in {"open", "closing"}
<1>1. sock \in [Socket -> Line] /\ current \in Socket \cup {None}
  BY Types DEF Typed
<1>2. current # None => sock[current].st \in {"open", "closing"}
  BY DEF Known
<1>3. CASE UNCHANGED sock
  BY <1>2, <1>3
<1>4. CASE current # None /\ sock' = [sock EXCEPT ![current].st = "closing"]
  <2>1. \A w \in Socket \ {current} : sock'[w] = sock[w]
    BY <1>1, <1>4
  <2>2. sock'[current].st = "closing" /\ sock'[current].session = sock[current].session
    BY <1>1, <1>4 DEF Line
  <2>. QED BY <1>1, <1>2, <2>1, <2>2
<1>. QED BY <1>3, <1>4

-----------------------------------------------------------------------------
(* "reconnecting" is no dead end.                                            *)

\* The timer never waits for a session that the user has closed, so when it fires it
\* dials; and "reconnecting" has something to end it.
Trying ==
    /\ timer => ~ userClosed
    /\ NeverStranded

LEMMA HandshakeTries ==
    ASSUME NEW c, NEW st, Handshake(c, st)
    PROVE  thrown' \/ Connecting' # {}
BY DEF Handshake, Dialled, Connecting

LEMMA NextTrying ==
    ASSUME TypeOK, Known, Trying, [Next]_vars
    PROVE  Trying'
<1>1. CASE UNCHANGED vars
  BY <1>1 DEF Trying, NeverStranded, Connecting, InConnect, vars, client, hist
<1>2. ASSUME NEW t \in Task, TaskStep(t)
      PROVE  Trying'
  <2>1. timer' = timer /\ userClosed' = userClosed
    BY <1>2 DEF TaskStep
  <2>2. CASE UNCHANGED <<status, sock, thrown>> /\ (InConnect(t)' <=> InConnect(t))
    <3>1. \A u \in Task : InConnect(u)' <=> InConnect(u)
      BY <1>2, <2>2 DEF TaskStep, InConnect
    <3>. QED BY <2>1, <2>2, <3>1 DEF Trying, NeverStranded, Connecting
  <2>3. CASE GoesOn(t, creds')
    <3>1. CASE job'[t].then = "create" \/ job'[t].then = "dial"
      BY <2>1, <3>1 DEF Trying, NeverStranded, InConnect
    <3>2. CASE Handshake(creds', "connecting") \/ thrown' = TRUE
      BY <2>1, <3>2 DEF Handshake, Trying, NeverStranded
    <3>. QED BY <2>3, <3>1, <3>2 DEF GoesOn
  <2>4. CASE status' = "error"
    BY <2>1, <2>4 DEF Trying, NeverStranded
  <2>. QED BY <1>2, <2>2, <2>3, <2>4 DEF TaskStep
<1>3. ASSUME NEW t \in Task, Connect(t)
      PROVE  Trying'
  <2>1. timer' = FALSE
    BY <1>3, ConnectFacts
  <2>2. \/ job'[t].then # "end"
        \/ thrown' = TRUE
        \/ status' # "reconnecting"
    BY <1>3, ConnectFacts DEF GoesOn, Handshake
  <2>. QED BY <2>1, <2>2 DEF Trying, NeverStranded, InConnect
<1>4. ASSUME NEW t \in Task, NEW purge \in BOOLEAN, Disconnect(t, purge)
      PROVE  Trying'
  BY <1>4 DEF Disconnect, Trying, NeverStranded
<1>5. CASE SimulateDisconnect
  <2>1. /\ UNCHANGED <<status, timer, job, thrown>> /\ userClosed' = FALSE
        /\ \/ UNCHANGED sock
           \/ current # None /\ sock' = [sock EXCEPT ![current].st = "closing"]
    BY <1>5 DEF SimulateDisconnect
  <2>2. \A w \in Connecting : w \in Connecting'
    BY <2>1, ClosingFacts DEF Connecting
  <2>. QED BY <2>1, <2>2 DEF Trying, NeverStranded, InConnect
<1>6. ASSUME NEW w \in Socket, OnOpen(w)
      PROVE  Trying'
  BY <1>6 DEF OnOpen, Trying, NeverStranded
<1>7. ASSUME NEW w \in Socket, NEW clean \in BOOLEAN, OnClose(w, clean)
      PROVE  Trying'
  <2>1. userClosed' = userClosed
    BY <1>7 DEF OnClose
  <2>2. \/ status' \in {"disconnected", "expired"} /\ timer' = timer
        \/ ~ userClosed /\ timer' = TRUE
    <3>1. AutoReconnect => \/ status' = "disconnected" /\ timer' = timer
                          \/ timer' = TRUE
      BY Zenon DEF AutoReconnect
    <3>. QED BY <1>7, <3>1 DEF OnClose
  <2>. QED BY <2>1, <2>2 DEF Trying, NeverStranded
<1>8. CASE FireTimer
  <2>1. timer /\ timer' = FALSE /\ userClosed' = userClosed
    BY <1>8 DEF FireTimer
  <2>2. Dial(creds, TRUE)
    BY <1>8, <2>1 DEF FireTimer, Trying
  <2>3. Handshake(creds, "reconnecting")
    <3>1. creds \in Strings \cup {None}
      BY Types DEF Typed
    <3>. QED BY <2>2, <3>1, DialFacts
  <2>. QED BY <2>1, <2>3, HandshakeTries DEF Trying, NeverStranded
<1>9. CASE Expire
  BY <1>9 DEF Expire, client, hist, Trying, NeverStranded, Connecting, InConnect
<1>10. CASE Reload
  BY <1>10 DEF Reload, Trying, NeverStranded
<1>. QED BY <1>1, <1>2, <1>3, <1>4, <1>5, <1>6, <1>7, <1>8, <1>9, <1>10, NextSteps

\* Whatever the application does, the timer, a handshake, a connect or else an exception
\* follows "reconnecting": the retries end without another word only where the code throws.
THEOREM NoDeadEnd == Spec => []NeverStranded
<1>. DEFINE I == TypeOK /\ Known /\ Trying
<1>1. Init => I
  <2>1. Init => Trying
    BY DEF Init, Trying, NeverStranded
  <2>. QED BY <2>1, InitKnown
<1>2. I /\ [Next]_vars => I'
  BY NextKnown, NextTrying
<1>3. I => NeverStranded
  BY DEF Trying
<1>. QED BY <1>1, <1>2, <1>3, PTL DEF Spec

-----------------------------------------------------------------------------
(* One connection, unless connect was hurried.                               *)

Live(w) == sock[w].st # "none"

\* One thing at a time: a socket, a connect or a timer; the socket serves the session of
\* the credentials.
Alone ==
    /\ \A v, w \in Socket : Live(v) /\ Live(w) => v = w
    /\ \A t, u \in Task : InConnect(t) /\ InConnect(u) => t = u
    /\ \A w \in Socket, t \in Task : ~ (Live(w) /\ InConnect(t))
    /\ timer => /\ \A w \in Socket : ~ Live(w)
                /\ \A t \in Task : ~ InConnect(t)
    /\ status = "connected" => current # None
    /\ \A w \in Socket : sock[w].st \in {"connecting", "open"} =>
                          creds = None \/ sock[w].session = creds.id

Net == ~ rushed => Alone

\* With nothing in progress but connect's t, what t goes on to is alone, too.
LEMMA GoesOnAlone ==
    ASSUME TypeOK, NEW t \in Task, GoesOn(t, creds'), current' = current, ~ timer',
           \A w \in Socket : ~ Live(w), \A u \in Task \ {t} : ~ InConnect(u),
           status = "connected" => current # None
    PROVE  Alone'
<1>1. \A u \in Task \ {t} : ~ InConnect(u)'
  BY DEF GoesOn, InConnect
<1>2. status' = "connected" => current' # None
  BY DEF GoesOn, Handshake
<1>3. CASE UNCHANGED sock
  BY <1>1, <1>2, <1>3 DEF Alone, Live
<1>4. CASE job'[t] = Done /\ creds' # None /\ Dialled(creds'.id)
  <2>1. ~ InConnect(t)'
    BY <1>4, DoneType DEF InConnect
  <2>2. PICK w \in Socket :
          /\ sock'[w].st = "connecting" /\ sock'[w].session = creds'.id
          /\ \A v \in Socket \ {w} : sock'[v] = sock[v]
    BY <1>4 DEF Dialled
  <2>3. \A v \in Socket : Live(v)' <=> v = w
    BY <2>2 DEF Live
  <2>4. \A v \in Socket : sock'[v].st \in {"connecting", "open"} => v = w
    BY <2>3 DEF Live
  <2>. QED BY <1>1, <1>2, <2>1, <2>2, <2>3, <2>4 DEF Alone
<1>. QED BY <1>3, <1>4 DEF GoesOn, Handshake

LEMMA NextNet ==
    ASSUME TypeOK, Known, Net, [Next]_vars
    PROVE  Net'
<1>. SUFFICES ASSUME ~ rushed' PROVE Alone'
  BY DEF Net
<1>1. CASE UNCHANGED vars
  BY <1>1 DEF Net, Alone, Live, InConnect, vars, client, hist
<1>2. ASSUME NEW t \in Task, TaskStep(t)
      PROVE  Alone'
  <2>1. /\ Alone /\ UNCHANGED <<timer, current>>
        /\ \A u \in Task \ {t} : job'[u] = job[u]
    BY <1>2 DEF TaskStep, Net
  <2>2. CASE UNCHANGED <<status, sock>> /\ (InConnect(t)' <=> InConnect(t))
    <3>1. \A u \in Task : InConnect(u)' <=> InConnect(u)
      BY <2>1, <2>2 DEF InConnect
    <3>2. \A w \in Socket : sock[w].st \in {"connecting", "open"} => creds' \in {creds, None}
      BY <1>2, <2>1 DEF TaskStep, Alone, Live
    <3>. QED BY <2>1, <2>2, <3>1, <3>2 DEF Alone, Live
  <2>3. CASE InConnect(t) /\ GoesOn(t, creds')
    <3>1. /\ \A w \in Socket : ~ Live(w)
          /\ \A u \in Task \ {t} : ~ InConnect(u)
          /\ ~ timer /\ (status = "connected" => current # None)
      BY <2>1, <2>3, Types DEF Alone, Typed
    <3>. QED BY <2>1, <2>3, <3>1, GoesOnAlone
  <2>4. CASE InConnect(t) /\ ~ InConnect(t)' /\ status' = "error" /\ UNCHANGED sock
    <3>1. \A u \in Task : ~ InConnect(u)'
      BY <2>1, <2>4 DEF Alone, InConnect
    <3>2. \A w \in Socket : ~ Live(w)'
      BY <2>1, <2>4 DEF Alone, Live
    <3>3. ~ timer'
      BY <2>1, <2>4 DEF Alone
    <3>. QED BY <2>4, <3>1, <3>2, <3>3 DEF Alone, Live
  <2>. QED BY <1>2, <2>2, <2>3, <2>4 DEF TaskStep
<1>3. ASSUME NEW t \in Task, Connect(t)
      PROVE  Alone'
  <2>1. ~ rushed /\ Connecting \cup Open \cup Closing = {} /\ \A u \in Task : ~ InConnect(u)
    BY <1>3 DEF Connect
  <2>2. \A w \in Socket : ~ Live(w)
    <3>1. sock \in [Socket -> Line]
      BY Types DEF Typed
    <3>. QED BY <2>1, <3>1 DEF Connecting, Open, Closing, Live, Line
  <2>3. timer' = FALSE /\ current' = current /\ (status = "connected" => current # None)
    BY <1>3, <2>1, ConnectFacts DEF Net, Alone
  <2>4. CASE GoesOn(t, creds')
    BY <2>1, <2>2, <2>3, <2>4, GoesOnAlone
  <2>5. CASE /\ \A u \in Task \ {t} : job'[u] = job[u]
             /\ UNCHANGED <<status, sock, thrown>>
    BY <2>1, <2>2, <2>3, <2>5 DEF Alone, Live, InConnect
  <2>. QED BY <1>3, <2>4, <2>5, ConnectFacts
<1>4. ASSUME NEW t \in Task, NEW purge \in BOOLEAN, Disconnect(t, purge)
      PROVE  Alone'
  <2>1. /\ Alone /\ timer' = FALSE /\ status' = "disconnected" /\ UNCHANGED creds
        /\ \/ UNCHANGED sock
           \/ current # None /\ sock' = [sock EXCEPT ![current].st = "closing"]
    BY <1>4 DEF Disconnect, Net
  <2>2. \A u \in Task : InConnect(u)' => InConnect(u)
    <3>1. CASE UNCHANGED job
      BY <3>1 DEF InConnect
    <3>2. CASE Start(t, Job("clearing", "end", Nothing))
      BY <3>2, StartFacts, JobType, NothingType DEF InConnect
    <3>. QED BY <1>4, <3>1, <3>2 DEF Disconnect
  <2>3. \A w \in Socket : /\ Live(w)' => Live(w)
                          /\ sock'[w].st \in {"connecting", "open"} =>
                                sock[w].st = sock'[w].st /\ sock'[w].session = sock[w].session
    BY <2>1, ClosingFacts DEF Live
  <2>. QED BY <2>1, <2>2, <2>3 DEF Alone
<1>5. CASE SimulateDisconnect
  <2>1. /\ Alone /\ UNCHANGED <<status, current, timer, job, creds>>
        /\ \/ UNCHANGED sock
           \/ current # None /\ sock' = [sock EXCEPT ![current].st = "closing"]
    BY <1>5 DEF SimulateDisconnect, Net
  <2>2. \A w \in Socket : /\ Live(w)' => Live(w)
                          /\ sock'[w].st \in {"connecting", "open"} =>
                                sock[w].st = sock'[w].st /\ sock'[w].session = sock[w].session
    BY <2>1, ClosingFacts DEF Live
  <2>. QED BY <2>1, <2>2 DEF Alone, InConnect
<1>6. ASSUME NEW w \in Socket, OnOpen(w)
      PROVE  Alone'
  <2>1. /\ Alone /\ UNCHANGED <<timer, job, creds>> /\ current' = w
        /\ sock[w].st = "connecting" /\ sock' = [sock EXCEPT ![w].st = "open"]
    BY <1>6 DEF OnOpen, hist, Net
  <2>2. sock \in [Socket -> Line]
    BY Types DEF Typed
  <2>3. /\ \A v \in Socket \ {w} : sock'[v] = sock[v]
        /\ sock'[w].st = "open" /\ sock'[w].session = sock[w].session
    BY <2>1, <2>2 DEF Line
  <2>4. \A v \in Socket : Live(v)' <=> Live(v)
    BY <2>1, <2>3 DEF Live
  <2>5. current' # None
    BY <2>1, ClientAssumption
  <2>. QED BY <2>1, <2>3, <2>4, <2>5 DEF Alone, InConnect
<1>7. ASSUME NEW w \in Socket, NEW clean \in BOOLEAN, OnClose(w, clean)
      PROVE  Alone'
  <2>1. /\ Alone /\ UNCHANGED creds
        /\ sock[w] # Closed /\ sock' = [sock EXCEPT ![w] = Closed]
    BY <1>7 DEF OnClose, Net
  <2>2. Live(w)
    BY <2>1 DEF Known, Placed, Live
  <2>3. \A v \in Socket : ~ Live(v)'
    <3>1. sock \in [Socket -> Line] /\ Closed.st = "none"
      BY Types DEF Typed, Closed
    <3>. QED BY <2>1, <2>2, <3>1 DEF Alone, Live
  <2>4. \A u \in Task : ~ InConnect(u)'
    <3>1. \A u \in Task : ~ InConnect(u)
      BY <2>1, <2>2 DEF Alone
    <3>2. CASE UNCHANGED job
      BY <3>1, <3>2 DEF InConnect
    <3>3. ASSUME NEW t \in Task, Start(t, Job("clearing", "end", Nothing))
          PROVE  \A u \in Task : ~ InConnect(u)'
      BY <3>1, <3>3, StartFacts, JobType, NothingType DEF InConnect
    <3>. QED BY <1>7, <3>2, <3>3 DEF OnClose
  <2>5. status' # "connected"
    <3>1. AutoReconnect => status' # "connected"
      BY Zenon DEF AutoReconnect
    <3>. QED BY <1>7, <3>1 DEF OnClose
  <2>. QED BY <2>3, <2>4, <2>5 DEF Alone, Live
<1>8. CASE FireTimer
  <2>1. /\ Alone /\ timer /\ timer' = FALSE /\ UNCHANGED <<creds, current, job>>
    BY <1>8 DEF FireTimer, Net
  <2>2. /\ \A w \in Socket : ~ Live(w)
        /\ \A t \in Task : ~ InConnect(t)'
    BY <2>1 DEF Alone, InConnect
  <2>3. CASE UNCHANGED <<status, sock>>
    BY <2>1, <2>2, <2>3 DEF Alone, Live
  <2>4. CASE Dial(creds, TRUE)
    <3>1. Handshake(creds, "reconnecting")
      <4>1. creds \in Strings \cup {None}
        BY Types DEF Typed
      <4>. QED BY <2>4, <4>1, DialFacts
    <3>2. status' # "connected"
      BY <3>1 DEF Handshake
    <3>3. CASE UNCHANGED sock
      BY <2>1, <2>2, <3>2, <3>3 DEF Alone, Live
    <3>4. CASE creds # None /\ Dialled(creds.id)
      <4>1. PICK w \in Socket :
              /\ sock'[w].st = "connecting" /\ sock'[w].session = creds.id
              /\ \A v \in Socket \ {w} : sock'[v] = sock[v]
        BY <3>4 DEF Dialled
      <4>2. \A v \in Socket : Live(v)' <=> v = w
        BY <2>2, <4>1 DEF Live
      <4>3. \A v \in Socket : sock'[v].st \in {"connecting", "open"} => v = w
        BY <4>2 DEF Live
      <4>. QED BY <2>1, <2>2, <3>2, <4>1, <4>2, <4>3 DEF Alone
    <3>. QED BY <3>1, <3>3, <3>4 DEF Handshake
  <2>. QED BY <1>8, <2>3, <2>4 DEF FireTimer
<1>9. CASE Expire
  BY <1>9 DEF Expire, client, hist, Net, Alone, Live, InConnect
<1>10. CASE Reload
  <2>1. /\ timer' = FALSE /\ status' = "idle" /\ sock' = [w \in Socket |-> Closed]
        /\ \E given \in Session \cup {None} : job' = Constructor(given)
    BY <1>10 DEF Reload
  <2>2. \A w \in Socket : sock'[w].st = "none"
    BY <2>1 DEF Closed
  <2>3. \A t \in Task : ~ InConnect(t)'
    BY <2>1, GivenFacts, DoneType DEF InConnect
  <2>. QED BY <2>1, <2>2, <2>3 DEF Alone, Live
<1>. QED BY <1>1, <1>2, <1>3, <1>4, <1>5, <1>6, <1>7, <1>8, <1>9, <1>10, NextSteps

\* However the application disconnects, ends calls and reloads, the timer, the drops and
\* its own calls never give it two connections, or one that serves another session than
\* the client's, unless it calls connect on top of a connection or another connect.
THEOREM OneConnectionAtATime == Spec => []OneConnection
<1>. DEFINE I == TypeOK /\ Known /\ Net
<1>1. Init => I
  <2>. SUFFICES ASSUME Init PROVE Net
    BY InitKnown
  <2>1. /\ timer = FALSE /\ status = "idle" /\ sock = [w \in Socket |-> Closed]
        /\ \E given \in Session \cup {None} : job = Constructor(given)
    BY DEF Init
  <2>2. \A w \in Socket : sock[w].st = "none"
    BY <2>1 DEF Closed
  <2>3. \A t \in Task : ~ InConnect(t)
    BY <2>1, GivenFacts, DoneType DEF InConnect
  <2>. QED BY <2>1, <2>2, <2>3 DEF Net, Alone, Live
<1>2. I /\ [Next]_vars => I'
  BY NextKnown, NextNet
<1>3. I => OneConnection
  <2>. SUFFICES ASSUME I, ~ rushed PROVE OneConnection
    BY DEF OneConnection
  <2>. DEFINE wired == Connecting \cup Open
  <2>1. Alone
    BY DEF Net
  <2>2. \A w \in wired : w \in Socket /\ sock[w].st \in {"connecting", "open"} /\ Live(w)
    BY DEF Connecting, Open, Live
  <2>3. Cardinality(wired) <= 1
    <3>1. CASE wired = {}
      BY <3>1, FS_EmptySet
    <3>2. ASSUME NEW w \in wired PROVE Cardinality(wired) <= 1
      <4>1. wired = {w}
        BY <2>1, <2>2, <3>2 DEF Alone
      <4>2. Cardinality({w}) = 1
        BY FS_Singleton
      <4>. HIDE DEF wired
      <4>. QED BY <4>1, <4>2
    <3>. QED BY <3>1, <3>2
  <2>4. wired # {} => ~ timer
    BY <2>1, <2>2 DEF Alone
  <2>5. \A w \in wired : creds = None \/ sock[w].session = creds.id
    BY <2>1, <2>2 DEF Alone
  <2>6. status = "connected" => current \in Open \cup Closing
    BY <2>1, Types DEF Alone, Known, Typed, Open, Closing
  <2>. QED BY <2>3, <2>4, <2>5, <2>6 DEF OneConnection
<1>. QED BY <1>1, <1>2, <1>3, PTL DEF Spec

-----------------------------------------------------------------------------
(* endCall concludes the call.                                               *)

\* After a clean endCall nothing but removals goes on and no socket is wanted; one of the
\* removals has its first key to come, or the first key is gone, from storage and, when
\* no removal is left, from memory.
Concluded ==
    ending = "clean" =>
        /\ ~ timer
        /\ \A w \in Socket : /\ sock[w].st \in {"none", "closing"}
                             /\ sock[w].st # "none" => userClosed
        /\ \A t \in Task : job[t] = Done \/ Removal(t)
        /\ \/ \E t \in Task : Removal(t) /\ (job[t].key = 1 \/ cached.id = None)
           \/ creds = None /\ cached.id = None

\* A key of a removal is removed.
LEMMA RemovalStep ==
    ASSUME TypeOK, Known, NEW t \in Task, RemoveItem(t, TRUE), Removal(t)
    PROVE  /\ UNCHANGED <<timer, userClosed, sock>>
           /\ \A u \in Task \ {t} : job'[u] = job[u]
           /\ cached'.id = IF job[t].key = 1 THEN None ELSE cached.id
           /\ \/ creds' = creds /\ Removal(t)'
              \/ creds' = None /\ job'[t] = Done /\ job[t].key = 3
<1>1. /\ UNCHANGED <<timer, userClosed>> /\ UNCHANGED minted
      /\ job[t].then = "end" /\ job[t].pc = "clearing" /\ Store(t, None, TRUE)
  BY DEF RemoveItem, Removal, env
<1>2. cached'.id = IF job[t].key = 1 THEN None ELSE cached.id
  BY <1>1, StoreKnown
<1>3. CASE /\ job[t].key < 3 /\ Start(t, NextKey(t))
           /\ UNCHANGED <<creds, status, sock, thrown>>
  <2>1. NextKey(t) \in Function /\ NextKey(t).pc = "clearing" /\ NextKey(t).then = "end"
    BY <1>1, <1>3, NextKeyFacts
  <2>2. job'[t] = NextKey(t) /\ \A u \in Task \ {t} : job'[u] = job[u]
    BY <1>3, <2>1, StartFacts
  <2>. QED BY <1>1, <1>2, <1>3, <2>1, <2>2 DEF Removal
<1>4. CASE /\ ~ (job[t].key < 3) /\ creds' = None /\ Start(t, Done)
           /\ UNCHANGED <<status, sock, thrown>>
  <2>1. job'[t] = Done /\ \A u \in Task \ {t} : job'[u] = job[u]
    BY <1>4, StartFacts, DoneType
  <2>. QED BY <1>1, <1>2, <1>4, <2>1, LastKey
<1>. QED BY <1>1, <1>3, <1>4, LastKey DEF RemoveItem

LEMMA NextConcluded ==
    ASSUME TypeOK, Known, Concluded, [Next]_vars
    PROVE  Concluded'
<1>. SUFFICES ASSUME ending' = "clean" PROVE Concluded'
  BY DEF Concluded
<1>1. CASE UNCHANGED vars
  BY <1>1 DEF Concluded, Removal, vars, client, hist
<1>2. ASSUME NEW t \in Task, Connect(t)
      PROVE  Concluded'
  BY <1>2 DEF Connect
<1>3. ASSUME NEW t \in Task, NEW purge \in BOOLEAN, Disconnect(t, purge)
      PROVE  Concluded'
  <2>1. /\ timer' = FALSE /\ userClosed' = TRUE /\ UNCHANGED <<creds, cached>>
        /\ sock' = IF current = None THEN sock ELSE [sock EXCEPT ![current].st = "closing"]
    BY <1>3 DEF Disconnect
  <2>2. sock \in [Socket -> Line] /\ current \in Socket \cup {None}
    BY Types DEF Typed
  <2>3. ASSUME \A w \in Socket : sock[w].st \in {"none", "closing"} \/ w = current
        PROVE  \A w \in Socket : sock'[w].st \in {"none", "closing"}
    <3>1. CASE current = None
      BY <2>1, <2>3, <3>1, ClientAssumption
    <3>2. CASE current # None
      <4>1. sock' = [sock EXCEPT ![current].st = "closing"] /\ current \in Socket
        BY <2>1, <2>2, <3>2
      <4>2. sock'[current].st = "closing" /\ \A w \in Socket \ {current} : sock'[w] = sock[w]
        BY <2>2, <4>1 DEF Line
      <4>. QED BY <2>3, <4>1, <4>2
    <3>. QED BY <3>1, <3>2
  <2>4. CASE ~ purge
    <3>1. ending = "clean" /\ UNCHANGED job
      BY <1>3, <2>4 DEF Disconnect
    <3>2. \A w \in Socket : sock'[w].st \in {"none", "closing"}
      BY <2>3, <3>1 DEF Concluded
    <3>. QED BY <2>1, <3>1, <3>2 DEF Concluded, Removal
  <2>5. CASE purge
    <3>1. ~ Unfinished /\ Start(t, Job("clearing", "end", Nothing))
      BY <1>3, <2>5 DEF Disconnect
    <3>2. /\ job'[t].pc = "clearing" /\ job'[t].then = "end" /\ job'[t].key = 1
          /\ \A u \in Task \ {t} : job'[u] = job[u]
      BY <3>1, StartFacts, JobType, NothingType
    <3>3. \A u \in Task : job[u] = Done \/ Removal(u)
      BY <3>1 DEF Unfinished
    <3>4. \A w \in Socket : sock[w].st \in {"none", "closing"} \/ w = current
      BY <2>2, <3>1 DEF Unfinished, Connecting, Open, Line
    <3>5. \A u \in Task : job'[u] = Done \/ Removal(u)'
      BY <3>2, <3>3 DEF Removal
    <3>6. Removal(t)' /\ job'[t].key = 1
      BY <3>2 DEF Removal
    <3>. QED BY <2>1, <2>3, <3>4, <3>5, <3>6 DEF Concluded
  <2>. QED BY <2>4, <2>5
<1>4. ASSUME NEW t \in Task, \/ GetItem(t) \/ Created(t) \/ CreateFails(t)
                             \/ \E lands \in BOOLEAN : SetItem(t, lands)
      PROVE  Concluded'
  <2>1. job[t].pc \in {"loading", "creating", "persisting"}
    BY <1>4 DEF GetItem, Created, CreateFails, SetItem
  <2>2. ending = "clean"
    BY <1>4 DEF GetItem, Created, CreateFails, SetItem, Store, EndingAfter, hist
  <2>3. job[t] = Done \/ Removal(t)
    BY <2>2 DEF Concluded
  <2>. QED BY <2>1, <2>3, DoneType DEF Removal
<1>5. ASSUME NEW t \in Task, StorageFails(t)
      PROVE  Concluded'
  BY <1>5 DEF StorageFails, EndingAfter
<1>6. ASSUME NEW t \in Task, NEW lands \in BOOLEAN, RemoveItem(t, lands)
      PROVE  Concluded'
  <2>1. ending = "clean" /\ lands = TRUE /\ job[t].pc = "clearing"
    BY <1>6 DEF RemoveItem, Store, EndingAfter
  <2>2. Removal(t)
    BY <2>1, DoneType DEF Concluded
  <2>3. RemoveItem(t, TRUE)
    BY <1>6, <2>1
  <2>4. /\ UNCHANGED <<timer, userClosed, sock>>
        /\ \A u \in Task \ {t} : job'[u] = job[u]
        /\ cached'.id = IF job[t].key = 1 THEN None ELSE cached.id
        /\ \/ creds' = creds /\ Removal(t)'
           \/ creds' = None /\ job'[t] = Done /\ job[t].key = 3
    BY <2>2, <2>3, RemovalStep
  <2>5. \A u \in Task : job'[u] = Done \/ Removal(u)'
    BY <2>1, <2>4 DEF Concluded, Removal
  <2>6. \/ \E u \in Task : Removal(u)' /\ (job'[u].key = 1 \/ cached'.id = None)
        \/ creds' = None /\ cached'.id = None
    <3>1. ASSUME NEW u \in Task \ {t}, Removal(u), job[u].key = 1 \/ cached.id = None
          PROVE  Removal(u)' /\ (job'[u].key = 1 \/ cached'.id = None)
      BY <2>4, <3>1 DEF Removal
    <3>2. CASE job[t].key = 1 \/ cached.id = None
      BY <2>4, <3>2
    <3>3. CASE creds = None /\ cached.id = None
      BY <2>4, <3>3
    <3>. QED BY <2>1, <3>1, <3>2, <3>3 DEF Concluded
  <2>. QED BY <2>1, <2>4, <2>5, <2>6 DEF Concluded
<1>7. CASE SimulateDisconnect
  <2>1. /\ UNCHANGED <<creds, timer, job, cached>> /\ ending = "clean" /\ Closing = {}
    BY <1>7 DEF SimulateDisconnect
  <2>2. \A w \in Socket : sock[w].st = "none"
    BY <2>1 DEF Concluded, Closing
  <2>3. current = None
    BY <2>2, Types DEF Typed, Known
  <2>4. UNCHANGED sock
    BY <1>7, <2>3 DEF SimulateDisconnect
  <2>. QED BY <2>1, <2>2, <2>4 DEF Concluded, Removal
<1>8. ASSUME NEW w \in Socket, OnOpen(w)
      PROVE  Concluded'
  <2>1. ending = "clean" /\ sock[w].st = "connecting"
    BY <1>8 DEF OnOpen, hist
  <2>. QED BY <2>1 DEF Concluded
<1>9. ASSUME NEW w \in Socket, NEW clean \in BOOLEAN, OnClose(w, clean)
      PROVE  Concluded'
  <2>1. /\ UNCHANGED <<creds, userClosed, cached>> /\ ending = "clean"
        /\ sock[w] # Closed /\ sock' = [sock EXCEPT ![w] = Closed]
    BY <1>9 DEF OnClose
  <2>2. userClosed
    BY <2>1 DEF Known, Placed, Concluded
  <2>3. UNCHANGED <<timer, job>>
    BY <1>9, <2>2 DEF OnClose
  <2>4. sock \in [Socket -> Line] /\ Closed.st = "none"
    BY Types DEF Typed, Closed
  <2>5. \A v \in Socket : sock'[v].st \in {"none", "closing"}
    BY <2>1, <2>4 DEF Concluded
  <2>. QED BY <2>1, <2>2, <2>3, <2>5 DEF Concluded, Removal
<1>10. CASE FireTimer
  <2>1. ending = "clean" /\ timer
    BY <1>10 DEF FireTimer
  <2>. QED BY <2>1 DEF Concluded
<1>11. CASE Expire
  BY <1>11 DEF Expire, client, hist, Concluded, Removal
<1>12. CASE Reload
  <2>1. PICK given \in Session \cup {None} :
          /\ creds' = Given(given) /\ job' = Constructor(given)
          /\ ending' = IF given # None THEN "none"
                       ELSE IF ending = "clean" /\ cached.id # None THEN "cut" ELSE ending
    BY <1>12 DEF Reload
  <2>2. given = None /\ cached.id = None
    BY <2>1
  <2>3. /\ timer' = FALSE /\ UNCHANGED cached /\ sock' = [w \in Socket |-> Closed]
    BY <1>12 DEF Reload
  <2>4. creds' = None /\ \A t \in Task : job'[t] = Done
    BY <2>1, <2>2, GivenFacts, ClientAssumption DEF Given
  <2>5. \A w \in Socket : sock'[w].st = "none"
    BY <2>3 DEF Closed
  <2>. QED BY <2>2, <2>3, <2>4, <2>5 DEF Concluded
<1>. QED BY <1>1, <1>2, <1>3, <1>4, <1>5, <1>6, <1>7, <1>8, <1>9, <1>10, <1>11, <1>12 DEF Next

\* Once what went on at a clean endCall has settled, no socket is open, no timer set and
\* nothing left to resume from: whatever the application does next but connect, and over
\* a reload of the page between two keys of the removal.
THEOREM CallsConclude == Spec => []EndCallConcludes
<1>. DEFINE I == TypeOK /\ Known /\ Concluded
<1>1. Init => I
  <2>1. Init => Concluded
    BY DEF Init, Concluded
  <2>. QED BY <2>1, InitKnown
<1>2. I /\ [Next]_vars => I'
  BY NextKnown, NextConcluded
<1>3. I => EndCallConcludes
  <2>. SUFFICES ASSUME I, ending = "clean", Settled PROVE EndCallConcludes
    BY DEF EndCallConcludes
  <2>1. \A t \in Task : ~ Removal(t)
    BY DoneType DEF Settled, Removal
  <2>2. creds = None /\ cached.id = None /\ ~ timer
    BY <2>1 DEF Concluded
  <2>3. Open = {}
    BY DEF Concluded, Open
  <2>. QED BY <2>2, <2>3 DEF EndCallConcludes
<1>. QED BY <1>1, <1>2, <1>3, PTL DEF Spec

-----------------------------------------------------------------------------
(* Credentials in use are those of one session.                              *)

Name == Session \cup {None}

\* An async function other than a removal that nothing waits for.
Active(t) == job[t] # Done /\ ~ Removal(t)

\* The strings that are there are those of session s.
Whole(c, s) == c.id \in {s, None} /\ c.sig \in {s, None} /\ c.start \in {s, None}

\* Those before the k-th are those of session s, the others those of r.
Split(c, k, s, r) ==
    /\ c.id \in (IF k > 1 THEN {s, None} ELSE {r, None})
    /\ c.sig \in (IF k > 2 THEN {s, None} ELSE {r, None})
    /\ c.start \in (IF k > 3 THEN {s, None} ELSE {r, None})

OneSession(c) == c # None => c.sig = c.id /\ c.start \in {c.id, None}

\* One async function at a time but for removals.  The adapter has the keys of one
\* session, or a persist has come to write those of another over some of them; a load
\* finds what belongs together.
Unmixed ==
    /\ \A t, u \in Task : Active(t) /\ Active(u) => t = u
    /\ (\A t \in Task : job[t].pc # "persisting") => \E s \in Name : Whole(cached, s)
    /\ \A t \in Task : job[t].pc = "persisting" =>
           \E s \in Session, r \in Name :
               job[t].data = Own(s) /\ Split(cached, job[t].key, s, r)
    /\ \A t \in Task : job[t].pc = "loading" =>
           \E s \in Name : Whole(cached, s) /\ Whole(job[t].data, s)
    /\ OneSession(creds)

Together == ~ torn => Unmixed

\* Some of the adapter's keys are removed, if any.
Thinner ==
    /\ cached'.id \in {cached.id, None}
    /\ cached'.sig \in {cached.sig, None}
    /\ cached'.start \in {cached.start, None}

LEMMA ThinnerFacts ==
    ASSUME Thinner
    PROVE  /\ \A s : Whole(cached, s) => Whole(cached', s)
           /\ \A k, s, r : Split(cached, k, s, r) => Split(cached', k, s, r)
BY DEF Thinner, Whole, Split

\* t goes on to what neither reads nor writes keys of credentials, or ends.
LEMMA StaysUnmixed ==
    ASSUME Unmixed, Thinner, OneSession(creds'), NEW t \in Task,
           \A u \in Task \ {t} : job'[u] = job[u],
           job[t].pc # "persisting", job'[t].pc \notin {"persisting", "loading"},
           Active(t)' => \A u \in Task \ {t} : ~ Active(u)
    PROVE  Unmixed'
<1>1. \A u, v \in Task : Active(u)' /\ Active(v)' => u = v
  BY DEF Unmixed, Active, Removal
<1>2. (\A u \in Task : job'[u].pc # "persisting") => \E s \in Name : Whole(cached', s)
  BY ThinnerFacts DEF Unmixed
<1>3. ASSUME NEW u \in Task, job'[u].pc = "persisting"
      PROVE  \E s \in Session, r \in Name :
                 job'[u].data = Own(s) /\ Split(cached', job'[u].key, s, r)
  <2>1. u # t /\ job'[u] = job[u]
    BY <1>3
  <2>. QED BY <1>3, <2>1, ThinnerFacts DEF Unmixed
<1>4. ASSUME NEW u \in Task, job'[u].pc = "loading"
      PROVE  \E s \in Name : Whole(cached', s) /\ Whole(job'[u].data, s)
  <2>1. u # t /\ job'[u] = job[u]
    BY <1>4
  <2>. QED BY <1>4, <2>1, ThinnerFacts DEF Unmixed
<1>. QED BY <1>1, <1>2, <1>3, <1>4 DEF Unmixed

\* What connect goes on to reads and writes no key yet.
LEMMA GoesOnQuiet ==
    ASSUME NEW t \in Task, NEW c, GoesOn(t, c)
    PROVE  /\ job'[t].pc \notin {"persisting", "loading"}
           /\ \A u \in Task \ {t} : job'[u] = job[u]
BY DoneType DEF GoesOn

\* A removal starts.
LEMMA RemovalUnmixed ==
    ASSUME TypeOK, Unmixed, NEW t \in Task, job[t] = Done, UNCHANGED <<creds, cached>>,
           Start(t, Job("clearing", "end", Nothing))
    PROVE  Unmixed'
<1>1. /\ job'[t].pc = "clearing" /\ job'[t].then = "end"
      /\ \A u \in Task \ {t} : job'[u] = job[u]
  BY StartFacts, JobType, NothingType
<1>2. ~ Active(t)'
  BY <1>1 DEF Active, Removal
<1>3. Thinner /\ OneSession(creds')
  BY DEF Thinner, Unmixed, OneSession
<1>. QED BY <1>1, <1>2, <1>3, StaysUnmixed, DoneType

LEMMA ConnectUnmixed ==
    ASSUME TypeOK, Known, Unmixed, NEW t \in Task, Connect(t), ~ torn'
    PROVE  Unmixed'
<1>1. /\ UNCHANGED <<creds, cached>> /\ job[t] = Done
      /\ \A u \in Task \ {t} : job'[u] = job[u]
  BY ConnectFacts
<1>2. Thinner /\ OneSession(creds')
  BY <1>1 DEF Thinner, Unmixed, OneSession
<1>3. creds = None \/ Expired(creds) => \A u \in Task : ~ Active(u)
  BY DEF Connect, Active
<1>4. CASE /\ creds = None /\ job'[t].pc = "loading"
           /\ job'[t].data = Nothing
  <2>1. \A u \in Task : ~ Active(u)
    BY <1>3, <1>4
  <2>2. \A u \in Task : job[u].pc \notin {"persisting", "loading"}
    BY <2>1, DoneType DEF Active, Removal
  <2>3. PICK s \in Name : Whole(cached, s)
    BY <2>2 DEF Unmixed
  <2>4. Whole(job'[t].data, s)
    BY <1>4, NothingType DEF Whole
  <2>5. \A u \in Task \ {t} : ~ Active(u)'
    BY <1>1, <2>1 DEF Active, Removal
  <2>6. \A u \in Task \ {t} : job'[u].pc \notin {"persisting", "loading"}
    BY <1>1, <2>2
  <2>. QED BY <1>1, <1>2, <1>4, <2>3, <2>4, <2>5, <2>6 DEF Unmixed
<1>5. CASE creds # None /\ GoesOn(t, creds') /\ (Expired(creds) \/ job'[t] = Done)
  <2>1. job'[t].pc \notin {"persisting", "loading"}
    BY <1>5, GoesOnQuiet
  <2>2. Active(t)' => \A u \in Task \ {t} : ~ Active(u)
    BY <1>3, <1>5 DEF Active
  <2>. QED BY <1>1, <1>2, <2>1, <2>2, StaysUnmixed, DoneType
<1>. QED BY <1>4, <1>5, ConnectFacts

LEMMA GetItemUnmixed ==
    ASSUME TypeOK, Known, Unmixed, NEW t \in Task, GetItem(t)
    PROVE  Unmixed'
<1>1. UNCHANGED cached /\ job[t].pc = "loading"
  BY DEF GetItem
<1>2. \A u \in Task \ {t} : ~ Active(u)
  BY <1>1, DoneType DEF Unmixed, Active, Removal
<1>3. PICK s \in Name : Whole(cached, s) /\ Whole(job[t].data, s)
  BY <1>1 DEF Unmixed
<1>. DEFINE got == [job[t].data EXCEPT ![KeyOf(t)] = cached[KeyOf(t)]]
            next == [NextKey(t) EXCEPT !.data = got]
<1>4. /\ got \in Strings
      /\ got.id = IF job[t].key = 1 THEN cached.id ELSE job[t].data.id
      /\ got.sig = IF job[t].key = 2 THEN cached.sig ELSE job[t].data.sig
      /\ got.start = IF job[t].key = 3 THEN cached.start ELSE job[t].data.start
      /\ \/ /\ Start(t, next) /\ next \in Function
            /\ next.pc = "loading" /\ next.data = got
            /\ UNCHANGED <<creds, status, sock, old, thrown>>
         \/ /\ creds' = Loaded(got)
            /\ CheckCredentials(t, Loaded(got), got.start \in old \ {None})
  BY GetItemFacts
<1>. HIDE DEF got, next
<1>5. Whole(got, s)
  BY <1>3, <1>4 DEF Whole
<1>6. CASE /\ Start(t, next) /\ next \in Function
           /\ next.pc = "loading" /\ next.data = got
           /\ UNCHANGED <<creds, status, sock, old, thrown>>
  <2>1. job'[t] = next /\ \A u \in Task \ {t} : job'[u] = job[u]
    BY <1>6, StartFacts
  <2>2. \A u \in Task \ {t} : ~ Active(u)' /\ job'[u].pc \notin {"persisting", "loading"}
    <3>1. \A u \in Task \ {t} : job[u] = Done \/ Removal(u)
      BY <1>2 DEF Active
    <3>2. \A u \in Task \ {t} : job'[u].pc \in {"done", "clearing"}
      BY <2>1, <3>1, DoneType DEF Removal
    <3>3. \A u \in Task \ {t} : ~ Active(u)'
      BY <1>2, <2>1 DEF Active, Removal
    <3>. QED BY <3>2, <3>3
  <2>3. job'[t].pc = "loading" /\ Whole(job'[t].data, s) /\ Whole(cached', s)
    BY <1>1, <1>3, <1>5, <1>6, <2>1
  <2>4. OneSession(creds')
    BY <1>6 DEF Unmixed
  <2>. QED BY <2>2, <2>3, <2>4 DEF Unmixed
<1>7. CASE /\ creds' = Loaded(got)
           /\ CheckCredentials(t, Loaded(got), got.start \in old \ {None})
  <2>1. GoesOn(t, Loaded(got))
    <3>1. Loaded(got) \in Strings \cup {None} /\ (got.start \in old \ {None}) \in BOOLEAN
      BY <1>4 DEF Loaded
    <3>. QED BY <1>7, <3>1, CheckFacts
  <2>2. OneSession(creds')
    BY <1>5, <1>7 DEF Loaded, Whole, OneSession
  <2>3. Thinner
    BY <1>1 DEF Thinner
  <2>. QED BY <1>1, <1>2, <2>1, <2>2, <2>3, GoesOnQuiet, StaysUnmixed
<1>. QED BY <1>4, <1>6, <1>7

LEMMA SetItemUnmixed ==
    ASSUME TypeOK, Known, Unmixed, NEW t \in Task, SetItem(t, TRUE)
    PROVE  Unmixed'
<1>1. /\ UNCHANGED <<creds, minted>> /\ job[t].pc = "persisting"
      /\ Store(t, job[t].data[KeyOf(t)], TRUE)
  BY DEF SetItem, env
<1>2. \A u \in Task \ {t} : ~ Active(u)
  BY <1>1, DoneType DEF Unmixed, Active, Removal
<1>3. PICK s \in Session, r \in Name :
          job[t].data = Own(s) /\ Split(cached, job[t].key, s, r)
  BY <1>1 DEF Unmixed
<1>4. job[t].data \in Strings /\ Own(s).id = s /\ Own(s).sig = s /\ Own(s).start = s
  BY <1>3, OwnType
<1>5. job[t].data[KeyOf(t)] = s
  BY <1>3, <1>4, KeyFacts
<1>6. s \in minted
  BY <1>3, <1>4, ClientAssumption DEF Known, Sound, Named
<1>7. /\ cached'.id = IF job[t].key = 1 THEN s ELSE cached.id
      /\ cached'.sig = IF job[t].key = 2 THEN s ELSE cached.sig
      /\ cached'.start = IF job[t].key = 3 THEN s ELSE cached.start
  BY <1>1, <1>5, <1>6, StoreKnown
<1>8. Split(cached', job[t].key + 1, s, r) /\ job[t].key \in 1..3
  BY <1>3, <1>7, LastKey DEF Split
<1>9. OneSession(creds')
  BY <1>1 DEF Unmixed
<1>10. \A u \in Task \ {t} : job[u].pc \in {"done", "clearing"}
  BY <1>2, DoneType DEF Active, Removal
<1>11. CASE job[t].key < 3 /\ Start(t, NextKey(t))
  <2>1. /\ NextKey(t) \in Function /\ NextKey(t).pc = "persisting"
        /\ NextKey(t).key = job[t].key + 1 /\ NextKey(t).data = Own(s)
    BY <1>1, <1>3, <1>11, NextKeyFacts
  <2>2. job'[t] = NextKey(t) /\ \A u \in Task \ {t} : job'[u] = job[u]
    BY <1>11, <2>1, StartFacts
  <2>3. \A u \in Task \ {t} : ~ Active(u)' /\ job'[u].pc \notin {"persisting", "loading"}
    BY <1>2, <1>10, <2>2 DEF Active, Removal
  <2>4. /\ job'[t].pc = "persisting" /\ job'[t].data = Own(s)
        /\ Split(cached', job'[t].key, s, r)
    BY <1>8, <2>1, <2>2
  <2>. QED BY <1>9, <2>3, <2>4 DEF Unmixed
<1>12. CASE ~ (job[t].key < 3) /\ Start(t, Done)
  <2>1. job'[t] = Done /\ \A u \in Task \ {t} : job'[u] = job[u]
    BY <1>12, StartFacts, DoneType
  <2>2. \A u \in Task : ~ Active(u)' /\ job'[u].pc \notin {"persisting", "loading"}
    BY <1>2, <1>10, <2>1, DoneType DEF Active, Removal
  <2>3. job[t].key = 3
    BY <1>8, <1>12
  <2>4. Whole(cached', s) /\ s \in Name
    BY <1>8, <2>3 DEF Split, Whole, Name
  <2>. QED BY <1>9, <2>2, <2>4 DEF Unmixed
<1>. QED BY <1>11, <1>12, LastKey DEF SetItem

LEMMA RemoveItemUnmixed ==
    ASSUME TypeOK, Known, Unmixed, NEW t \in Task, NEW lands \in BOOLEAN, RemoveItem(t, lands)
    PROVE  Unmixed'
<1>1. UNCHANGED minted /\ job[t].pc = "clearing" /\ Store(t, None, lands)
  BY DEF RemoveItem, env
<1>2. Thinner
  BY <1>1, StoreKnown DEF Thinner
<1>3. creds' \in {creds, None} /\ OneSession(creds')
  BY DEF RemoveItem, Unmixed, OneSession
<1>4. /\ job'[t].pc \notin {"persisting", "loading"}
      /\ \A u \in Task \ {t} : job'[u] = job[u]
      /\ Active(t)' => Active(t)
  <2>1. CASE job[t].key < 3 /\ Start(t, NextKey(t))
    <3>1. /\ NextKey(t) \in Function /\ NextKey(t).pc = "clearing"
          /\ NextKey(t).then = job[t].then
      BY <1>1, <2>1, NextKeyFacts
    <3>2. job'[t] = NextKey(t) /\ \A u \in Task \ {t} : job'[u] = job[u]
      BY <2>1, <3>1, StartFacts
    <3>. QED BY <1>1, <3>1, <3>2, DoneType DEF Active, Removal
  <2>2. CASE Start(t, Done)
    <3>1. job'[t] = Done /\ \A u \in Task \ {t} : job'[u] = job[u]
      BY <2>2, StartFacts, DoneType
    <3>. QED BY <3>1, DoneType DEF Active
  <2>3. CASE job[t].then = "create" /\ Proceed(t, None, "expired")
    <3>1. GoesOn(t, None)
      BY <2>3, ProceedFacts
    <3>2. Active(t)
      BY <1>1, <2>3, DoneType DEF Active, Removal
    <3>. QED BY <3>1, <3>2, GoesOnQuiet
  <2>. QED BY <2>1, <2>2, <2>3, LastKey DEF RemoveItem
<1>5. Active(t)' => \A u \in Task \ {t} : ~ Active(u)
  BY <1>4 DEF Unmixed
<1>. QED BY <1>1, <1>2, <1>3, <1>4, <1>5, StaysUnmixed

LEMMA StorageFailsUnmixed ==
    ASSUME TypeOK, Known, Unmixed, NEW t \in Task, StorageFails(t), ~ torn'
    PROVE  Unmixed'
<1>1. /\ UNCHANGED cached /\ job[t].pc \in {"loading", "clearing"}
      /\ creds' \in {creds, None}
  BY DEF StorageFails
<1>2. Thinner /\ OneSession(creds')
  BY <1>1 DEF Thinner, Unmixed, OneSession
<1>3. /\ job'[t].pc \notin {"persisting", "loading"}
      /\ \A u \in Task \ {t} : job'[u] = job[u]
      /\ Active(t)' => Active(t)
  <2>1. CASE Start(t, Done)
    <3>1. job'[t] = Done /\ \A u \in Task \ {t} : job'[u] = job[u]
      BY <2>1, StartFacts, DoneType
    <3>. QED BY <3>1, DoneType DEF Active
  <2>2. CASE job[t].pc = "loading" /\ CheckCredentials(t, None, FALSE)
    <3>1. GoesOn(t, None)
      BY <2>2, CheckFacts
    <3>2. Active(t)
      BY <2>2, DoneType DEF Active, Removal
    <3>. QED BY <3>1, <3>2, GoesOnQuiet
  <2>3. CASE job[t].pc = "clearing" /\ job[t].then = "create" /\ Proceed(t, creds, "expired")
    <3>1. GoesOn(t, creds)
      <4>1. creds \in Strings \cup {None}
        BY Types DEF Typed
      <4>. QED BY <2>3, <4>1, ProceedFacts
    <3>2. Active(t)
      BY <2>3, DoneType DEF Active, Removal
    <3>. QED BY <3>1, <3>2, GoesOnQuiet
  <2>. QED BY <2>1, <2>2, <2>3 DEF StorageFails
<1>4. Active(t)' => \A u \in Task \ {t} : ~ Active(u)
  BY <1>3 DEF Unmixed
<1>. QED BY <1>1, <1>2, <1>3, <1>4, StaysUnmixed

LEMMA CreatedUnmixed ==
    ASSUME TypeOK, Known, Unmixed, NEW t \in Task, Created(t)
    PROVE  Unmixed'
<1>1. UNCHANGED cached /\ job[t].pc = "creating"
  BY DEF Created
<1>2. \A u \in Task \ {t} : ~ Active(u)
  BY <1>1, DoneType DEF Unmixed, Active, Removal
<1>3. \A u \in Task \ {t} : job[u].pc \in {"done", "clearing"}
  BY <1>2, DoneType DEF Active, Removal
<1>4. PICK r \in Name : Whole(cached, r)
  BY <1>1, <1>3 DEF Unmixed
<1>5. PICK s \in Session :
          creds' = Own(s) /\ Start(t, Job("persisting", "dial", Own(s)))
  BY DEF Created
<1>6. /\ job'[t].pc = "persisting" /\ job'[t].key = 1 /\ job'[t].data = Own(s)
      /\ \A u \in Task \ {t} : job'[u] = job[u]
  BY <1>5, StartFacts, JobType, OwnType
<1>7. Split(cached', job'[t].key, s, r)
  BY <1>1, <1>4, <1>6 DEF Whole, Split
<1>8. \A u \in Task \ {t} : ~ Active(u)' /\ job'[u].pc \notin {"persisting", "loading"}
  BY <1>2, <1>3, <1>6 DEF Active, Removal
<1>9. OneSession(creds')
  BY <1>5, OwnType DEF OneSession
<1>. QED BY <1>6, <1>7, <1>8, <1>9 DEF Unmixed

\* At most one name among the keys.
LEMMA FewNames ==
    ASSUME TypeOK, ~ (Cardinality({cached[k] : k \in DOMAIN cached} \ {None}) > 1)
    PROVE  \E s \in Name : Whole(cached, s)
<1>. DEFINE names == {cached[k] : k \in DOMAIN cached} \ {None}
<1>1. cached \in Strings
  BY Types DEF Typed
<1>2. names = {cached.id, cached.sig, cached.start} \ {None}
  BY <1>1 DEF Strings
<1>3. {cached.id, cached.sig, cached.start} \subseteq Name
  BY <1>1 DEF Strings, Name
<1>4. IsFiniteSet(names)
  <2>1. IsFiniteSet({cached.id, cached.sig, cached.start})
    <3>1. IsFiniteSet({}) /\ IsFiniteSet({} \cup {cached.id})
      BY FS_EmptySet, FS_AddElement
    <3>2. IsFiniteSet(({} \cup {cached.id}) \cup {cached.sig})
      BY <3>1, FS_AddElement
    <3>3. IsFiniteSet((({} \cup {cached.id}) \cup {cached.sig}) \cup {cached.start})
      BY <3>2, FS_AddElement
    <3>4. {cached.id, cached.sig, cached.start} =
              (({} \cup {cached.id}) \cup {cached.sig}) \cup {cached.start}
      OBVIOUS
    <3>. QED BY <3>3, <3>4
  <2>2. names \subseteq {cached.id, cached.sig, cached.start}
    BY <1>2
  <2>. QED BY <2>1, <2>2, FS_Subset
<1>5. Cardinality(names) \in Nat /\ Cardinality(names) <= 1
  BY <1>4, FS_CardinalityType
<1>. HIDE DEF names
<1>6. \A a, b \in names : a = b
  <2>. SUFFICES ASSUME NEW a \in names, NEW b \in names, a # b PROVE FALSE
    OBVIOUS
  <2>1. IsFiniteSet(names \ {a}) /\ Cardinality(names \ {a}) = Cardinality(names) - 1
    BY <1>4, FS_RemoveElement
  <2>2. names \ {a} = {}
    <3>1. Cardinality(names \ {a}) = 0
      <4>1. Cardinality(names \ {a}) \in Nat
        BY <2>1, FS_CardinalityType
      <4>. QED BY <1>5, <2>1, <4>1
    <3>. QED BY <2>1, <3>1, FS_EmptySet
  <2>. QED BY <2>2
<1>7. CASE names = {}
  BY <1>2, <1>7 DEF Whole, Name
<1>8. ASSUME NEW a \in names PROVE \E s \in Name : Whole(cached, s)
  <2>1. \A b \in {cached.id, cached.sig, cached.start} : b = a \/ b = None
    BY <1>2, <1>6
  <2>2. a \in Name
    BY <1>2, <1>3
  <2>. QED BY <2>1, <2>2 DEF Whole
<1>. QED BY <1>7, <1>8

\* A new object begins over keys of one session.
Fresh ==
    /\ \E s \in Name : Whole(cached, s)
    /\ \E given \in Name : creds = Given(given) /\ job = Constructor(given)

LEMMA NewUnmixed == Fresh => Unmixed
<1>. SUFFICES ASSUME NEW r \in Name, Whole(cached, r), NEW given \in Name,
                     creds = Given(given), job = Constructor(given)
              PROVE  Unmixed
  BY DEF Fresh
<1>1. /\ \A t, u \in Task : job[t] # Done /\ job[u] # Done => t = u
      /\ \A t \in Task : \/ job[t] = Done
                        \/ /\ given \in Session
                           /\ job[t].pc = "persisting" /\ job[t].key = 1
                           /\ job[t].data = Own(given)
  BY GivenFacts DEF Name
<1>2. \A t, u \in Task : Active(t) /\ Active(u) => t = u
  BY <1>1 DEF Active
<1>3. \A t \in Task : job[t].pc # "loading"
  BY <1>1, DoneType
<1>4. ASSUME NEW t \in Task, job[t].pc = "persisting"
      PROVE  \E s \in Session, q \in Name :
                 job[t].data = Own(s) /\ Split(cached, job[t].key, s, q)
  <2>1. given \in Session /\ job[t].data = Own(given) /\ job[t].key = 1
    BY <1>1, <1>4, DoneType
  <2>2. Split(cached, job[t].key, given, r)
    BY <2>1 DEF Split, Whole
  <2>. QED BY <2>1, <2>2
<1>5. OneSession(creds)
  <2>1. creds # None => given \in Session /\ creds = Own(given)
    BY GivenFacts DEF Name
  <2>. QED BY <2>1, OwnType DEF OneSession
<1>. QED BY <1>2, <1>3, <1>4, <1>5 DEF Unmixed

LEMMA ReloadUnmixed ==
    ASSUME TypeOK, Unmixed, Reload, ~ torn'
    PROVE  Unmixed'
<1>1. /\ UNCHANGED cached
      /\ \/ \A t \in Task : job[t].pc # "persisting"
         \/ ~ (Cardinality({cached[k] : k \in DOMAIN cached} \ {None}) > 1)
  BY DEF Reload
<1>2. \E s \in Name : Whole(cached, s)
  <2>1. CASE \A t \in Task : job[t].pc # "persisting"
    BY <2>1 DEF Unmixed
  <2>2. CASE ~ (Cardinality({cached[k] : k \in DOMAIN cached} \ {None}) > 1)
    BY <2>2, FewNames
  <2>. QED BY <1>1, <2>1, <2>2
<1>3. \E given \in Name : creds' = Given(given) /\ job' = Constructor(given)
  BY DEF Reload, Name
<1>4. Fresh'
  BY <1>1, <1>2, <1>3 DEF Fresh
<1>5. Fresh' => Unmixed'
  BY NewUnmixed, PTL
<1>. QED BY <1>4, <1>5

LEMMA NextTogether ==
    ASSUME TypeOK, Known, Together, [Next]_vars
    PROVE  Together'
<1>. SUFFICES ASSUME ~ torn' PROVE Unmixed'
  BY DEF Together
<1>1. ~ torn
  BY DEF Next, vars, hist, Connect, Disconnect, SimulateDisconnect, GetItem, SetItem,
         RemoveItem, StorageFails, Created, CreateFails, OnOpen, OnClose, FireTimer, Expire,
         Reload
<1>2. Unmixed
  BY <1>1 DEF Together
<1>3. ASSUME UNCHANGED <<creds, job, cached>>
      PROVE  Unmixed'
  BY <1>2, <1>3 DEF Unmixed, Active, Removal
<1>4. CASE UNCHANGED vars
  BY <1>3, <1>4 DEF vars, client
<1>5. CASE SimulateDisconnect \/ FireTimer \/ Expire \/ \E w \in Socket : OnOpen(w)
  BY <1>3, <1>5 DEF SimulateDisconnect, FireTimer, Expire, OnOpen, client
<1>6. ASSUME NEW t \in Task, NEW purge \in BOOLEAN, Disconnect(t, purge)
      PROVE  Unmixed'
  <2>1. UNCHANGED <<creds, cached>>
    BY <1>6 DEF Disconnect
  <2>2. CASE UNCHANGED job
    BY <1>3, <2>1, <2>2
  <2>3. CASE Free(t) /\ Start(t, Job("clearing", "end", Nothing))
    BY <1>2, <2>1, <2>3, RemovalUnmixed DEF Free
  <2>. QED BY <1>6, <2>2, <2>3 DEF Disconnect
<1>7. ASSUME NEW w \in Socket, NEW clean \in BOOLEAN, OnClose(w, clean)
      PROVE  Unmixed'
  <2>1. UNCHANGED <<creds, cached>>
    BY <1>7 DEF OnClose
  <2>2. CASE UNCHANGED job
    BY <1>3, <2>1, <2>2
  <2>3. ASSUME NEW t \in Task, Free(t), Start(t, Job("clearing", "end", Nothing))
        PROVE  Unmixed'
    BY <1>2, <2>1, <2>3, RemovalUnmixed DEF Free
  <2>. QED BY <1>7, <2>2, <2>3 DEF OnClose
<1>8. ASSUME NEW t \in Task, NEW lands \in BOOLEAN, SetItem(t, lands)
      PROVE  Unmixed'
  <2>1. lands = TRUE
    BY <1>8 DEF SetItem
  <2>. QED BY <1>2, <1>8, <2>1, SetItemUnmixed
<1>9. ASSUME NEW t \in Task, CreateFails(t)
      PROVE  Unmixed'
  <2>1. /\ UNCHANGED <<creds, cached>> /\ job[t].pc = "creating" /\ Start(t, Done)
    BY <1>9 DEF CreateFails
  <2>2. job'[t] = Done /\ \A u \in Task \ {t} : job'[u] = job[u]
    BY <2>1, StartFacts, DoneType
  <2>3. Thinner /\ OneSession(creds') /\ ~ Active(t)'
    BY <1>2, <2>1, <2>2 DEF Thinner, Unmixed, OneSession, Active
  <2>. QED BY <1>2, <2>1, <2>2, <2>3, StaysUnmixed, DoneType
<1>. QED BY <1>2, <1>4, <1>5, <1>6, <1>7, <1>8, <1>9, ConnectUnmixed, GetItemUnmixed,
            RemoveItemUnmixed, StorageFailsUnmixed, CreatedUnmixed, ReloadUnmixed DEF Next

\* Id, signature and time of creation of the credentials in use are those of one session,
\* however reloads, removals and loads fall between two keys, unless a persist is refused,
\* overlapped, or cut short over an older session's keys: the ways the code mixes two.
THEOREM CredentialsBelongTogether == Spec => []OneSessionsCredentials
<1>. DEFINE I == TypeOK /\ Known /\ Together
<1>1. Init => I
  <2>. SUFFICES ASSUME Init PROVE Together
    BY InitKnown
  <2>1. PICK given \in Name, earlier \in Name :
          /\ creds = Given(given) /\ job = Constructor(given)
          /\ cached = IF earlier = None THEN Nothing ELSE Own(earlier)
    BY DEF Init, Name
  <2>2. Whole(cached, earlier)
    BY <2>1, NothingType, OwnType DEF Whole, Name
  <2>3. Fresh
    BY <2>1, <2>2 DEF Fresh
  <2>. QED BY <2>3, NewUnmixed DEF Together
<1>2. I /\ [Next]_vars => I'
  BY NextKnown, NextTogether
<1>3. I => OneSessionsCredentials
  BY DEF Together, Unmixed, OneSession, OneSessionsCredentials
<1>. QED BY <1>1, <1>2, <1>3, PTL DEF Spec

=============================================================================
