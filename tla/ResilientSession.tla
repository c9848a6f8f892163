--------------------------- MODULE ResilientSession ---------------------------
(***************************************************************************)
(* client-sdk/src/resilient-session.ts: one ResilientVoiceSession, driven  *)
(* by the application (connect, disconnect, endCall, simulateDisconnect),  *)
(* its WebSockets' events, its reconnect timer and its storage adapter.    *)
(* JavaScript runs to completion: a step is what happens between two       *)
(* awaits or in one event handler.  Adapter calls may be asynchronous      *)
(* (types.ts, SessionStorageAdapter), so each key is a step of its own.    *)
(***************************************************************************)
EXTENDS Integers, Sequences, FiniteSets

CONSTANTS
    Session,     \* sessions the server can mint
    Socket,      \* WebSocket objects in use at the same time
    Task,        \* async functions in progress at the same time
    MaxAttempts, \* maxReconnectAttempts
    MaxMishaps,  \* bound on the reloads, failures of the adapter and hurried calls
    None

ASSUME ClientAssumption ==
    /\ MaxAttempts \in Nat
    /\ MaxMishaps \in Nat
    /\ None \notin Session \cup Socket \cup Task

VARIABLES
    creates,    \* options.createSessionUrl is given
    creds,      \* this.credentials
    status,     \* this.status
    current,    \* this.socket
    attempt,    \* this.reconnectAttempt
    timer,      \* a reconnect timer is pending
    userClosed, \* this.userInitiatedClose
    sock,       \* the WebSockets the object has created
    job,        \* the async functions in progress
    cached,     \* the adapter's three keys
    old,        \* the creation stamps whose time to live has run out
    minted,     \* the sessions created so far
    thrown,     \* history: the last attempt to open a socket ended in an exception
    rushed,     \* history: connect was called with a connection or a connect in place
    ending,     \* history: what became of the last endCall, connect not called since
    torn,       \* history: a write of credentials was refused, cut short or overlapped
    mishaps     \* how many there have been, of those MaxMishaps bounds

client == <<creds, status, current, attempt, timer, userClosed>>
env    == <<creates, old, minted>>
hist   == <<thrown, rushed, ending, torn>>
vars   == <<client, sock, job, cached, env, hist, mishaps>>

Keys == <<"id", "sig", "start">>

\* Three strings, each named by the session it belongs to.
Strings == [id : Session \cup {None}, sig : Session \cup {None},
            start : Session \cup {None}]

ASSUME StringsAssumption == None \notin Strings

Nothing == [id |-> None, sig |-> None, start |-> None]

Own(s) == [id |-> s, sig |-> s, start |-> s]

\* Credentials loaded without "start" are stamped with the time of the load.
Expired(c) == c.start \in old

Closed == [st |-> "none", session |-> None]

Done == [pc |-> "done", then |-> "end", key |-> 1, data |-> Nothing]

\* then: what the caller of the storage helper does afterwards.
Job(pc, then, data) == [Done EXCEPT !.pc = pc, !.then = then, !.data = data]

\* The constructor, which persists the credentials it is given over whatever keys the
\* adapter has, and does not wait for it; given is None without options.credentials.
Given(given) == IF given = None THEN None ELSE Own(given)

Constructor(given) ==
    [t \in Task |-> IF given # None /\ t = CHOOSE u \in Task : TRUE
                    THEN Job("persisting", "end", Own(given)) ELSE Done]

\* The first page may find the credentials of an earlier one.
Init ==
    /\ creates \in BOOLEAN
    /\ \E given \in Session \cup {None}, earlier \in Session \cup {None} :
        /\ creds = Given(given)
        /\ job = Constructor(given)
        /\ cached = IF earlier = None THEN Nothing ELSE Own(earlier)
        /\ minted = {given, earlier} \ {None}
    /\ status = "idle"
    /\ current = None
    /\ attempt = 0
    /\ timer = FALSE
    /\ userClosed = FALSE
    /\ sock = [w \in Socket |-> Closed]
    /\ old = {}
    /\ thrown = FALSE
    /\ rushed = FALSE
    /\ ending = "none"
    /\ torn = FALSE
    /\ mishaps = 0

Connecting == {w \in Socket : sock[w].st = "connecting"}
Open       == {w \in Socket : sock[w].st = "open"}
Closing    == {w \in Socket : sock[w].st = "closing"}

\* t, the first unused slot, takes a new async function; slots are interchangeable.
Free(t) == job[t] = Done /\ t = CHOOSE u \in Task : job[u] = Done

\* connect in progress, and a removal that nothing waits for.
InConnect(t) == job[t].then # "end"
Removal(t) == job[t].pc = "clearing" /\ job[t].then = "end"

\* Nothing that was started is still in progress.
Settled ==
    /\ Connecting \cup Closing = {}
    /\ \A t \in Task : job[t] = Done

\* A step that is a mishap if so is one of those that are bounded.
Mishap(so) ==
    /\ so => mishaps < MaxMishaps
    /\ mishaps' = IF so THEN mishaps + 1 ELSE mishaps

-----------------------------------------------------------------------------
(* Segments of connect, shared by the steps that reach them.               *)

Start(t, j) == job' = [job EXCEPT ![t] = j]

\* establishWebSocket: a socket; or new URL, the factory or new WebSocket throws
\* inside the Promise executor, as reading the session of no credentials does, and
\* leaves the status that was set, no socket and no event; or there is no WebSocket.
Dial(c, again) ==
    \/ /\ c # None
       /\ status' = IF again THEN "reconnecting" ELSE "connecting"
       /\ thrown' = FALSE
       /\ \E w \in Socket :
              /\ sock[w] = Closed
              /\ w = CHOOSE v \in Socket : sock[v] = Closed
              /\ sock' = [sock EXCEPT ![w] =
                     [st |-> "connecting", session |-> c.id]]
    \/ /\ status' = IF again THEN "reconnecting" ELSE "connecting"
       /\ thrown' = TRUE
       /\ UNCHANGED sock
    \/ /\ c # None
       /\ status' = "error"
       /\ thrown' = TRUE
       /\ UNCHANGED sock

\* connect with the credentials c it has come to: the handshake, a new session, or an
\* exception where none can be created; the status is st until then.
Proceed(t, c, st) ==
    \/ /\ c # None
       /\ Start(t, Done)
       /\ Dial(c, FALSE)
    \/ /\ c = None /\ creates
       /\ Start(t, Job("creating", "dial", Nothing))
       /\ status' = "creating_session"
       /\ UNCHANGED <<sock, thrown>>
    \/ /\ c = None /\ ~ creates
       /\ Start(t, Done)
       /\ status' = st
       /\ thrown' = TRUE
       /\ UNCHANGED sock

\* After the credentials in memory or storage have been looked up.
CheckCredentials(t, c, expired) ==
    \/ /\ c # None /\ expired
       /\ Start(t, Job("clearing", "create", Nothing))
       /\ UNCHANGED <<status, sock, thrown>>
    \/ /\ ~ (c # None /\ expired)
       /\ Proceed(t, c, status)

-----------------------------------------------------------------------------
(* The application.                                                         *)

Connect(t) ==
    /\ Mishap(~ Settled \/ Open # {})
    /\ Free(t)
    /\ userClosed' = FALSE
    /\ timer' = FALSE
    /\ rushed' = (rushed \/ Connecting \cup Open \cup Closing # {}
                        \/ \E u \in Task : InConnect(u))
    /\ ending' = "none"
    /\ torn' = (torn \/ /\ creds = None \/ Expired(creds)
                        /\ \E u \in Task : job[u] # Done /\ ~ Removal(u))
    /\ UNCHANGED <<creds, current, attempt, cached, env>>
    /\ IF creds = None
       THEN /\ Start(t, Job("loading", "dial", Nothing))
            /\ UNCHANGED <<status, sock, thrown>>
       ELSE CheckCredentials(t, creds, Expired(creds))

\* endCall closes what there is to close unless a handshake, a connection that is not
\* this.socket or another async function goes on.
Unfinished ==
    \/ Connecting \cup (Open \ {current}) # {}
    \/ \E t \in Task : job[t] # Done /\ ~ Removal(t)

\* Slip: the close is not marked as the user's own.
DisconnectUnmarked(t, purge) ==
    /\ Mishap(~ Settled)
    /\ timer' = FALSE
    /\ IF purge THEN Free(t) /\ Start(t, Job("clearing", "end", Nothing))
                ELSE UNCHANGED job
    /\ sock' = IF current = None THEN sock
               ELSE [sock EXCEPT ![current].st = "closing"]
    /\ current' = None
    /\ status' = "disconnected"
    /\ ending' = IF ~ purge THEN ending
                 ELSE IF Unfinished THEN "hasty" ELSE "clean"
    /\ UNCHANGED <<creds, attempt, userClosed, cached, env, thrown, rushed, torn>>

\* disconnect, and endCall, which is disconnect with purgeCredentials: the
\* removal is started, not awaited.  Only this.socket is closed, which a socket
\* becomes when it opens.
Disconnect(t, purge) ==
    /\ Mishap(~ Settled)
    /\ userClosed' = TRUE
    /\ timer' = FALSE
    /\ IF purge THEN Free(t) /\ Start(t, Job("clearing", "end", Nothing))
                ELSE UNCHANGED job
    /\ sock' = IF current = None THEN sock
               ELSE [sock EXCEPT ![current].st = "closing"]
    /\ current' = None
    /\ status' = "disconnected"
    /\ ending' = IF ~ purge THEN ending
                 ELSE IF Unfinished THEN "hasty" ELSE "clean"
    /\ UNCHANGED <<creds, attempt, cached, env, thrown, rushed, torn>>

\* For tests.  A browser refuses close(1006), other WebSockets take it.
SimulateDisconnect ==
    /\ Mishap(~ Settled)
    /\ userClosed' = FALSE
    /\ \/ UNCHANGED sock
       \/ /\ current # None
          /\ sock' = [sock EXCEPT ![current].st = "closing"]
    /\ ending' = IF ending = "clean" /\ Closing # {} THEN "hasty" ELSE ending
    /\ UNCHANGED <<creds, status, current, attempt, timer, job, cached, env,
                   thrown, rushed, torn>>

-----------------------------------------------------------------------------
(* The storage adapter, key by key.                                         *)

KeyOf(t) == Keys[job[t].key]

NextKey(t) == [job[t] EXCEPT !.key = @ + 1]

\* Slip: an id is enough.
GetItemUnpaired(t) ==
    LET got == [job[t].data EXCEPT ![KeyOf(t)] = cached[KeyOf(t)]]
        loaded == IF got.id = None THEN None ELSE got
    IN
    /\ job[t].pc = "loading"
    /\ UNCHANGED <<current, attempt, timer, userClosed, cached, creates, minted,
                   rushed, ending, torn, mishaps>>
    /\ IF job[t].key < Len(Keys)
       THEN /\ Start(t, [NextKey(t) EXCEPT !.data = got])
            /\ UNCHANGED <<creds, status, sock, old, thrown>>
       ELSE /\ creds' = loaded
            /\ old' = old \ {None}
            /\ CheckCredentials(t, loaded, got.start \in old \ {None})

\* loadStoredCredentials: nothing unless both id and signature are there.
GetItem(t) ==
    LET got == [job[t].data EXCEPT ![KeyOf(t)] = cached[KeyOf(t)]]
        loaded == IF None \in {got.id, got.sig} THEN None ELSE got
    IN
    /\ job[t].pc = "loading"
    /\ UNCHANGED <<current, attempt, timer, userClosed, cached, creates, minted,
                   rushed, ending, torn, mishaps>>
    /\ IF job[t].key < Len(Keys)
       THEN /\ Start(t, [NextKey(t) EXCEPT !.data = got])
            /\ UNCHANGED <<creds, status, sock, old, thrown>>
       ELSE /\ creds' = loaded
            /\ old' = old \ {None}
            /\ CheckCredentials(t, loaded, got.start \in old \ {None})

\* A call of the adapter that fails while endCall's removal is under way.
EndingAfter(ok) == IF ending = "clean" /\ ~ ok THEN "failed" ELSE ending

\* The value v of the next key reaches the adapter's store, or the localStorage
\* refuses it and LocalStorageAdapter applies it to its fallback instead, silently:
\* the next read finds localStorage in order, and the old value in it.
Store(t, v, lands) ==
    /\ cached' = IF lands THEN [cached EXCEPT ![KeyOf(t)] = v] ELSE cached
    /\ ending' = EndingAfter(lands)

\* persistCredentials, and then the handshake with whatever is in memory.
SetItem(t, lands) ==
    /\ Mishap(~ lands)
    /\ job[t].pc = "persisting"
    /\ Store(t, job[t].data[KeyOf(t)], lands)
    /\ torn' = (torn \/ ~ lands)
    /\ UNCHANGED <<creds, current, attempt, timer, userClosed, env, rushed>>
    /\ IF job[t].key < Len(Keys)
       THEN Start(t, NextKey(t)) /\ UNCHANGED <<status, sock, thrown>>
       ELSE /\ Start(t, Done)
            /\ IF job[t].then = "dial" THEN Dial(creds, FALSE)
               ELSE UNCHANGED <<status, sock, thrown>>

\* clearStoredCredentials forgets the credentials in memory last, whichever
\* they are by then; connect goes on to createSession.
RemoveItem(t, lands) ==
    /\ Mishap(~ lands)
    /\ job[t].pc = "clearing"
    /\ Store(t, None, lands)
    /\ UNCHANGED <<current, attempt, timer, userClosed, env, rushed, torn>>
    /\ IF job[t].key < Len(Keys)
       THEN Start(t, NextKey(t)) /\ UNCHANGED <<creds, status, sock, thrown>>
       ELSE /\ creds' = None
            /\ IF job[t].then = "create" THEN Proceed(t, None, "expired")
               ELSE Start(t, Done) /\ UNCHANGED <<status, sock, thrown>>

\* The adapter throws: the helper warns and returns.  A load then finds nothing,
\* a removal leaves the (expired) credentials in memory and connect uses them.
StorageFails(t) ==
    /\ Mishap(TRUE)
    /\ ending' = EndingAfter(FALSE)
    /\ torn' = (torn \/ job[t].pc = "persisting")
    /\ UNCHANGED <<current, attempt, timer, userClosed, cached, env, rushed>>
    /\ \/ /\ job[t].pc = "loading"
          /\ creds' = None
          /\ CheckCredentials(t, None, FALSE)
       \/ /\ job[t].pc = "clearing" /\ job[t].then = "create"
          /\ UNCHANGED creds
          /\ Proceed(t, creds, "expired")
       \/ /\ job[t].pc \in {"persisting", "clearing"} /\ job[t].then # "create"
          /\ UNCHANGED creds
          /\ Start(t, Done)
          /\ IF job[t].then = "dial" THEN Dial(creds, FALSE)
             ELSE UNCHANGED <<status, sock, thrown>>

-----------------------------------------------------------------------------
(* createSession, the answer of POST /create_session.                       *)

Created(t) ==
    /\ job[t].pc = "creating"
    /\ \E s \in Session \ minted :
        /\ minted' = minted \cup {s}
        /\ creds' = Own(s)
        /\ Start(t, Job("persisting", "dial", Own(s)))
    /\ UNCHANGED <<status, current, attempt, timer, userClosed, sock, cached,
                   creates, old, hist, mishaps>>

CreateFails(t) ==
    /\ job[t].pc = "creating"
    /\ status' = "error"
    /\ Start(t, Done)
    /\ UNCHANGED <<creds, current, attempt, timer, userClosed, sock, cached, env,
                   hist, mishaps>>

-----------------------------------------------------------------------------
(* WebSocket events and the timer.                                          *)

OnOpen(w) ==
    /\ sock[w].st = "connecting"
    /\ sock' = [sock EXCEPT ![w].st = "open"]
    /\ current' = w
    /\ attempt' = 0
    /\ status' = "connected"
    /\ UNCHANGED <<creds, timer, userClosed, job, cached, env, hist, mishaps>>

\* Slip: attempts are not counted.
AutoReconnectUncounted ==
    IF attempt >= MaxAttempts
    THEN status' = "disconnected" /\ UNCHANGED <<attempt, timer, thrown>>
    ELSE /\ UNCHANGED attempt
         /\ status' = "reconnecting"
         /\ timer' = TRUE
         /\ thrown' = FALSE

\* Slip: one attempt too many.
AutoReconnectOneMore ==
    IF attempt > MaxAttempts
    THEN status' = "disconnected" /\ UNCHANGED <<attempt, timer, thrown>>
    ELSE /\ attempt' = attempt + 1
         /\ status' = "reconnecting"
         /\ timer' = TRUE
         /\ thrown' = FALSE

\* Slip: the timer is only set for the first attempt.
AutoReconnectOnce ==
    IF attempt >= MaxAttempts
    THEN status' = "disconnected" /\ UNCHANGED <<attempt, timer, thrown>>
    ELSE /\ attempt' = attempt + 1
         /\ status' = "reconnecting"
         /\ timer' = (attempt = 0)
         /\ thrown' = FALSE

\* handleAutoReconnect
AutoReconnect ==
    IF attempt >= MaxAttempts
    THEN status' = "disconnected" /\ UNCHANGED <<attempt, timer, thrown>>
    ELSE /\ attempt' = attempt + 1
         /\ status' = "reconnecting"
         /\ timer' = TRUE
         /\ thrown' = FALSE

\* onclose of any socket, also of one that is not this.socket.  A handshake that
\* fails, a drop and an unanswered close are not clean (code 1006).
OnClose(w, clean) ==
    /\ sock[w] # Closed
    /\ clean => sock[w].st # "connecting"
    /\ sock' = [sock EXCEPT ![w] = Closed]
    /\ current' = None
    /\ UNCHANGED <<creds, userClosed, cached, env, rushed, ending, torn, mishaps>>
    /\ \/ /\ userClosed \/ clean
          /\ status' = "disconnected"
          /\ UNCHANGED <<attempt, timer, job, thrown>>
       \/ /\ ~ userClosed /\ ~ clean
          /\ creds # None /\ Expired(creds)
          /\ \E t \in Task : /\ Free(t)
                             /\ Start(t, Job("clearing", "end", Nothing))
          /\ status' = "expired"
          /\ UNCHANGED <<attempt, timer, thrown>>
       \/ /\ ~ userClosed /\ ~ clean
          /\ ~ (creds # None /\ Expired(creds))
          /\ AutoReconnect
          /\ UNCHANGED job

\* Slip: the fired timer counts as pending.
FireTimerKept ==
    /\ timer
    /\ UNCHANGED timer
    /\ IF userClosed THEN UNCHANGED <<status, sock, thrown>> ELSE Dial(creds, TRUE)
    /\ UNCHANGED <<creds, current, attempt, userClosed, job, cached, env,
                   rushed, ending, torn, mishaps>>

\* The timer's callback; what establishWebSocket throws is dropped.
FireTimer ==
    /\ timer
    /\ timer' = FALSE
    /\ IF userClosed THEN UNCHANGED <<status, sock, thrown>> ELSE Dial(creds, TRUE)
    /\ UNCHANGED <<creds, current, attempt, userClosed, job, cached, env,
                   rushed, ending, torn, mishaps>>

-----------------------------------------------------------------------------
\* Time passes the time to live of credentials.
Expire ==
    /\ \E s \in (minted \cup {None}) \ old : old' = old \cup {s}
    /\ UNCHANGED <<client, sock, job, cached, creates, minted, hist, mishaps>>

\* The page is reloaded: only what the adapter keeps is left, and a new object, with
\* credentials of its own or without.  It tears the keys if it cuts a persist that has
\* come to write over another session's, and leaves endCall's removal without effect if
\* that had not come to its first key.
Reload ==
    /\ Mishap(TRUE)
    /\ \E given \in Session \cup {None} :
        /\ creds' = Given(given)
        /\ job' = Constructor(given)
        /\ minted' = minted \cup ({given} \ {None})
        /\ ending' = IF given # None THEN "none"
                     ELSE IF ending = "clean" /\ cached.id # None THEN "cut" ELSE ending
    /\ status' = "idle"
    /\ current' = None
    /\ attempt' = 0
    /\ timer' = FALSE
    /\ userClosed' = FALSE
    /\ sock' = [w \in Socket |-> Closed]
    /\ thrown' = FALSE
    /\ rushed' = FALSE
    /\ torn' = (torn \/ /\ \E t \in Task : job[t].pc = "persisting"
                        /\ Cardinality({cached[k] : k \in DOMAIN cached} \ {None}) > 1)
    /\ UNCHANGED <<cached, creates, old>>

Next ==
    \/ \E t \in Task :
        \/ Connect(t)
        \/ \E purge \in BOOLEAN : Disconnect(t, purge)
        \/ GetItem(t) \/ StorageFails(t)
        \/ \E lands \in BOOLEAN : SetItem(t, lands) \/ RemoveItem(t, lands)
        \/ Created(t) \/ CreateFails(t)
    \/ SimulateDisconnect
    \/ \E w \in Socket : OnOpen(w) \/ \E clean \in BOOLEAN : OnClose(w, clean)
    \/ FireTimer
    \/ Expire
    \/ Reload

\* Timers fire, a handshake succeeds or fails, a close completes or times out,
\* and so do the calls of the adapter and of fetch.
Fairness ==
    /\ WF_vars(FireTimer)
    /\ \A w \in Socket :
        WF_vars(sock[w].st # "open" /\ (OnOpen(w) \/ OnClose(w, FALSE)))
    /\ \A t \in Task :
        /\ WF_vars(GetItem(t) \/ StorageFails(t) \/ \E lands \in BOOLEAN :
                       SetItem(t, lands) \/ RemoveItem(t, lands))
        /\ WF_vars(Created(t) \/ CreateFails(t))

Spec == Init /\ [][Next]_vars /\ Fairness

-----------------------------------------------------------------------------
TypeOK ==
    /\ creds \in Strings \cup {None}
    /\ status \in {"idle", "creating_session", "connecting", "connected",
                   "reconnecting", "disconnected", "expired", "error"}
    /\ current \in Socket \cup {None}
    /\ attempt \in 0..MaxAttempts
    /\ {creates, timer, userClosed, thrown, rushed, torn} \subseteq BOOLEAN
    /\ mishaps \in 0..MaxMishaps
    /\ ending \in {"none", "clean", "hasty", "cut", "failed"}
    /\ sock \in [Socket -> [st : {"none", "connecting", "open", "closing"},
                            session : Session \cup {None}]]
    /\ job \in [Task ->
          [pc : {"done", "loading", "creating", "persisting", "clearing"},
           then : {"end", "create", "dial"}, key : 1..Len(Keys), data : Strings]]
    /\ cached \in Strings
    /\ old \subseteq Session \cup {None}
    /\ minted \subseteq Session

\* However the application calls disconnect, endCall and simulateDisconnect, there are
\* never two live connections unless it calls connect while a connection or another
\* connect is in place (rushed): at most one socket is opening or open, it serves the
\* session whose credentials the client would reconnect with, if it still has any, no
\* timer is about to dial another, and "connected" means this.socket is that one.
OneConnection ==
    ~ rushed =>
        /\ Cardinality(Connecting \cup Open) <= 1
        /\ \A w \in Connecting \cup Open : creds = None \/ sock[w].session = creds.id
        /\ Connecting \cup Open # {} => ~ timer
        /\ status = "connected" => current \in Open \cup Closing

\* "reconnecting" is a dead end only after an exception: else a timer is pending, or a
\* handshake or a connect is in progress, whatever the application does.  The comment in
\* handleAutoReconnect (resilient-session.ts:346) says that a failure in
\* establishWebSocket always triggers onclose: not one that is thrown, in the timer's
\* callback or to the caller of connect, after which nothing tries again.
NeverStranded ==
    status = "reconnecting" /\ ~ thrown =>
        \/ timer
        \/ Connecting # {}
        \/ \E t \in Task : InConnect(t)

\* endCall "Concludes the call cleanly, closing the socket and removing cached session
\* credentials": once what was going on has settled there is no open socket, no timer
\* to open one, and nothing that a later connect could resume from, in memory or in
\* storage, also if the page is reloaded while the keys are removed.  It is so unless
\* endCall comes during a handshake or another async function, or simulateDisconnect
\* during its close (hasty), unless the adapter fails, and unless the reload comes
\* before the first key is removed (cut): in these cases the code breaks the promise.
EndCallConcludes ==
    ending = "clean" /\ Settled =>
        /\ Open = {}
        /\ ~ timer
        /\ creds = None
        /\ None \in {cached.id, cached.sig}

\* The credentials that are used are those of one session, id, signature and time of
\* creation, over reloads between two keys and removals at any time.  What mixes two
\* sessions is that a write of persistCredentials is refused, that connect comes to the
\* storage while a persist or another connect is under way, or that the page is reloaded
\* when a persist has written some of its keys over those of an older session (torn),
\* as the constructor's does with the credentials it is given.
OneSessionsCredentials ==
    creds # None /\ ~ torn =>
        creds.sig = creds.id /\ creds.start \in {creds.id, None}

\* A dropped connection is not retried forever, whatever the network and the application
\* do: it is resumed, given up or found expired, unless an exception ends the retries
\* without another word.
RetriesEnd == status = "reconnecting" ~> (status # "reconnecting" \/ thrown)
=============================================================================
