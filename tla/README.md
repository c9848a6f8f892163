# Verification of pipecat-session-continuity

TLA+ models of the parts of this repository that keep a voice session alive
over disconnects, crashes and retries, the TLC runs that check them on small
instances and the TLAPS proofs that hold for instances of any size. Paths are
relative to the repository; `pkg/` stands for `pipecat_session_continuity/`,
`sdk/` for `client-sdk/src/`.

## 1. The system

A voice bot runs a pipeline for each connection of a client. The package saves
the conversation (messages, tool calls, metadata) under the session's id and
gives it back when the client connects again. The client SDK keeps the
connection and the session's credentials.

| Component | State | Operations | Talks to |
|---|---|---|---|
| `IdempotencyRegistry` (`pkg/idempotency.py`) | `records` by idempotency key, `_call_id_to_key` | `register_call`, `complete_call`, `fail_call`, `check`, `get_record`, `to_dict`, `_load_from_dict`; the pure `canonicalize_arguments`, `generate_idempotency_key` | called by the facade |
| `SessionContinuity` (`pkg/__init__.py`) | none of its own; works on the host's registry or dictionary and on its `LLMContext` | `resume_or_start`, `check_tool_idempotency`, `record_tool_call`, `complete_tool_call`, `checkpoint`, `get_metadata`, `set_metadata`, `clear` | registry, manager, metrics |
| `SessionContinuityManager` (`pkg/manager.py`) | timings | `save_context`, `load_context`, `clear_context` | a storage backend, awaited; metrics |
| Storage interface (`pkg/storage/base.py`) | one row per session, with a time to live | `save`, `load`, `delete`, `purge_expired` | |
| `SQLiteStorage` | database, lock, shared connection if in memory | the same, in worker threads | SQLite |
| `RedisStorage` | the server's keys, or `_memory_store` if the server was not there at the start | the same | Redis |
| `SessionContinuityProcessor` (`pkg/processor.py`) | `_active_tasks`, metadata | `process_frame`, `_schedule_checkpoint`, `_do_checkpoint`, `set_metadata`, `cleanup` | the facade, from asyncio tasks |
| Metrics (`pkg/metrics.py`) | counters in memory and in a backend | `record_...` of each exporter, the composite | called inside the operations they count |
| `ResilientVoiceSession` (`sdk/resilient-session.ts`) | credentials, status, socket, attempts, timer, `userInitiatedClose` | `connect`, `disconnect`, `endCall`, `simulateDisconnect`, socket events, timer | WebSocket, `fetch`, a storage adapter |
| Client helpers (`sdk/storage.ts`, `sdk/idempotency.ts`, `sdk/backoff.ts`) | the adapters' keys | `getItem`, `setItem`, `removeItem`, `canonicalizeArguments`, delays | used by the session and by clients |
| Voice bot (`src/bot.py`) | context, tool dictionary, `is_resumed`, `session_completed` | connect, turn-end and disconnect handlers, `book_appointment`, `end_call` | all of the server side |
| Tokens, WebRTC bot, examples, benchmarks | none | | |

What makes it hard:

* asyncio tasks suspend in every storage call, the calls run in threads, and the
  threads finish in any order;
* with a database file SQLite serialises statements, not operations;
* a worker may be killed at any point, and the next connection goes back to the
  last checkpoint that landed, with the LLM trying its tool calls again;
* every reconnect adds to what the next one will load: notices in the messages,
  ids in the registry, metadata carried along or dropped;
* errors of the storage are swallowed: a failed save looks like a success and a
  failed load like a new session; errors of a metrics backend are not, and reach
  the operation that is being counted;
* in the client the application, socket events, the timer and asynchronous
  storage interleave between any two awaits, and a reload cuts them short.

What makes each part correct: one outcome per logical request, found by every
name of it, kept over reconnects (registry); arguments that mean the same are the
same request (arguments); the same answers with a dictionary as with a registry
(facade); a connection that goes on where the last checkpoint was, and an LLM that
is told the truth about it (dialogue); operations that look atomic and rows that
vanish only by deletion or age (storage); snapshots of one moment that never go
backwards, and a final one that stays (checkpoints); counters that do no harm and
lose nothing (metrics); one connection, no dead end, no leftover of a finished call,
credentials of one session (client); nothing executed twice (bot). The code does not
keep all of this under all circumstances. Where it does not, the model has the
circumstance all the same, a history variable records it in the very step in which it
happens, and the property names it: what a property excuses can be read off it.

## 2. Modules

| Module | Models | Relation |
|---|---|---|
| `ToolRegistry` | the methods of `pkg/idempotency.py` as operators on registries | |
| `ToolArguments` | the canonical arguments and the key, of server and client | pure operators |
| `IdempotencyRegistry` | a host with one registry: its calls, checkpoints and reconnects | EXTENDS `ToolRegistry` |
| `ToolRequests` | the registry with keys made of tools, arguments and tokens | composes `IdempotencyRegistry` and `ToolArguments` |
| `ToolCallFacade` | the tool-call methods of `pkg/__init__.py`, one registry host and one dictionary host side by side | EXTENDS `IdempotencyRegistry` |
| `SessionDialogue` | `resume_or_start`, `checkpoint`, `set_metadata`, `clear` over `RedisStorage`: one session over many connections | |
| `SessionStore` | what `pkg/storage/base.py` promises | abstract |
| `SQLiteStorage` | `pkg/storage/sqlite_storage.py`, statement by statement | implements `SessionStore` when in memory (`KeepsContract`) |
| `Checkpointing` | `pkg/processor.py`, `pkg/manager.py`, `checkpoint` and `set_metadata`, with their interleavings | |
| `SessionMetrics` | `pkg/metrics.py` and the calls to it | |
| `VoiceBot` | `src/bot.py`: the connections of one session over a stored row | composes `ToolRegistry` with storage calls in flight |
| `ResilientSession` | `sdk/resilient-session.ts`, `sdk/storage.ts` | |
| `ToolRegistryProofs`, `IdempotencyRegistryProofs`, `SessionDialogueProofs`, `SQLiteStorageProofs`, `CheckpointingProofs`, `VoiceBotProofs`, `ResilientSessionProofs`, `SessionMetricsProofs` | theorems | each EXTENDS its module and TLAPS |

`MC*.tla` give the constants that need a definition; the other runs take their
constants from the `.cfg` alone. Operators marked *Slip* are deliberate
mistakes (a forgotten index entry, a lock of one's own, a timer not cleared).
They stand before the operator they are a version of and are used in no
specification; putting one in its place makes the property named in
`PROJECT.json` fail, which is how we know the property can.

### ToolRegistry and IdempotencyRegistry

`reg.records` and `reg.index` are the two dictionaries of the class; keys, call
ids and results are model values, and the key is a function `KeyOf` of the call.
Each method is an operator on registries (`RegisterCall`, `Settle`, `Check`,
`ToDict`, `LoadFromDict`) in `ToolRegistry`; in `IdempotencyRegistry` each
action is a method call by a host. `saved` is the dictionary in storage;
`Checkpoint` and `Resume` are atomic here, since their interleavings are
the subject of `Checkpointing`. `Resume` drops everything since the last
checkpoint: it is a reconnect, a crash with restart, or a second worker.
Left out: timestamps (no decision depends on them) and the legacy storage
format, whose entries carry no idempotency key.

### ToolArguments and ToolRequests

Whether two calls are one request is decided by `canonicalize_arguments`. A value
is a tuple with its kind first; a JSON text is the value it is a text of, so what
the conversion does (parse a string, sort keys at every depth, wrap what is not a
structure, take nothing for `{}`) is there and characters are not. `Value` is any set
of finitely nested values that contains what its members consist of; keys are
positive numbers, in the order of the strings they stand for, beside the two the code
adds itself (`_raw`, `_val`). `Sorted` is not an algorithm: it is the arrangement of
the same pairs whose keys increase. `Meaning` is the reference: a dictionary is the
function from its keys to what they denote. `ClientCanonicalize` is the TypeScript
version, which turns a null anywhere into `{}`. `json.dumps` escapes what is not ASCII
and `JSON.stringify` does not (nor does it write 1.0 as the server does); `Foreign` and
`ForeignKey` are the atoms and keys it concerns, and a text carries the spelling
(`Spelling`). `ClientAgrees` states when the two texts are equal: exactly if the
arguments are `Plain`, without a null and without anything foreign at any depth.

In `ToolRequests` every call has a tool, arguments and perhaps a token, and calls
have the same key exactly if `GenerateKey` gives them the same text. The registry run
(one request attempted as a structure and as a text with its keys in another order,
one with a client's token) compares the canonical forms of all values of two levels
and shows what a shared or a separate key means for the answers.

### ToolCallFacade

Here dictionaries are sequences, because Python's insertion order decides which
of two entries of one request a reload keeps. `LoadOrdered` is the loop of
`_load_from_dict`, `KeyOrder` and `CallOrder` the orders it leaves in the two
dictionaries of the registry, `ToOrderedDict` writes them out one after the other,
and `Update` is `dict.update`, in which a known name keeps its place.
`OnlyFreshIds` and `OnlyNewestName` are the discipline a host has to keep for the
two kinds of hosts to agree. Without the second they do not: completing a call by
the id of an earlier attempt resolves in the live registry and is dropped by the one
rebuilt from a dictionary. And with both they do only while no request is attempted
a third time (`facade_third`): an entry under an early id still carries the id
that was newest when it was written, a load indexes that one, and after a reconnect
the ids come in the order of these visits and no longer in the order of the attempts.

### SessionDialogue

One session, its connections one after the other, operations atomic. The messages
are abstracted to what the properties tell apart: whether the host's system prompt
is among them, the newest turn, and what the newest notice about each request
says. Storage is `RedisStorage` in both forms, chosen when a process starts: a
server whose rows expire and whose calls fail, or a dictionary that does neither and
is lost with the process. `client`, `leftAt`, `said` and `last` are history.

`departed` records what the environment or the host has done amiss: a storage call
failed (*fault*), a process began with another storage (*switched*), `set_metadata`
found no session (*unmet*), a checkpoint or processor lacked some metadata (*bare*)
or the tool calls (*untooled*), the session was saved after the client had left
(*touched*). Nothing is disabled; each property names the ones it does not
survive. `ResumesLastCheckpoint` survives all but *fault* and *switched*, and
`NoticesTellOutcome` all but *untooled*.

`Expected` is what `pkg/storage/base.py:17-18` promises: the last snapshot until its
time to live is over, then nothing. The in-memory fallback does not keep that:
`pkg/storage/redis_storage.py:35-45` drops `ttl_seconds`, and a process that runs on it
resumes a session of any age. `Outlived` is that case, and `ResumesLastCheckpoint`
leaves it out in so many words.

### SQLiteStorage and SessionStore

A worker is a thread executing one operation; `pc` is the next statement.
Between two statements anything may happen with a file (each thread locks a lock
of its own), only clock ticks and waiting threads with an in-memory database.
`Stamp` is separate from `Upsert` because `time.time()` is evaluated before the
statement waits for SQLite. `Fail` is an exception at any statement.

`SessionStore` has atomic operations. `Contract` is its instance with `rows`, `now`
and `reply` for its variables: a save takes effect at its commit, a load when it
returns, and every other statement is a stuttering step of the abstract store.

### Checkpointing

A step is what the event loop executes between two suspensions. The session's
state is a counter of its changes, a snapshot the pair of counters its messages
and tools were serialised at. `task` holds the coroutines that are saving, with
their storage call scheduled, in its thread, landed. `threaded = FALSE` is the
in-memory fallback of `RedisStorage`, whose calls do not suspend and whose
contents a crash destroys. `rivals`, `blind`, `final` and `alone` are history
variables: which saves overlapped another storage call, which `set_metadata` had a
load that failed, what `EndFrame` found, whether its save was alone.
`OnlyRivalsRegress` names both ways in which storage goes back: an overlap, and a
blind `set_metadata`, which needs no overlap to put an empty session over a saved one.

### SessionMetrics

An exporter counts in its own memory and then in its backend, if it has one, which
may raise at any call (`fs` says which do). A `CompositeMetricsExporter` logs that
error; a bare exporter lets it out into the operation. `Calls` is the control flow
around them: the record calls of a `try` block up to the first that raises, and then
the error call of the `except` clause, which may raise as well. So a stored
checkpoint can be counted a second time, as a failed one, and `resume_or_start` can
fail because of its counters. A save that its backend fails and only logs
(`pkg/storage/sqlite_storage.py:96`, `pkg/storage/redis_storage.py:40`) is a success
to the manager: `lost` counts these, and the properties say that the counters
include them. Durations are counted, not measured.

### VoiceBot

A connection is a `run_bot`: whether it has resumed, whether `end_call` ended it, its
tool calls. `book_appointment` is three steps with its two checkpoints awaited between
them: `CallTool` (check, record, checkpoint called), `Act` (the effect outside the
system) and `Finish` (complete, checkpoint called). `writes` are the storage calls in
their threads, each with the content taken when it was called. `DumpLogs` is
`dump_logs_to_disk`, once per connection; a disconnect does not cancel the pipeline, so
turns end and tools are called until `RunEnds`. `effects` counts how often a request
has really been executed. The LLM may make a request again under another id, on the
same connection, a later one or another one that is still served; `Crash` kills the
worker at any point.

Nothing is assumed of the order of things. `accidents` records what has gone otherwise
than the handlers count on, in the step in which it happens:

| Accident | What happens |
|---|---|
| *failed* | a storage call fails; its error is logged and swallowed |
| *reordered* | a storage call ends before one that was made earlier |
| *overlap* | a connection loads the row while another's storage or tool call goes on, or makes one after a later connection has loaded it |
| *early* | a connection makes a storage call before `resume_or_start` has returned, which then rebinds its dictionary |
| *parallel* | a tool call is made while another goes on |
| *late* | a tool call goes on over `end_call` or comes after it, or a storage call is made when the row of the finished session has been cleared |

No code rules these out. Each of them alone, with two requests, lets a request take
effect twice, and each but *parallel* alone lets an effect be forgotten or a connection
believe what is not so (by TLC, one property and one kind of accident at a time); so
`NoDuplicateEffect` speaks of behaviours without accidents, `EffectsRemembered` and
`TrueBeliefs` of those without any but *parallel*. Crashes are no accidents.

`NoDuplicateEffect` takes a request to be what its arguments say, as `README.md` of the
repository does ("prevent duplicate tool execution at the agent boundary"). The comment
at `src/bot.py:128-129` wants something else, to tell "a genuine intentional retry (new
tool_call_id) from a resumed duplicate of the same call". The code does not do
that: `check_tool_idempotency` finds the record by the arguments whatever the id, and
a second booking that the user does want is answered with the first one's result.
The row's time to live is left out: a session that lapses is forgotten.

### ResilientSession

A step is one event handler, or what runs between two awaits; each storage key
is a step, because an adapter may be asynchronous. Two functions that return
into each other without waiting for anything (a helper and its caller) are one
step. Credentials are three strings that name the session each belongs to, so
half-written ones can be told apart; time is the set `old` of creation stamps
that are too old. The server accepts or closes any socket. An adapter's call may
fail with an error, or be refused silently: `LocalStorageAdapter` then writes to its
fallback, and the next read finds `localStorage` with the old value (`lands` is
false). Each socket remembers the session whose credentials it was opened with. A page
may give the constructor credentials, at first and after every `Reload`, which it
writes over whatever keys are there without waiting. `Dial` ends in a socket or in an
exception: `new URL`, `webSocketFactory` and `new WebSocket` may throw, there may be no
`WebSocket`, and there is no session to dial without credentials. What the
callbacks announce (`onConnected`, `onResumed` with its `wasResume`) changes no state and
is left out.

The application may call anything at any time. Again history variables record what the
code does not cope with:

| Variable | What it records | What the code does then |
|---|---|---|
| `thrown` | the last attempt to open a socket ended in an exception | the timer's callback drops it; the status stays "reconnecting", nothing tries again. The comment at `sdk/resilient-session.ts:346` says that `onclose` schedules the next retry |
| `rushed` | `connect` was called with a connection or another `connect` in place | two sockets; the late `onclose` of the first clears `this.socket` |
| `ending = "hasty"` | `endCall` came during a handshake or another async function, or `simulateDisconnect` while it closed | the socket opens later and stays open; credentials are stored again |
| `ending = "cut"` | a reload came before `endCall`'s removal had reached its first key | the whole session is left to resume from |
| `ending = "failed"` | the adapter failed or refused while keys were removed | keys are left |
| `torn` | a write of the keys was refused or failed; `connect` came to storage while a persist or another `connect` was under way; a reload cut a write over another session's keys | id, signature and stamp of two sessions |

`OneConnection` excuses `rushed` only, `NeverStranded` and `RetriesEnd` `thrown` only,
`EndCallConcludes` is about the endings that are "clean", and `OneSessionsCredentials`
excuses `torn`. A reload between two keys of a removal, `disconnect` and `endCall` at any
time, a timer that races them, expiry and drops are excused by none.
Each excuse is needed: without it TLC finds the property violated (the refused write
takes two mishaps, since a reload has to follow it).

## 3. Runs

| Run | Shows | Bounds |
|---|---|---|
| `registry` | lookups agree, round trips lose nothing, completions stick; attempts share a record exactly if they mean the same request; client and server write it alike exactly if it is plain | 2 requests, 3 call ids (two for one request), 1 result; canonical forms of all values of two levels with at most two keys or items, an atom and a key among them that are not ASCII |
| `facade` | dictionary host = registry host, loading order is immaterial for `to_dict` output | 2 requests, 2 ids each, newest names only |
| `facade_third` (violated) | a dictionary host forgets the completion of a request attempted three times | 1 request, 3 ids |
| `dialogue` | resuming is going on from the last checkpoint, within its time to live; prompt kept, notices true, "just restored" is recent, metadata kept | 1 request, 2 metadata fields (one reported by `get_metadata_fn`), 1 turn, clock to 2, time to live 2, threshold 0, one kind of departure at a time |
| `dialogue_metadata` (violated) | `set_metadata` after a failed load empties the session | same |
| `sqlite_memory` | lock discipline, live rows survive, refinement of `SessionStore` | 2 threads, 2 sessions, 2 contents, clock to 3, time to live 1; symmetric |
| `sqlite_file` (violated) | the lazy delete takes a newer row | 1 session |
| `checkpointing` | no torn snapshot, only overlapping saves and blind `set_metadata` regress, final state committed when alone, cleanup drains, everything ends | 2 coroutines saving at a time, 2 changes |
| `checkpointing_final` (violated) | the final state is overwritten by an older save | same |
| `metrics` | behind a composite counters are exact, but for writes lost without an error, and harmless; a bare exporter over-counts by what it raised | 2 exporters, 1 request, 4 operations |
| `bot` | no request takes effect twice, no effect is ahead of storage, what a connection knows of a request is true, up to the accidents each names | 2 connections, also at a time, 1 request under 2 call ids, 2 storage calls in flight, any one kind of accident; symmetric |
| `client` | one connection, that of the credentials, no dead end, clean end of call, credentials of one session, retries end | 2 sessions, 2 sockets, 2 async functions, 2 attempts, 1 mishap (a reload, a failing adapter call or a hurried call of the application) |

Why the bounds are enough: requests do not interact except through the shared
dictionaries, so two of them and a repeated attempt show every sharing; a
race needs two threads or two saves, and a third only repeats it; the clock
needs to pass one time to live once while a row is held and once more for the
row that replaced it; two attempts reach the first, the last and the reset of
the counter. Sockets and async functions are slots that are reused, so the
number bounds how many are alive together, not how many there are over time.
In `dialogue` requests are handled one by one and never meet, so one is enough;
connections and restarts are not bounded; with threshold 0 and time to live 2 a
row can be fresh, stale and lapsed within the clock. A second departure only adds an
excuse, so each alone is the strongest test; so it is with the accidents of `bot` and
the mishaps of `client` (drops, expiry, exceptions of the handshake and failures of
`fetch` are not counted among these). With two requests `bot` runs beyond a few minutes; it
has been run so without accidents and with *parallel* ones, and the proofs hold for any
number. Four operations of `metrics` let each kind precede and follow each other. For
nearly all of the safety properties the theorems of section 4 remove these bounds.

Where a run ends by design the cfg says `CHECK_DEADLOCK FALSE`: `dialogue` when its
clock and turns are used up and its client has gone, `metrics` after its last operation.

Fairness: `Checkpointing` assumes that the event loop runs ready tasks and that
a storage call ends, by success or by an error (SQLite's busy timeout, Redis'
socket errors). It assumes nothing about frames, hosts, cleanup or crashes.
`ResilientSession` assumes that timers fire, that a handshake ends one way or the
other and that `fetch` and the adapter answer or fail; nothing about the
application and nothing about success. The other specifications are safety only.

The four violated runs are disagreements between the code and what it says of
itself; `PROJECT.json` quotes the lines. Those of SQLite and of the
dictionary host were also reproduced by running the Python code in the order of the
counterexample. Where a passing run meets a disagreement, the property excludes that
case by name and its comment quotes the line: `sdk/resilient-session.ts:346` on
exceptions (`NeverStranded`), `sdk/resilient-session.ts:412` on the end of a call
(`EndCallConcludes`), `pkg/storage/base.py:17-18` on the fallback's expiry
(`ResumesLastCheckpoint`) and `src/bot.py:128-129` on intentional retries
(`NoDuplicateEffect`, which states what the code does).

## 4. Proofs

Every theorem is of the form `Spec => []Inv` or `Spec => [][A]_vars`, for all values
of the constants that satisfy the named assumptions of the module. Each proof file
has the same plan: an inductive invariant with named conjuncts, one lemma for each
action that keeps it, and theorems that read the property off it. The invariants were
checked with TLC as well before they were proved.

* **`ToolRegistryProofs`, `IdempotencyRegistryProofs`** (`TypeCorrect`,
  `LookupsAgree`, `ReconnectPreserves`, `CompletionSticks`,
  `StoredCompletionIsFinal`): for any keys, call ids, results and `KeyOf`, if keys and
  call ids are disjoint and `None` is neither. `DualLookup` is not inductive: after a
  `Resume` it depends on what was stored, and `StoredCompletionSticks` on the
  live registry not being behind the stored one. `IInv` therefore consists of
  `RegistryOK(reg)` (records sit under their own key, the index leads to the
  request of the name and only to records that carry a call id), `DictOK(saved)`
  (an entry is the record of its request, and the entry under the key is there
  whenever one under a call id is) and `SavedBehindLive` (what is settled in
  storage is settled live). `ToolRegistryProofs` has one lemma per operator that the
  first two are kept; `VoiceBotProofs` cites the same lemmas.
* **`IdempotencyRegistryProofs` for the facade** (`FacadeTypeCorrect`,
  `LoadOrderIsImmaterial`, `DictionaryAnswers`, `DictionaryAnswersInOneConnection`):
  for any requests, results and dictionaries of any length. `LoadOrdered`, `Update` and
  `InOrderOfInsertion` are loops over sequences. The induction theorems of the
  library cannot be instantiated here, but a set of numbers can be the induction
  hypothesis: `Induct` says that a subset of `Nat` with 0 and every successor is `Nat`,
  `LoopExists` that a loop over a sequence has a value for every prefix, and
  `LoadedPrefix` and its siblings say what that is. `LoadOrderIsImmaterial` then says
  that the order-free `LoadFromDict` of the theorems above is the loop of the
  code on all that `to_dict` may write.
  Two hosts answer alike if the last entry of each request is the one under its newest
  id and is current (`TrackInv`). Recording and completing keep that, for any number of
  attempts; only a reconnect may break it, which puts the ids in the
  order in which the load met them. It does no harm when every entry carries the
  newest id (`NewestInv`), which a second attempt keeps, since the load it
  begins with still indexes the first id, so that the first's entry is rewritten as
  well; a third attempt no longer finds the first id and leaves its entry behind. Hence
  `DictionaryAnswers` assumes `TwoAttempts` and `facade_third` shows why.
* **`IdempotencyRegistryProofs` for the arguments** (`AttemptsShare`,
  `CanonicalFormIsMeaning`, `ClientNamesAlike`): for any tools, tokens, calls and
  arguments, of any size and nested to any depth. The assumptions: values consist of
  values and have a depth greater than that of what they consist of
  (`ValueAssumption`), and keys are equal exactly where their texts are
  (`RequestsAssumption`, which includes that the hash has no collisions). `Sorted`
  being a choice, `SortExists` shows by induction on the number of pairs that there is
  something to choose and `SortedFacts` that only one thing fits. `TogetherExists` shows
  that a function defined by recursion on what a value consists of exists, which makes
  equations of the definitions of `Dumps`, `ClientDumps`, `Denote` and `Parts`. Then, with the
  set of depths up to which it holds as the induction hypothesis (`Induct` again),
  `SameTexts`: two values have the same text exactly if they denote the same; and
  `ClientTexts`: client and server write the same text exactly for plain arguments.
  `CanonicalMeaning` adds the wrappers, which no structure's text can be taken for
  (`NoWrapper`). That equal keys mean the same record, and different ones never,
  follows from `IInv` (`CheckIsRecord`).
* **`SessionDialogueProofs`** (`DialogueTypeCorrect`, `PromptIsKept`,
  `LastCheckpointIsResumed`, `NoticesAreTrue`, `RestoredMeansRecent`,
  `FieldsAreKept`): for any requests, fields, time to live, threshold and number of
  departures. Each has its own strengthening: `Remembered` relates the stored row to
  `last` (the row is the last snapshot while nothing failed or changed), the prompt is
  in every row that may be loaded, notices in messages and rows agree with the tool
  calls beside them, `Dated` says that no row is later than now or than the client's
  leaving, and the connection carries the row's metadata.
* **`SQLiteStorageProofs`**: with a file or in memory `StorageTypeCorrect` and
  `LockKeepsOthersOut`; under `ASSUME IsMemory` also `MemoryKeepsLiveRows` and
  `MemoryKeepsContract`, the refinement of `SessionStore`. The invariant: `Formed`
  (types and what each program counter implies), `SharedConnectionGuarded`
  (between two statements a thread holds the lock and no other does), `Dated` (no
  stamp is ahead of the clock) and `Current` (the row a load has fetched is still the
  stored one). `Current` is what the file variant lacks and `sqlite_file` violates.
* **`CheckpointingProofs`** (`CheckpointTypeCorrect`, `SnapshotsAreWhole`,
  `CleanupWaitsForAll`, `OnlyOverlapsRegress`, `FinalStateStays`): for any number
  of coroutines and changes. The invariant: `Past` (snapshots are of one moment, not
  later than now), `Draining` (what cleanup still has to wait for), `Blind` (what a blind
  `set_metadata` is about to save is the empty session), `Lone` (a save that neither
  overlapped nor is blind carries nothing older than storage has), `OneEnd` (there is one
  final save) and `Lasting` (after a final save that was alone storage holds what it
  found or later, and so does whatever is on its way).
* **`VoiceBotProofs`** (`BotTypeCorrect`, `AtMostOneEffect`, `EffectsAreRemembered`,
  `BeliefsAreTrue`): for any requests, attempts, connections, crashes, storage calls in
  flight and accidents; nothing is assumed of the environment. None of the three
  properties is inductive alone: each speaks of the row, and what the row will be is
  decided by the storage calls in flight. `Orderly`, claimed while there have been no
  accidents but *parallel*, says what that means: one connection holds the session and
  every tool call goes on for it (`Alone`), on a registry that knows the call and before
  `end_call` (`Working`); a connection between its load and its return is alone with the row
  (`Fresh`); a storage call belongs to the tool call that waits for it, and a deletion is
  the last one (`Owned`); contents grow from one storage call to the next (`Growing`); no call has
  failed (`NoneFailed`), and where nothing was resumed a pending request is being
  worked on (`Untold`). `Remembered`, beside it, says that the row and every write in
  flight know the effects that happened (`Kept`), that so does the connection (`Held`), and
  that a call acts only once its record has landed (`Timed`).
  `Single`, claimed before the first accident, says that a request has taken effect at
  most once and not at all before its call acts.

* **`ResilientSessionProofs`** (`ClientTypeCorrect`, `NoDeadEnd`,
  `OneConnectionAtATime`, `CallsConclude`, `CredentialsBelongTogether`): for any
  sessions, sockets, async functions, attempts and mishaps, whatever the application
  does. `Known` says that every session in use was created by the server and what each
  async function does next. `NoDeadEnd` follows from the steps alone, since every one
  that ends the last attempt under way leaves another status, a timer or an exception.
  `Net`, claimed until `connect` is rushed, is about what is on its way at a time: a
  socket, a `connect` or a timer, but only one of them (`Alone`), and that the socket is
  of the session of the credentials. `Concluded` follows the removal of an ended
  call key by key, and `Together` says for each point between two keys what storage and
  the functions in progress hold, so that a reload may happen there.
* **`SessionMetricsProofs`** (`MetricsTypeCorrect`, `BackendsIsolated`,
  `BareExporterOverCounts`): for any exporters, requests and number of operations.
  The calls of an operation are a recursive function in the model; an operation makes
  three at most, so `AfterRun` unfolds it and `Recorded` says what they add. `Told`
  is the summary of a step that the rest is proved from: what happened (`hap`), what
  the exporters were told of (`seen`), and that they differ only if something raised,
  by one error and perhaps a reconnect. `Inv` adds that sessions resumed and
  reconnects go together and that no counter is ahead of the operations.

Model-checked only: all liveness under fairness (`RetriesEnd`, `NothingHangs`), which is
out of the prover's reach. The four violations are counterexamples, so TLC's as well.

## 5. Not modelled

* Loading the legacy dictionary format: its entries carry no idempotency key,
  so nothing that is claimed of keys could be claimed of them.
* Formulas of numbers without state: the backoff delay (`sdk/backoff.ts`), the mean
  and percentile of durations. Random client tokens.
* In `ToolArguments`: hash collisions are taken to be absent, and so are a caller's own
  keys `_raw` and `_val`, and the differences between JavaScript and Python in the order
  of keys that look like integers (which a JavaScript object lists first) or lie
  outside the basic plane.
* `pkg/security.py` (one HMAC and its comparison, no state), examples, benchmarks,
  scripts, and the WebRTC demonstration, which repeats the handlers of the
  voice bot without tools.
* The wording of notices and greetings, message and audio transport, listeners and
  the settling of `connect`'s promise in the client, the voice bot's log file and
  counters, `close` of the storages.
* The time to live in `Checkpointing` and `VoiceBot`; it is in `SQLiteStorage` and
  `SessionDialogue`.
* In `VoiceBot`, a second server process, and the cancelling of a tool call by pipecat
  when the user interrupts, which is not in this repository.

## 6. What remains

1. What each accident of the bot costs, more finely than that it may cost everything:
   which overlapping write a lost record must be due to.
2. Legacy entries in `LoadFromDict`, with what a lookup by id alone can promise.
