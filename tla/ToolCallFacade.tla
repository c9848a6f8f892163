--------------------------- MODULE ToolCallFacade ---------------------------
(***************************************************************************)
(* The tool-call methods of SessionContinuity, which take either an        *)
(* IdempotencyRegistry or a plain dictionary (what resume_or_start returns *)
(* and every example keeps).  With a dictionary each call rebuilds a       *)
(* registry from it, applies the operation and merges to_dict() back:      *)
(*     registry = IdempotencyRegistry(d); ...; d.update(registry.to_dict())*)
(* The module drives one host of each kind through the same calls: `reg`   *)
(* is the registry host's object, `dict` the dictionary host's.            *)
(***************************************************************************)
EXTENDS IdempotencyRegistry, Integers, SequencesExt

CONSTANTS
    OnlyFreshIds,    \* TRUE: no call id is recorded twice
    OnlyNewestName   \* TRUE: calls are completed by key or by their newest id

ASSUME FacadeAssumption == {OnlyFreshIds, OnlyNewestName} \subseteq BOOLEAN

VARIABLES
    dict,       \* the dictionary: its entries in Python's insertion order
    savedDict,  \* the dictionary host's stored dictionary, None if none
    minted      \* the call ids recorded so far in this session

facadeVars == <<vars, dict, savedDict, minted>>

Entry(n, rec) == [name |-> n, val |-> rec]

Entries == [name : Name, val : Record]

\* None is no dictionary, in either of its forms.
ASSUME NoneAssumption == None \notin Dict /\ None \notin Seq(Entries)

Names(d) == {d[i].name : i \in DOMAIN d}

-----------------------------------------------------------------------------
\* Slip: the entry's own name is indexed, not the id its record carries.
LoadEntryByName(r, e) ==
    LET rec == [e.val EXCEPT !.call = CallOf(e.name, e.val)]
    IN  [records |-> [r.records EXCEPT ![rec.key] = rec],
         index   |-> [r.index EXCEPT ![e.name] = rec.key]]

\* One iteration of _load_from_dict; every stored value carries its key.
LoadEntry(r, e) ==
    LET rec == [e.val EXCEPT !.call = CallOf(e.name, e.val)]
    IN  [records |-> [r.records EXCEPT ![rec.key] = rec],
         index   |-> [r.index EXCEPT ![rec.call] = rec.key]]

\* _load_from_dict: in dictionary order, a later entry overwriting an earlier.
LoadOrdered(d) ==
    LET load[i \in 0 .. Len(d)] ==
            IF i = 0 THEN EmptyRegistry ELSE LoadEntry(load[i - 1], d[i])
    IN  load[Len(d)]

\* A key assigned to a Python dictionary: a known one keeps its place.
Insert(s, n) == IF n \in ToSet(s) THEN s ELSE Append(s, n)

InOrderOfInsertion(s) ==
    LET order[i \in 0 .. Len(s)] ==
            IF i = 0 THEN <<>> ELSE Insert(order[i - 1], s[i])
    IN  order[Len(s)]

\* The order of `records` and of `_call_id_to_key` after a load.
KeyOrder(d) == InOrderOfInsertion([i \in DOMAIN d |-> d[i].val.key])
CallOrder(d) ==
    InOrderOfInsertion([i \in DOMAIN d |-> CallOf(d[i].name, d[i].val)])

\* to_dict in its order: the records, then the indexed call ids.
ToOrderedDict(r, keys, calls) ==
    LET names == keys \o calls
        td == ToDict(r)
    IN  [i \in DOMAIN names |-> Entry(names[i], td[names[i]])]

\* Slip: setdefault for update, an entry already there is not replaced.
SetItemIfAbsent(d, e) == IF e.name \in Names(d) THEN d ELSE Append(d, e)

\* Slip: the entries are appended without looking for the name.
SetItemBlindly(d, e) == Append(d, e)

\* dict.update: a known name keeps its place, a new one goes to the end.  The
\* entries of names the update does not mention stay as they were.
SetItem(d, e) ==
    IF e.name \in Names(d)
    THEN [i \in DOMAIN d |-> IF d[i].name = e.name THEN e ELSE d[i]]
    ELSE Append(d, e)

Update(d, e) ==
    LET updated[i \in 0 .. Len(e)] ==
            IF i = 0 THEN d ELSE SetItem(updated[i - 1], e[i])
    IN  updated[Len(e)]

-----------------------------------------------------------------------------
FacadeInit ==
    /\ Init
    /\ dict = <<>>
    /\ savedDict = None
    /\ minted = {}

RecordToolCall(c, s) ==
    /\ OnlyFreshIds => c \notin minted
    /\ Register(c, s)
    /\ dict' = Update(dict, ToOrderedDict(
                    RegisterCall(LoadOrdered(dict), KeyOf[c], c, s),
                    Insert(KeyOrder(dict), KeyOf[c]),
                    Insert(CallOrder(dict), c)))
    /\ minted' = minted \cup {c}
    /\ UNCHANGED savedDict

\* The names a disciplined host completes by.
NewestNames ==
    Key \cup {reg.records[k].call : k \in {q \in Key : Recorded(reg, q)}}

CompleteToolCall(n, res) ==
    /\ n \in Key \cup minted
    /\ OnlyNewestName => n \in NewestNames
    /\ Complete(n, res)
    /\ dict' = Update(dict, ToOrderedDict(
                    CompleteCall(LoadOrdered(dict), n, res),
                    KeyOrder(dict), CallOrder(dict)))
    /\ UNCHANGED <<savedDict, minted>>

\* checkpoint: the registry is stored as its to_dict(), a dictionary as it is.
FacadeCheckpoint ==
    /\ Checkpoint
    /\ savedDict' = dict
    /\ UNCHANGED <<dict, minted>>

\* resume_or_start gives the dictionary host registry.to_dict().
FacadeResume ==
    /\ Resume
    /\ dict' = IF savedDict = None THEN <<>>
               ELSE ToOrderedDict(LoadOrdered(savedDict),
                                  KeyOrder(savedDict), CallOrder(savedDict))
    /\ UNCHANGED <<savedDict, minted>>

FacadeNext ==
    \/ \E c \in CallId, s \in InitialStatus : RecordToolCall(c, s)
    \/ \E n \in Name, res \in Result : CompleteToolCall(n, res)
    \/ FacadeCheckpoint
    \/ FacadeResume

FacadeSpec == FacadeInit /\ [][FacadeNext]_facadeVars

-----------------------------------------------------------------------------
FacadeTypeOK ==
    /\ TypeOK
    /\ \A d \in {dict, IF savedDict = None THEN <<>> ELSE savedDict} :
          /\ \A i \in DOMAIN d : d[i] \in Entries
          /\ Cardinality(Names(d)) = Len(d)
    /\ minted \subseteq CallId

Outcome(rec) == IF rec = None THEN None ELSE <<rec.status, rec.result>>

\* A host that passes a dictionary gets the answers of one that passes a
\* registry: the same request is known, with the same status and result
\* (__init__.py, check_tool_idempotency: "Works with both IdempotencyRegistry
\* instances and raw dictionaries").
SameAnswers ==
    \A c \in CallId :
        Outcome(Check(LoadOrdered(dict), KeyOf[c], c))
            = Outcome(Check(reg, KeyOf[c], c))

\* The order-free loading of IdempotencyRegistry is the loop of the code on any
\* dictionary to_dict makes, in whatever order the calls were recorded.
LoadingAgrees ==
    \A keys \in SetToSeqs({k \in Key : Recorded(reg, k)}) :
        \A calls \in SetToSeqs({c \in CallId : reg.index[c] # None}) :
            LoadOrdered(ToOrderedDict(reg, keys, calls)) = LoadFromDict(ToDict(reg))
=============================================================================
