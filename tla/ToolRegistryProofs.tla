-------------------------- MODULE ToolRegistryProofs --------------------------
(***************************************************************************)
(* What the methods of the registry do to a well-formed one: the lemmas    *)
(* that the proofs about IdempotencyRegistry and VoiceBot rest on, for any *)
(* number of requests, call ids and results.                               *)
(***************************************************************************)
EXTENDS ToolRegistry, TLAPS

\* A registry every reachable state may hold.
RegistryOK(r) ==
    /\ r \in Registry
    /\ RecordsOwnTheirCalls(r)
    /\ IndexLeadsHome(r)

\* A dictionary to_dict may have made: an entry belongs to the request of its
\* name, is the same as the entry of that request's key, and carries a call id
\* of the request unless the request was recorded without one.
DictOK(d) ==
    /\ d \in Dict
    /\ \A n \in Name : d[n] # None =>
        /\ d[n].key = Home(n)
        /\ d[Home(n)] = d[n]
        /\ d[n].call # None => Home(d[n].call) = Home(n)
        /\ n \in CallId => d[n].call # None

-----------------------------------------------------------------------------
(* The methods, one lemma each. *)

LEMMA HomeIsKey == \A n \in Name : Home(n) \in Key
BY RegistryAssumption DEF Home, Name

LEMMA RecordFields ==
    ASSUME NEW rec \in Record
    PROVE  /\ rec # None
           /\ rec.key \in Key
           /\ rec.call \in Name \cup {None}
           /\ rec.status \in Status
           /\ rec.result \in Result \cup {None}
BY RecordAssumption DEF Record

\* The empty registry of a session that starts fresh.
LEMMA EmptyOK == RegistryOK(EmptyRegistry)
BY DEF RegistryOK, EmptyRegistry, Registry, RecordsOwnTheirCalls,
       IndexLeadsHome, Recorded

\* register_call keeps a registry well formed, whoever calls it with an id of
\* the request or without one.
LEMMA RegisterOK ==
    ASSUME NEW r, RegistryOK(r), NEW k \in Key,
           NEW c \in CallId \cup {None}, c # None => KeyOf[c] = k,
           NEW s \in Status
    PROVE  RegistryOK(RegisterCall(r, k, c, s))
<1> DEFINE q == RegisterCall(r, k, c, s)
<1>0. /\ c # None => c \in Name /\ Home(c) = k /\ c \notin Key
      /\ None \notin Name /\ None \notin Key
  BY RegistryAssumption DEF Name, Home
<1>1. /\ r.records \in [Key -> Record \cup {None}]
      /\ r.index \in [Name -> Key \cup {None}]
  BY DEF RegistryOK, Registry
<1> DEFINE new == IF r.records[k] = None THEN NewRecord(k, c, s)
                  ELSE NoteCall(r.records[k], c)
<1>2. /\ new \in Record
      /\ new.key = k
      /\ c # None => new.call = c
      /\ c = None /\ r.records[k] # None => new = r.records[k]
      /\ c = None /\ r.records[k] = None => new.call = None
  <2>1. CASE r.records[k] = None
    BY <1>0, <2>1 DEF NewRecord, Record, Status
  <2>2. CASE r.records[k] # None
    <3>1. r.records[k] \in Record /\ r.records[k].key = k
      BY <1>1, <2>2 DEF RegistryOK, RecordsOwnTheirCalls, Recorded
    <3>. QED BY <1>0, <2>2, <3>1 DEF NoteCall, Record
  <2>. QED BY <2>1, <2>2
<1>3. /\ q.records = [r.records EXCEPT ![k] = new]
      /\ q.index = IF c = None THEN r.index ELSE [r.index EXCEPT ![c] = k]
  BY <1>1 DEF RegisterCall
<1>4. new # None
  BY <1>2, RecordFields
<1>5. q \in Registry
  <2>1. q = [records |-> q.records, index |-> q.index]
    BY DEF RegisterCall
  <2>2. q.records \in [Key -> Record \cup {None}]
    BY <1>1, <1>2, <1>3
  <2>3. q.index \in [Name -> Key \cup {None}]
    BY <1>0, <1>1, <1>3
  <2>. QED BY <2>1, <2>2, <2>3 DEF Registry
<1>6. RecordsOwnTheirCalls(q)
  <2> SUFFICES ASSUME NEW j \in Key, q.records[j] # None
               PROVE  /\ q.records[j].key = j
                      /\ q.records[j].call # None => q.index[q.records[j].call] = j
    BY DEF RecordsOwnTheirCalls, Recorded
  <2>1. CASE j = k
    <3>1. q.records[j] = new
      BY <1>1, <1>3, <2>1
    <3>2. CASE c # None
      BY <1>0, <1>1, <1>2, <1>3, <2>1, <3>1, <3>2
    <3>3. CASE c = None
      BY <1>1, <1>2, <1>3, <2>1, <3>1, <3>3
         DEF RegistryOK, RecordsOwnTheirCalls, Recorded
    <3>. QED BY <3>2, <3>3
  <2>2. CASE j # k
    <3>1. q.records[j] = r.records[j]
      BY <1>1, <1>3, <2>2
    <3>2. /\ q.records[j].key = j
          /\ q.records[j].call # None => r.index[q.records[j].call] = j
      BY <3>1 DEF RegistryOK, RecordsOwnTheirCalls, Recorded
    <3>3. q.records[j].call \in Name \cup {None}
      BY <1>1, <3>1, RecordFields
    <3>4. q.records[j].call # None => q.records[j].call # c
      BY <1>0, <1>1, <2>2, <3>2, <3>3 DEF RegistryOK, IndexLeadsHome
    <3>. QED BY <1>1, <1>3, <3>2, <3>3, <3>4
  <2>. QED BY <2>1, <2>2
<1>7. IndexLeadsHome(q)
  <2> SUFFICES ASSUME NEW n \in Name, q.index[n] # None
               PROVE  /\ q.index[n] = Home(n)
                      /\ q.records[Home(n)] # None
                      /\ q.records[Home(n)].call # None
    BY DEF IndexLeadsHome, Recorded
  <2>1. Home(n) \in Key
    BY HomeIsKey
  <2>2. CASE n = c
    BY <1>0, <1>1, <1>2, <1>3, <1>4, <2>2
  <2>3. CASE n # c
    <3>1. q.index[n] = r.index[n]
      BY <1>1, <1>3, <2>3
    <3>2. /\ r.index[n] = Home(n)
          /\ r.records[Home(n)] # None
          /\ r.records[Home(n)].call # None
      BY <3>1 DEF RegistryOK, IndexLeadsHome, Recorded
    <3>. QED BY <1>0, <1>1, <1>2, <1>3, <1>4, <2>1, <3>1, <3>2
  <2>. QED BY <2>2, <2>3
<1>. QED BY <1>5, <1>6, <1>7 DEF RegistryOK

\* A name that resolves, resolves to the request it belongs to.
LEMMA ResolveHome ==
    ASSUME NEW r, RegistryOK(r), NEW n \in Name
    PROVE  /\ Resolve(r, n) \in {None, Home(n)}
           /\ Resolve(r, n) # None => Recorded(r, Home(n))
BY RegistryAssumption
   DEF RegistryOK, Registry, IndexLeadsHome, Resolve, Home, Recorded, Name

\* q is r with the outcome of the record of k set.
Settled(q, r, k, s, res) ==
    /\ Recorded(r, k)
    /\ q = [records |-> [r.records EXCEPT ![k] =
                            [r.records[k] EXCEPT !.status = s, !.result = res]],
            index |-> r.index]

\* complete_call and fail_call change the outcome of one record, or nothing.
LEMMA SettleChanges ==
    ASSUME NEW r, RegistryOK(r), NEW n \in Name,
           NEW s \in Status, NEW res \in Result \cup {None}
    PROVE  \/ Settle(r, n, s, res) = r
           \/ Settled(Settle(r, n, s, res), r, Home(n), s, res)
BY ResolveHome, HomeIsKey DEF Settle, Settled, RegistryOK, Registry, Recorded

LEMMA SettleOK ==
    ASSUME NEW r, RegistryOK(r), NEW n \in Name,
           NEW s \in Status, NEW res \in Result \cup {None}
    PROVE  RegistryOK(Settle(r, n, s, res))
<1>1. CASE Settle(r, n, s, res) = r
  BY <1>1
<1>2. CASE Settled(Settle(r, n, s, res), r, Home(n), s, res)
  <2> DEFINE new == [r.records[Home(n)] EXCEPT !.status = s, !.result = res]
             q == Settle(r, n, s, res)
  <2>1. /\ r.records \in [Key -> Record \cup {None}]
        /\ r.index \in [Name -> Key \cup {None}]
        /\ Home(n) \in Key
        /\ r.records[Home(n)] \in Record
    BY <1>2, HomeIsKey DEF Settled, RegistryOK, Registry, Recorded
  <2>2. /\ new \in Record
        /\ new.key = r.records[Home(n)].key
        /\ new.call = r.records[Home(n)].call
    BY <2>1 DEF Record
  <2>3. new # None
    BY <2>2, RecordFields
  <2>4. /\ q.records = [r.records EXCEPT ![Home(n)] = new]
        /\ q.index = r.index
        /\ q = [records |-> q.records, index |-> q.index]
    BY <1>2 DEF Settled
  <2>5. q \in Registry
    BY <2>1, <2>2, <2>4 DEF Registry
  <2>6. \A j \in Key : /\ q.records[j] # None <=> r.records[j] # None
                       /\ q.records[j] # None =>
                            /\ q.records[j].key = r.records[j].key
                            /\ q.records[j].call = r.records[j].call
    BY <1>2, <2>1, <2>2, <2>3, <2>4 DEF Settled, Recorded
  <2>7. RecordsOwnTheirCalls(q)
    BY <2>4, <2>6 DEF RegistryOK, RecordsOwnTheirCalls, Recorded
  <2>8. IndexLeadsHome(q)
    BY <2>4, <2>6, HomeIsKey DEF RegistryOK, IndexLeadsHome, Recorded
  <2>. QED BY <2>5, <2>7, <2>8 DEF RegistryOK
<1>. QED BY <1>1, <1>2, SettleChanges

\* What to_dict makes of a well-formed registry.
LEMMA ToDictOK ==
    ASSUME NEW r, RegistryOK(r)
    PROVE  /\ DictOK(ToDict(r))
           /\ \A k \in Key : ToDict(r)[k] = r.records[k]
<1> DEFINE d == ToDict(r)
<1>0. /\ r.records \in [Key -> Record \cup {None}]
      /\ r.index \in [Name -> Key \cup {None}]
      /\ Key \subseteq Name /\ CallId \subseteq Name
      /\ \A k \in Key : Home(k) = k
  BY DEF RegistryOK, Registry, Name, Home
<1>1. \A k \in Key : d[k] = r.records[k]
  BY <1>0 DEF ToDict
<1>2. \A n \in Name : d[n] # None => d[n] = r.records[Home(n)] /\ Home(n) \in Key
  BY <1>0, <1>1, HomeIsKey DEF ToDict, RegistryOK, IndexLeadsHome, Home
<1>3. d \in Dict
  BY <1>0 DEF ToDict, Dict
<1>4. ASSUME NEW n \in Name, d[n] # None
      PROVE  /\ d[n].key = Home(n)
             /\ d[Home(n)] = d[n]
             /\ d[n].call # None => Home(d[n].call) = Home(n)
             /\ n \in CallId => d[n].call # None
  <2>1. /\ Home(n) \in Key
        /\ d[n] = r.records[Home(n)]
        /\ r.records[Home(n)] \in Record
    BY <1>0, <1>2, <1>4
  <2>2. d[n].key = Home(n) /\ d[Home(n)] = d[n]
    BY <1>1, <1>4, <2>1 DEF RegistryOK, RecordsOwnTheirCalls, Recorded
  <2>3. d[n].call # None => Home(d[n].call) = Home(n)
    BY <1>0, <1>4, <2>1, RecordFields, RegistryAssumption
       DEF RegistryOK, RecordsOwnTheirCalls, IndexLeadsHome, Recorded
  <2>4. n \in CallId => d[n].call # None
    BY <1>0, <1>4, <2>1, RegistryAssumption
       DEF ToDict, RegistryOK, IndexLeadsHome, Recorded
  <2>. QED BY <2>2, <2>3, <2>4
<1>. QED BY <1>1, <1>3, <1>4 DEF DictOK

\* r is the registry of the requests of d, record by record and name by name.
LoadedFrom(r, d) ==
    /\ r \in Registry
    /\ \A k \in Key :
        /\ r.records[k] # None <=> d[k] # None
        /\ d[k] # None =>
            /\ r.records[k] \in Record
            /\ r.records[k].key = k
            /\ r.records[k].status = d[k].status
            /\ r.records[k].result = d[k].result
            /\ r.records[k].call = CallOf(k, d[k])
            /\ CallOf(k, d[k]) \in Name
            /\ Home(CallOf(k, d[k])) = k
    /\ \A n \in Name :
        r.index[n] = IF d[Home(n)] # None /\ CallOf(Home(n), d[Home(n)]) = n
                     THEN Home(n) ELSE None

\* What _load_from_dict makes of a stored dictionary.
LEMMA LoadFacts ==
    ASSUME NEW d, DictOK(d)
    PROVE  LoadedFrom(LoadFromDict(d), d)
<1> DEFINE r == LoadFromDict(d)
           from(n) == {m \in Name : d[m] # None /\ CallOf(m, d[m]) = n}
<1>0. /\ d \in [Name -> Record \cup {None}]
      /\ Key \subseteq Name /\ CallId \subseteq Name
      /\ \A k \in Key : Home(k) = k
      /\ None \notin Name
  BY RegistryAssumption DEF DictOK, Dict, Name, Home
<1>1. ASSUME NEW m \in Name, d[m] # None
      PROVE  /\ d[m] \in Record
             /\ d[m].key = Home(m)
             /\ Home(m) \in Key
             /\ d[Home(m)] = d[m]
             /\ CallOf(m, d[m]) \in Name
             /\ Home(CallOf(m, d[m])) = Home(m)
             /\ CallOf(Home(m), d[Home(m)]) = CallOf(m, d[m])
  <2>1. /\ d[m] \in Record /\ d[m].key = Home(m) /\ Home(m) \in Key
        /\ d[Home(m)] = d[m]
    BY <1>0, <1>1, HomeIsKey DEF DictOK
  <2>2. d[m].call \in Name \cup {None}
    BY <2>1, RecordFields
  <2>3. m \notin CallId => m \in Key /\ Home(m) = m
    BY <1>0 DEF Name
  <2>4. m \in CallId => d[m].call # None
    BY <1>1 DEF DictOK
  <2>5. d[m].call # None => Home(d[m].call) = Home(m)
    BY <1>1 DEF DictOK
  <2>. QED BY <2>1, <2>2, <2>3, <2>4, <2>5 DEF CallOf
<1>2. ASSUME NEW k \in Key
      PROVE  /\ r.records[k] # None <=> d[k] # None
             /\ d[k] # None =>
                  /\ r.records[k] \in Record
                  /\ r.records[k].key = k
                  /\ r.records[k].status = d[k].status
                  /\ r.records[k].result = d[k].result
                  /\ r.records[k].call = CallOf(k, d[k])
                  /\ CallOf(k, d[k]) \in Name
                  /\ Home(CallOf(k, d[k])) = k
  <2>1. r.records[k] = IF d[k] = None THEN None
                       ELSE [d[k] EXCEPT !.call = CallOf(k, d[k])]
    BY DEF LoadFromDict
  <2>2. CASE d[k] = None
    BY <2>1, <2>2
  <2>3. CASE d[k] # None
    <3>1. /\ d[k] \in Record /\ d[k].key = k
          /\ CallOf(k, d[k]) \in Name /\ Home(CallOf(k, d[k])) = k
      BY <1>0, <1>1, <2>3
    <3>2. /\ r.records[k] = [d[k] EXCEPT !.call = CallOf(k, d[k])]
          /\ r.records[k] \in Record
      BY <2>1, <2>3, <3>1 DEF Record
    <3>3. /\ r.records[k].key = d[k].key
          /\ r.records[k].status = d[k].status
          /\ r.records[k].result = d[k].result
          /\ r.records[k].call = CallOf(k, d[k])
      BY <3>1, <3>2 DEF Record
    <3>4. r.records[k] # None
      BY <3>2, RecordFields
    <3>. QED BY <2>3, <3>1, <3>2, <3>3, <3>4
  <2>. QED BY <2>2, <2>3
<1>3. ASSUME NEW n \in Name
      PROVE  r.index[n] = IF d[Home(n)] # None /\ CallOf(Home(n), d[Home(n)]) = n
                          THEN Home(n) ELSE None
  <2>1. r.index[n] = IF from(n) = {} THEN None
                     ELSE d[CHOOSE m \in from(n) : TRUE].key
    BY DEF LoadFromDict
  <2>2. \A m \in from(n) : /\ m \in Name /\ d[m] # None
                           /\ CallOf(m, d[m]) = n
    OBVIOUS
  <2>3. \A m \in from(n) : /\ Home(m) = Home(n) /\ d[m].key = Home(n)
                           /\ d[Home(n)] # None
                           /\ CallOf(Home(n), d[Home(n)]) = n
    BY <1>1, <2>2
  <2>4. CASE from(n) = {}
    <3>1. Home(n) \in Name
      BY <1>0, HomeIsKey
    <3>2. ~ (d[Home(n)] # None /\ CallOf(Home(n), d[Home(n)]) = n)
      BY <2>4, <3>1
    <3>. QED BY <2>1, <2>4, <3>2
  <2>5. CASE from(n) # {}
    <3>1. (CHOOSE m \in from(n) : TRUE) \in from(n)
      BY <2>5
    <3>. QED BY <2>1, <2>3, <2>5, <3>1
  <2>. QED BY <2>4, <2>5
<1>4. r \in Registry
  <2>1. r = [records |-> r.records, index |-> r.index]
    BY DEF LoadFromDict
  <2>2. \A k \in Key : r.records[k] \in Record \cup {None}
    BY <1>2
  <2>3. \A n \in Name : r.index[n] \in Key \cup {None}
    BY <1>3, HomeIsKey
  <2>4. r.records = [k \in Key |-> r.records[k]] /\ r.index = [n \in Name |-> r.index[n]]
    BY DEF LoadFromDict
  <2>. QED BY <2>1, <2>2, <2>3, <2>4 DEF Registry
<1>. QED BY <1>2, <1>3, <1>4 DEF LoadedFrom

LEMMA LoadOK ==
    ASSUME NEW d, DictOK(d)
    PROVE  RegistryOK(LoadFromDict(d))
<1> DEFINE r == LoadFromDict(d)
<1>1. LoadedFrom(r, d)
  BY LoadFacts
<1> HIDE DEF r
<1>2. RecordsOwnTheirCalls(r)
  BY <1>1 DEF LoadedFrom, RecordsOwnTheirCalls, Recorded
<1>3. IndexLeadsHome(r)
  BY <1>1, HomeIsKey, RegistryAssumption DEF LoadedFrom, IndexLeadsHome, Recorded, Name
<1>4. RegistryOK(r)
  BY <1>1, <1>2, <1>3 DEF LoadedFrom, RegistryOK
<1>. QED BY <1>4 DEF r

\* A reconnect keeps every request and its outcome, and the next one changes
\* nothing any more.
LEMMA RoundTripOK ==
    ASSUME NEW r, RegistryOK(r)
    PROVE  LET back == LoadFromDict(ToDict(r)) IN
           /\ Preserves(r, back)
           /\ LoadFromDict(ToDict(back)) = back
<1> DEFINE d == ToDict(r)
           back == LoadFromDict(d)
           e == ToDict(back)
           again == LoadFromDict(e)
<1>1. DictOK(d) /\ \A k \in Key : d[k] = r.records[k]
  BY ToDictOK
<1>2. RegistryOK(back)
  BY <1>1, LoadOK
<1>3. DictOK(e) /\ \A k \in Key : e[k] = back.records[k]
  BY <1>2, ToDictOK
<1>4. LoadedFrom(back, d)
  BY <1>1, LoadFacts
<1>5. LoadedFrom(again, e)
  BY <1>3, LoadFacts
<1> HIDE DEF d, back, e, again
<1>6. Preserves(r, back)
  <2> SUFFICES ASSUME NEW k \in Key
               PROVE  /\ Recorded(back, k) <=> Recorded(r, k)
                      /\ Recorded(r, k) =>
                          /\ back.records[k].status = r.records[k].status
                          /\ back.records[k].result = r.records[k].result
                          /\ r.records[k].call # None =>
                                Resolve(back, r.records[k].call) = k
    BY DEF Preserves
  <2>1. Recorded(back, k) <=> Recorded(r, k)
    BY <1>1, <1>4 DEF LoadedFrom, Recorded
  <2>2. ASSUME Recorded(r, k)
        PROVE  /\ back.records[k].status = r.records[k].status
               /\ back.records[k].result = r.records[k].result
    BY <1>1, <1>4, <2>2 DEF LoadedFrom, Recorded
  <2>3. ASSUME Recorded(r, k), r.records[k].call # None
        PROVE  Resolve(back, r.records[k].call) = k
    <3>1. CallOf(k, d[k]) = r.records[k].call /\ d[k] # None
      BY <1>1, <2>3 DEF CallOf, Recorded
    <3>2. /\ r.records[k].call \in Name
          /\ Home(r.records[k].call) = k
      BY <1>4, <3>1 DEF LoadedFrom
    <3>3. back.index[r.records[k].call] = k
      BY <1>4, <3>1, <3>2 DEF LoadedFrom
    <3>4. r.records[k].call \in Key => r.records[k].call = k
      BY <3>2 DEF Home
    <3>. QED BY <3>2, <3>3, <3>4 DEF Resolve
  <2>. QED BY <2>1, <2>2, <2>3
<1>7. ASSUME NEW k \in Key, e[k] # None
      PROVE  /\ d[k] # None
             /\ e[k] \in Record
             /\ e[k] = back.records[k]
             /\ e[k].key = k
             /\ e[k].call = CallOf(k, d[k])
             /\ CallOf(k, e[k]) = CallOf(k, d[k])
  <2>1. e[k] = back.records[k] /\ d[k] # None
    BY <1>3, <1>4, <1>7 DEF LoadedFrom
  <2>2. /\ e[k] \in Record /\ e[k].key = k
        /\ e[k].call = CallOf(k, d[k]) /\ CallOf(k, d[k]) \in Name
    BY <1>4, <2>1 DEF LoadedFrom
  <2>3. CallOf(k, e[k]) = e[k].call
    BY <2>2, RegistryAssumption DEF CallOf, Name
  <2>. QED BY <2>1, <2>2, <2>3
<1>8. ASSUME NEW k \in Key
      PROVE  again.records[k] = back.records[k]
  <2>1. CASE e[k] = None
    BY <1>3, <1>5, <2>1 DEF LoadedFrom
  <2>2. CASE e[k] # None
    <3>1. /\ again.records[k] \in Record
          /\ again.records[k].key = k
          /\ again.records[k].status = e[k].status
          /\ again.records[k].result = e[k].result
          /\ again.records[k].call = CallOf(k, e[k])
      BY <1>5, <2>2 DEF LoadedFrom
    <3>2. /\ e[k] \in Record
          /\ e[k].key = k
          /\ CallOf(k, e[k]) = e[k].call
          /\ e[k] = back.records[k]
      BY <1>7, <2>2
    <3>. QED BY <3>1, <3>2 DEF Record
  <2>. QED BY <2>1, <2>2
<1>9. \A n \in Name : again.index[n] = back.index[n]
  <2> SUFFICES ASSUME NEW n \in Name
               PROVE  again.index[n] = back.index[n]
    OBVIOUS
  <2>1. Home(n) \in Key
    BY HomeIsKey
  <2>2. e[Home(n)] # None <=> d[Home(n)] # None
    BY <1>3, <1>4, <2>1 DEF LoadedFrom
  <2>3. /\ back.index[n] = IF d[Home(n)] # None /\ CallOf(Home(n), d[Home(n)]) = n
                           THEN Home(n) ELSE None
        /\ again.index[n] = IF e[Home(n)] # None /\ CallOf(Home(n), e[Home(n)]) = n
                            THEN Home(n) ELSE None
    BY <1>4, <1>5 DEF LoadedFrom
  <2>. QED BY <1>7, <2>1, <2>2, <2>3
<1>10. again = back
  <2>1. /\ again.records \in [Key -> Record \cup {None}]
        /\ back.records \in [Key -> Record \cup {None}]
        /\ again.index \in [Name -> Key \cup {None}]
        /\ back.index \in [Name -> Key \cup {None}]
        /\ again = [records |-> again.records, index |-> again.index]
        /\ back = [records |-> back.records, index |-> back.index]
    BY <1>4, <1>5 DEF LoadedFrom, Registry
  <2>2. again.records = back.records
    BY <1>8, <2>1
  <2>3. again.index = back.index
    BY <1>9, <2>1
  <2>. QED BY <2>1, <2>2, <2>3
<1>. QED BY <1>6, <1>10 DEF d, back, e, again

\* A recorded outcome only moves away from "pending" in a live registry.
Settles(r, q) ==
    \A k \in Key : Recorded(r, k) /\ r.records[k].status # "pending" =>
        /\ Recorded(q, k)
        /\ q.records[k].status # "pending"

LEMMA RegisterSettles ==
    ASSUME NEW r, RegistryOK(r), NEW k \in Key,
           NEW c \in CallId \cup {None}, NEW s \in Status
    PROVE  Settles(r, RegisterCall(r, k, c, s))
<1> DEFINE q == RegisterCall(r, k, c, s)
<1> SUFFICES ASSUME NEW j \in Key, r.records[j] # None,
                    r.records[j].status # "pending"
             PROVE  q.records[j] # None /\ q.records[j].status # "pending"
  BY DEF Settles, Recorded
<1>1. r.records \in [Key -> Record \cup {None}] /\ r.records[j] \in Record
  BY DEF RegistryOK, Registry
<1>2. q.records[j] = IF j = k THEN NoteCall(r.records[j], c) ELSE r.records[j]
  BY <1>1 DEF RegisterCall
<1>3. /\ NoteCall(r.records[j], c).status = r.records[j].status
      /\ NoteCall(r.records[j], c) # None
  <2>1. CASE c = None
    BY <2>1 DEF NoteCall
  <2>2. CASE c # None
    <3>1. c \in Name
      BY <2>2 DEF Name
    <3>2. /\ NoteCall(r.records[j], c) = [r.records[j] EXCEPT !.call = c]
          /\ [r.records[j] EXCEPT !.call = c] \in Record
          /\ [r.records[j] EXCEPT !.call = c].status = r.records[j].status
      BY <1>1, <2>2, <3>1 DEF NoteCall, Record
    <3>. QED BY <3>2, RecordFields
  <2>. QED BY <2>1, <2>2
<1>. QED BY <1>2, <1>3

LEMMA SettleSettles ==
    ASSUME NEW r, RegistryOK(r), NEW n \in Name,
           NEW s \in Status \ {"pending"}, NEW res \in Result \cup {None}
    PROVE  Settles(r, Settle(r, n, s, res))
<1> DEFINE q == Settle(r, n, s, res)
           new == [r.records[Home(n)] EXCEPT !.status = s, !.result = res]
<1>1. CASE q = r
  BY <1>1 DEF Settles
<1>2. CASE Settled(q, r, Home(n), s, res)
  <2>1. /\ r.records \in [Key -> Record \cup {None}]
        /\ Home(n) \in Key
        /\ r.records[Home(n)] \in Record
        /\ q.records = [r.records EXCEPT ![Home(n)] = new]
    BY <1>2, HomeIsKey DEF Settled, RegistryOK, Registry, Recorded
  <2>2. new \in Record /\ new.status = s
    BY <2>1 DEF Record
  <2>3. new # None
    BY <2>2, RecordFields
  <2>. QED BY <2>1, <2>2, <2>3 DEF Settles, Recorded
<1>. QED BY <1>1, <1>2, SettleChanges
=============================================================================
