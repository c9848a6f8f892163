---------------------- MODULE IdempotencyRegistryProofs ----------------------
(***************************************************************************)
(* Proofs about IdempotencyRegistry, about the arguments that make two     *)
(* calls one request (ToolRequests) and about the dictionary host of       *)
(* ToolCallFacade, for any number of requests, call ids, results and       *)
(* reconnects, and for arguments of any size.                              *)
(***************************************************************************)
EXTENDS ToolCallFacade, ToolRequests, ToolRegistryProofs, FiniteSetTheorems

-----------------------------------------------------------------------------
(* The registry: the inductive invariant. *)

\* What is stored is never ahead of the live registry.
SavedBehindLive(r, d) ==
    \A k \in Key :
        d[k] # None /\ d[k].status # "pending" =>
            /\ Recorded(r, k)
            /\ r.records[k].status # "pending"

IInv ==
    /\ RegistryOK(reg)
    /\ saved # None => DictOK(saved) /\ SavedBehindLive(reg, saved)

LEMMA BehindStaysBehind ==
    ASSUME NEW d, NEW r, NEW q, SavedBehindLive(r, d), Settles(r, q)
    PROVE  SavedBehindLive(q, d)
BY DEF SavedBehindLive, Settles

LEMMA InitIInv == Init => IInv
BY EmptyOK DEF Init, IInv

LEMMA NextIInv == IInv /\ [Next]_vars => IInv'
<1> SUFFICES ASSUME IInv, [Next]_vars
             PROVE  IInv'
  OBVIOUS
<1> USE DEF IInv
<1>0. InitialStatus \subseteq Status /\ Status = {"pending", "completed", "failed"}
  BY RecordAssumption DEF Status
<1>1. ASSUME RegistryOK(reg'), Settles(reg, reg'), UNCHANGED saved
      PROVE  IInv'
  BY <1>1, BehindStaysBehind
<1>2. ASSUME NEW c \in CallId, NEW s \in InitialStatus, Register(c, s)
      PROVE  IInv'
  <2>1. KeyOf[c] \in Key
    BY RegistryAssumption
  <2>2. RegistryOK(reg') /\ Settles(reg, reg')
    BY <1>0, <1>2, <2>1, RegisterOK, RegisterSettles DEF Register
  <2>. QED BY <1>1, <1>2, <2>2 DEF Register
<1>3. ASSUME NEW k \in Key, NEW s \in InitialStatus, RegisterNoId(k, s)
      PROVE  IInv'
  <2>1. RegistryOK(reg') /\ Settles(reg, reg')
    BY <1>0, <1>3, RegisterOK, RegisterSettles DEF RegisterNoId
  <2>. QED BY <1>1, <1>3, <2>1 DEF RegisterNoId
<1>4. ASSUME NEW n \in Name, NEW res \in Result, Complete(n, res)
      PROVE  IInv'
  <2>1. RegistryOK(reg') /\ Settles(reg, reg')
    BY <1>0, <1>4, SettleOK, SettleSettles DEF Complete, CompleteCall
  <2>. QED BY <1>1, <1>4, <2>1 DEF Complete
<1>5. ASSUME NEW n \in Name, NEW err \in Result \cup {None}, Fail(n, err)
      PROVE  IInv'
  <2>1. RegistryOK(reg') /\ Settles(reg, reg')
    BY <1>0, <1>5, SettleOK, SettleSettles DEF Fail, FailCall
  <2>. QED BY <1>1, <1>5, <2>1 DEF Fail
<1>6. ASSUME Checkpoint
      PROVE  IInv'
  <2>1. DictOK(saved') /\ \A k \in Key : saved'[k] = reg.records[k]
    BY <1>6, ToDictOK DEF Checkpoint
  <2>2. SavedBehindLive(reg, saved')
    BY <2>1 DEF SavedBehindLive, Recorded
  <2>. QED BY <1>6, <2>1, <2>2 DEF Checkpoint
<1>7. ASSUME Resume
      PROVE  IInv'
  <2>1. CASE saved = None
    BY <1>7, <2>1, EmptyOK DEF Resume
  <2>2. CASE saved # None
    <3>1. LoadedFrom(reg', saved) /\ RegistryOK(reg')
      BY <1>7, <2>2, LoadFacts, LoadOK DEF Resume
    <3>2. SavedBehindLive(reg', saved)
      BY <3>1 DEF LoadedFrom, SavedBehindLive, Recorded
    <3>. QED BY <1>7, <3>1, <3>2 DEF Resume
  <2>. QED BY <2>1, <2>2
<1>8. ASSUME Clear
      PROVE  IInv'
  BY <1>8 DEF Clear
<1>9. CASE UNCHANGED vars
  BY <1>9 DEF vars
<1>. QED BY <1>2, <1>3, <1>4, <1>5, <1>6, <1>7, <1>8, <1>9 DEF Next

THEOREM Invariance == Spec => []IInv
BY InitIInv, NextIInv, PTL DEF Spec

-----------------------------------------------------------------------------
(* What follows from it for the registry. *)

\* Every reachable registry and stored dictionary has the shape the code
\* assumes when it indexes records["status"] and its siblings.
THEOREM TypeCorrect == Spec => []TypeOK
<1>1. IInv => TypeOK
  BY DEF IInv, RegistryOK, DictOK, TypeOK
<1>. QED BY <1>1, Invariance, PTL

\* Looking a call up gives the record of its request.
LEMMA CheckIsRecord ==
    ASSUME NEW r, RegistryOK(r), NEW c \in CallId
    PROVE  Check(r, KeyOf[c], c) = r.records[KeyOf[c]]
<1>1. c \in Name /\ Home(c) = KeyOf[c]
  BY RegistryAssumption DEF Name, Home
<1>2. r.index[c] # None => r.index[c] = KeyOf[c]
  BY <1>1 DEF RegistryOK, IndexLeadsHome
<1>. QED BY <1>2 DEF Check

\* Looking a call up by its id and by its key always gives the same record.
THEOREM LookupsAgree == Spec => []DualLookup
<1>1. IInv => DualLookup
  BY CheckIsRecord DEF IInv, DualLookup, RegistryOK
<1>. QED BY <1>1, Invariance, PTL

\* Saving and loading keeps every request, its outcome and its newest call id,
\* and is idempotent.
THEOREM ReconnectPreserves == Spec => []RoundTrip
<1>1. IInv => RoundTrip
  BY RoundTripOK DEF IInv, RoundTrip
<1>. QED BY <1>1, Invariance, PTL

\* No step of a live connection turns a completed call into a pending one.
THEOREM CompletionSticks == Spec => CompletedSticks
<1>1. IInv /\ [Next]_vars =>
        [\A k \in Key :
            /\ Recorded(reg, k)
            /\ reg.records[k].status = "completed"
            /\ ~ Resume
            => Recorded(reg', k) /\ reg'.records[k].status # "pending"]_vars
  <2> SUFFICES ASSUME IInv, Next, ~ Resume
               PROVE  Settles(reg, reg')
    BY DEF Settles
  <2>0. InitialStatus \subseteq Status /\ Status = {"pending", "completed", "failed"}
    BY RecordAssumption DEF Status
  <2>1. RegistryOK(reg)
    BY DEF IInv
  <2>2. ASSUME NEW c \in CallId, NEW s \in InitialStatus, Register(c, s)
        PROVE  Settles(reg, reg')
    <3>1. KeyOf[c] \in Key
      BY RegistryAssumption
    <3>. QED BY <2>0, <2>1, <2>2, <3>1, RegisterSettles DEF Register
  <2>3. ASSUME NEW k \in Key, NEW s \in InitialStatus, RegisterNoId(k, s)
        PROVE  Settles(reg, reg')
    BY <2>0, <2>1, <2>3, RegisterSettles DEF RegisterNoId
  <2>4. ASSUME NEW n \in Name, NEW res \in Result, Complete(n, res)
        PROVE  Settles(reg, reg')
    BY <2>0, <2>1, <2>4, SettleSettles DEF Complete, CompleteCall
  <2>5. ASSUME NEW n \in Name, NEW err \in Result \cup {None}, Fail(n, err)
        PROVE  Settles(reg, reg')
    BY <2>0, <2>1, <2>5, SettleSettles DEF Fail, FailCall
  <2>6. ASSUME UNCHANGED reg
        PROVE  Settles(reg, reg')
    BY <2>6 DEF Settles
  <2>. QED BY <2>2, <2>3, <2>4, <2>5, <2>6 DEF Next, Checkpoint, Clear
<1>. QED BY <1>1, Invariance, PTL DEF Spec, CompletedSticks

\* A completion that has been stored stays stored.
THEOREM StoredCompletionIsFinal == Spec => StoredCompletionSticks
<1>1. IInv /\ [Next]_vars =>
        [\A k \in Key :
            /\ saved # None
            /\ saved' # None
            /\ saved[k] # None
            /\ saved[k].status = "completed"
            => saved'[k] # None /\ saved'[k].status # "pending"]_vars
  <2> SUFFICES ASSUME IInv, Next, saved # None, saved' # None,
                      NEW k \in Key, saved[k] # None, saved[k].status = "completed"
               PROVE  saved'[k] # None /\ saved'[k].status # "pending"
    OBVIOUS
  <2>1. CASE Checkpoint
    <3>1. saved'[k] = reg.records[k]
      BY <2>1, ToDictOK DEF Checkpoint, IInv
    <3>. QED BY <3>1 DEF IInv, SavedBehindLive, Recorded
  <2>2. CASE UNCHANGED saved
    BY <2>2
  <2>. QED BY <2>1, <2>2 DEF Next, Register, RegisterNoId, Complete, Fail, Resume, Clear
<1>. QED BY <1>1, Invariance, PTL DEF Spec, StoredCompletionSticks

-----------------------------------------------------------------------------
(* Induction over the natural numbers, as a set that contains them all, and  *)
(* what it gives for a loop over the positions of a sequence.                *)

LEMMA Induct ==
    ASSUME NEW T, 0 \in T, \A n \in Nat : n \in T => n + 1 \in T
    PROVE  Nat \subseteq T
<1> DEFINE R == OpToRel(<, Nat)
           B == Nat \ T
<1> SUFFICES ASSUME B # {} PROVE FALSE
  OBVIOUS
<1>1. \E x \in B : \A y \in B : ~ (<<y, x>> \in R)
  <2>1. IsWellFoundedOn(R, Nat)
    BY NatLessThanWellFounded
  <2>2. B \subseteq Nat /\ B # {}
    OBVIOUS
  <2> HIDE DEF R, B
  <2>. QED BY <2>1, <2>2, WFMin
<1>2. PICK x \in B : \A y \in B : ~ (<<y, x>> \in R)
  BY <1>1
<1>3. x \in Nat /\ x # 0
  OBVIOUS
<1>4. x - 1 \in Nat /\ <<x - 1, x>> \in R /\ (x - 1) + 1 = x
  BY <1>3 DEF OpToRel
<1>5. x - 1 \in T
  BY <1>2, <1>4
<1>6. x \in T
  BY <1>4, <1>5
<1>. QED BY <1>6

\* f holds the states of a loop of n iterations that starts in x0.
Loop(f, X, x0, n, step) ==
    /\ f \in [0 .. n -> X]
    /\ f[0] = x0
    /\ \A i \in 1 .. n : f[i] = step[<<f[i - 1], i>>]

\* A loop whose state stays in X computes something: the recursive function of
\* its states exists.
LEMMA LoopExists ==
    ASSUME NEW X, NEW x0 \in X, NEW n \in Nat,
           NEW step \in [X \X (1 .. n) -> X]
    PROVE  \E f : Loop(f, X, x0, n, step)
<1> DEFINE Runs(m, f) == /\ f \in [0 .. m -> X]
                         /\ f[0] = x0
                         /\ \A i \in 1 .. m : f[i] = step[<<f[i - 1], i>>]
           T == {m \in Nat : m <= n => \E f : Runs(m, f)}
<1>1. 0 \in T
  <2>1. Runs(0, [i \in 0 .. 0 |-> x0])
    OBVIOUS
  <2>. QED BY <2>1
<1>2. ASSUME NEW m \in Nat, m \in T
      PROVE  m + 1 \in T
  <2> SUFFICES ASSUME m + 1 <= n
               PROVE  \E g : Runs(m + 1, g)
    OBVIOUS
  <2>1. PICK f : Runs(m, f)
    BY <1>2
  <2> DEFINE g == [i \in 0 .. m + 1 |->
                     IF i = m + 1 THEN step[<<f[m], m + 1>>] ELSE f[i]]
  <2>2. f[m] \in X /\ m + 1 \in 1 .. n
    BY <2>1
  <2>3. step[<<f[m], m + 1>>] \in X
    BY <2>2
  <2>4. g \in [0 .. m + 1 -> X] /\ g[0] = x0
    BY <2>1, <2>3
  <2>5. ASSUME NEW i \in 1 .. m + 1
        PROVE  g[i] = step[<<g[i - 1], i>>]
    <3>1. CASE i = m + 1
      <4>1. g[i - 1] = f[m] /\ g[i] = step[<<f[m], m + 1>>]
        BY <3>1
      <4>. QED BY <3>1, <4>1
    <3>2. CASE i # m + 1
      <4>1. i \in 1 .. m /\ g[i] = f[i] /\ g[i - 1] = f[i - 1]
        BY <3>2
      <4>. QED BY <2>1, <4>1
    <3>. QED BY <3>1, <3>2
  <2>6. Runs(m + 1, g)
    BY <2>4, <2>5
  <2>. QED BY <2>6
<1>3. Nat \subseteq T
  <2> HIDE DEF T
  <2>. QED BY <1>1, <1>2, Induct
<1>. QED BY <1>3 DEF Loop

-----------------------------------------------------------------------------
(* Values.                                                                   *)

LEMMA Kinds ==
    ASSUME NEW v \in Value
    PROVE  \/ v = Null /\ v[1] = "null"
           \/ v[1] = "atom" /\ v[2] \in Atom /\ v = <<"atom", v[2]>>
           \/ v[1] = "list" /\ v[2] \in Seq(Value) /\ v = <<"list", v[2]>>
           \/ v[1] = "dict" /\ v[2] \in Pairs(Value) /\ v = <<"dict", v[2]>>
<1>1. CASE v \in {Null}
  BY <1>1 DEF Null
<1>2. CASE v \in {"atom"} \X Atom
  BY <1>2
<1>3. CASE v \in {"list"} \X Seq(Value)
  BY <1>3
<1>4. CASE v \in {"dict"} \X Pairs(Value)
  BY <1>4
<1>. QED BY <1>1, <1>2, <1>3, <1>4, ValueAssumption

LEMMA PairsFacts ==
    ASSUME NEW V, NEW s \in Pairs(V)
    PROVE  /\ s \in Seq(CallerKey \X V) /\ Len(s) \in Nat /\ DOMAIN s = 1 .. Len(s)
           /\ \A i \in 1 .. Len(s) : /\ s[i] \in CallerKey \X V
                                     /\ s[i][1] \in CallerKey /\ s[i][2] \in V
                                     /\ s[i] = <<s[i][1], s[i][2]>>
           /\ \A i, j \in 1 .. Len(s) : s[i][1] = s[j][1] => i = j
<1>1. s \in Seq(CallerKey \X V) /\ \A i, j \in DOMAIN s : s[i][1] = s[j][1] => i = j
  BY DEF Pairs
<1>2. \A i \in 1 .. Len(s) : s[i] \in CallerKey \X V
  BY <1>1
<1>. QED BY <1>1, <1>2

\* The items of a list or a dict are values, less deeply nested.
LEMMA ItemFacts ==
    ASSUME NEW v \in Value, NEW w \in Items(v)
    PROVE  w \in Value /\ Depth[w] \in Nat /\ Depth[v] \in Nat /\ Depth[w] < Depth[v]
<1>1. w \in Value
  <2>1. CASE v[1] = "list"
    <3>1. PICK i \in DOMAIN v[2] : w = v[2][i]
      BY <2>1 DEF Items
    <3>2. v[2] \in Seq(Value)
      BY <2>1, Kinds
    <3>. QED BY <3>1, <3>2
  <2>2. CASE v[1] = "dict"
    <3>1. PICK i \in DOMAIN v[2] : w = v[2][i][2]
      BY <2>2 DEF Items
    <3>2. v[2] \in Pairs(Value)
      BY <2>2, Kinds
    <3>3. /\ DOMAIN v[2] = 1 .. Len(v[2])
          /\ \A j \in 1 .. Len(v[2]) : v[2][j][2] \in Value
      BY <3>2, PairsFacts
    <3>. QED BY <3>1, <3>3
  <2>3. CASE v[1] # "list" /\ v[1] # "dict"
    BY <2>3 DEF Items
  <2>. QED BY <2>1, <2>2, <2>3
<1>. QED BY <1>1, ValueAssumption

LEMMA ListItems ==
    ASSUME NEW v \in Value, v[1] = "list"
    PROVE  /\ v[2] \in Seq(Value) /\ Len(v[2]) \in Nat /\ DOMAIN v[2] = 1 .. Len(v[2])
           /\ \A i \in DOMAIN v[2] : v[2][i] \in Items(v) /\ v[2][i] \in Value
<1>1. v[2] \in Seq(Value)
  BY Kinds
<1>. QED BY <1>1 DEF Items

-----------------------------------------------------------------------------
(* Sorting.                                                                  *)

\* Some element of a nonempty list of distinct keys is the greatest.
LEMMA GreatestKey ==
    ASSUME NEW n \in Nat, NEW f \in [1 .. n + 1 -> Int]
    PROVE  \E m \in 1 .. n + 1 : \A i \in 1 .. n + 1 : f[i] <= f[m]
<1>. DEFINE T == {k \in Nat : k <= n => \E m \in 1 .. k + 1 : \A i \in 1 .. k + 1 : f[i] <= f[m]}
<1>1. 0 \in T
  <2>1. 1 \in 1 .. 0 + 1 /\ \A i \in 1 .. 0 + 1 : i = 1
    OBVIOUS
  <2>2. 1 \in 1 .. n + 1
    OBVIOUS
  <2>. QED BY <2>1, <2>2
<1>2. ASSUME NEW k \in Nat, k \in T PROVE k + 1 \in T
  <2>. SUFFICES ASSUME k + 1 <= n
                PROVE  \E m \in 1 .. k + 2 : \A i \in 1 .. k + 2 : f[i] <= f[m]
    OBVIOUS
  <2>1. PICK m \in 1 .. k + 1 : \A i \in 1 .. k + 1 : f[i] <= f[m]
    BY <1>2
  <2>2. f[m] \in Int /\ f[k + 2] \in Int /\ \A i \in 1 .. k + 2 : f[i] \in Int
    OBVIOUS
  <2>3. CASE f[m] <= f[k + 2]
    <3>1. \A i \in 1 .. k + 2 : f[i] <= f[k + 2]
      BY <2>1, <2>2, <2>3
    <3>. QED BY <3>1
  <2>4. CASE f[k + 2] <= f[m]
    <3>1. \A i \in 1 .. k + 2 : f[i] <= f[m]
      BY <2>1, <2>2, <2>4
    <3>. QED BY <3>1
  <2>. QED BY <2>2, <2>3, <2>4
<1>. HIDE DEF T
<1>3. Nat \subseteq T
  BY <1>1, <1>2, Induct
<1>4. n \in T
  BY <1>3
<1>. QED BY <1>4 DEF T

\* t lists the pairs of s by increasing keys.
Sorts(t, s, n) ==
    /\ DOMAIN t = 1 .. n
    /\ \A i \in 1 .. n : \E j \in 1 .. n : t[i] = s[j]
    /\ \A j \in 1 .. n : \E i \in 1 .. n : t[i] = s[j]
    /\ \A i, j \in 1 .. n : i < j => t[i][1] < t[j][1]

LEMMA SortExists ==
    ASSUME NEW P, \A p \in P : p[1] \in Int, NEW n \in Nat, NEW s \in [1 .. n -> P],
           \A i, j \in 1 .. n : s[i][1] = s[j][1] => i = j
    PROVE  \E t \in [1 .. n -> P] : Sorts(t, s, n)
<1>. DEFINE Unlike(f, k) == \A i, j \in 1 .. k : f[i][1] = f[j][1] => i = j
            T == {k \in Nat : \A f \in [1 .. k -> P] : Unlike(f, k) =>
                                 \E t \in [1 .. k -> P] : Sorts(t, f, k)}
<1>1. 0 \in T
  <2>. SUFFICES ASSUME NEW f \in [1 .. 0 -> P] PROVE \E t \in [1 .. 0 -> P] : Sorts(t, f, 0)
    OBVIOUS
  <2>1. Sorts(f, f, 0)
    BY DEF Sorts
  <2>. QED BY <2>1
<1>2. ASSUME NEW k \in Nat, k \in T PROVE k + 1 \in T
  <2>. SUFFICES ASSUME NEW f \in [1 .. k + 1 -> P], Unlike(f, k + 1)
                PROVE  \E t \in [1 .. k + 1 -> P] : Sorts(t, f, k + 1)
    OBVIOUS
  <2>1. PICK m \in 1 .. k + 1 : \A i \in 1 .. k + 1 : f[i][1] <= f[m][1]
    <3>. DEFINE h == [i \in 1 .. k + 1 |-> f[i][1]]
    <3>1. h \in [1 .. k + 1 -> Int]
      OBVIOUS
    <3>2. \E m \in 1 .. k + 1 : \A i \in 1 .. k + 1 : h[i] <= h[m]
      <4>. HIDE DEF h
      <4>. QED BY <3>1, GreatestKey
    <3>. QED BY <3>2
  <2>. DEFINE g == [i \in 1 .. k |-> IF i < m THEN f[i] ELSE f[i + 1]]
  <2>2. g \in [1 .. k -> P]
    OBVIOUS
  <2>3. Unlike(g, k)
    OBVIOUS
  <2>4. \A i \in 1 .. k : \E j \in 1 .. k + 1 : j # m /\ g[i] = f[j]
    OBVIOUS
  <2>5. \A j \in 1 .. k + 1 : j # m => \E i \in 1 .. k : g[i] = f[j]
    <3>. SUFFICES ASSUME NEW j \in 1 .. k + 1, j # m PROVE \E i \in 1 .. k : g[i] = f[j]
      OBVIOUS
    <3>1. CASE j < m
      <4>1. j \in 1 .. k /\ g[j] = f[j]
        BY <3>1
      <4>. QED BY <4>1
    <3>2. CASE j > m
      <4>1. j - 1 \in 1 .. k /\ g[j - 1] = f[j]
        BY <3>2
      <4>. QED BY <4>1
    <3>. QED BY <3>1, <3>2
  <2>. HIDE DEF g
  <2>6. PICK t \in [1 .. k -> P] : Sorts(t, g, k)
    BY <1>2, <2>2, <2>3
  <2>. DEFINE u == [i \in 1 .. k + 1 |-> IF i = k + 1 THEN f[m] ELSE t[i]]
  <2>7. u \in [1 .. k + 1 -> P] /\ u[k + 1] = f[m] /\ \A i \in 1 .. k : u[i] = t[i]
    OBVIOUS
  <2>. HIDE DEF u
  <2>8. \A i \in 1 .. k : t[i][1] < f[m][1]
    <3>. SUFFICES ASSUME NEW i \in 1 .. k PROVE t[i][1] < f[m][1]
      OBVIOUS
    <3>1. PICK j \in 1 .. k : t[i] = g[j]
      BY <2>6 DEF Sorts
    <3>2. PICK l \in 1 .. k + 1 : l # m /\ g[j] = f[l]
      BY <2>4
    <3>3. f[l][1] \in Int /\ f[m][1] \in Int /\ f[l][1] # f[m][1]
      BY <3>2
    <3>. QED BY <2>1, <3>1, <3>2, <3>3
  <2>9. \A i \in 1 .. k + 1 : \E j \in 1 .. k + 1 : u[i] = f[j]
    <3>. SUFFICES ASSUME NEW i \in 1 .. k + 1 PROVE \E j \in 1 .. k + 1 : u[i] = f[j]
      OBVIOUS
    <3>1. CASE i \in 1 .. k
      <4>1. PICK j \in 1 .. k : t[i] = g[j]
        BY <2>6, <3>1 DEF Sorts
      <4>. QED BY <2>4, <2>7, <3>1, <4>1
    <3>. QED BY <2>7, <3>1
  <2>10. \A j \in 1 .. k + 1 : \E i \in 1 .. k + 1 : u[i] = f[j]
    <3>. SUFFICES ASSUME NEW j \in 1 .. k + 1 PROVE \E i \in 1 .. k + 1 : u[i] = f[j]
      OBVIOUS
    <3>1. CASE j # m
      <4>1. PICK l \in 1 .. k : g[l] = f[j]
        BY <2>5, <3>1
      <4>2. PICK i \in 1 .. k : t[i] = g[l]
        BY <2>6 DEF Sorts
      <4>. QED BY <2>7, <4>1, <4>2
    <3>. QED BY <2>7, <3>1
  <2>11. \A i, j \in 1 .. k + 1 : i < j => u[i][1] < u[j][1]
    <3>. SUFFICES ASSUME NEW i \in 1 .. k + 1, NEW j \in 1 .. k + 1, i < j
                  PROVE  u[i][1] < u[j][1]
      OBVIOUS
    <3>1. i \in 1 .. k /\ (j \in 1 .. k \/ j = k + 1)
      OBVIOUS
    <3>. QED BY <2>6, <2>7, <2>8, <3>1 DEF Sorts
  <2>12. Sorts(u, f, k + 1)
    BY <2>7, <2>9, <2>10, <2>11 DEF Sorts
  <2>. QED BY <2>7, <2>12
<1>. HIDE DEF T
<1>3. Nat \subseteq T
  BY <1>1, <1>2, Induct
<1>4. n \in T
  BY <1>3
<1>. QED BY <1>4 DEF T

\* sort_keys orders the pairs of any dictionary.
LEMMA SortedFacts ==
    ASSUME NEW V, NEW s \in Pairs(V)
    PROVE  /\ Sorted(s) \in [1 .. Len(s) -> CallerKey \X V]
           /\ Sorts(Sorted(s), s, Len(s))
<1>. DEFINE n == Len(s)
            Q(t) == /\ ToSet(t) = ToSet(s)
                    /\ \A i, j \in DOMAIN s : i < j => t[i][1] < t[j][1]
<1>1. /\ n \in Nat /\ DOMAIN s = 1 .. n /\ s \in [1 .. n -> CallerKey \X V]
      /\ \A i, j \in 1 .. n : s[i][1] = s[j][1] => i = j
  <2>1. s \in Seq(CallerKey \X V)
    BY PairsFacts
  <2>2. s \in [1 .. Len(s) -> CallerKey \X V] /\ Len(s) \in Nat
    BY <2>1
  <2>. QED BY <2>2, PairsFacts
<1>2. ToSet(s) \subseteq CallerKey \X V
  BY <1>1 DEF ToSet
<1>3. PICK t \in [1 .. n -> CallerKey \X V] : Sorts(t, s, n)
  <2>1. \A p \in CallerKey \X V : p[1] \in Int
    BY DEF CallerKey
  <2>. HIDE DEF n
  <2>. QED BY <1>1, <2>1, SortExists
<1>4. t \in [DOMAIN s -> ToSet(s)] /\ Q(t)
  <2>. HIDE DEF n
  <2>1. \A x : x \in ToSet(s) <=> \E j \in 1 .. n : x = s[j]
    BY <1>1 DEF ToSet
  <2>2. \A x : x \in ToSet(t) <=> \E j \in 1 .. n : x = t[j]
    BY <1>3 DEF ToSet, Sorts
  <2>3. ToSet(s) = ToSet(t)
    <3>1. \A x : (\E j \in 1 .. n : x = s[j]) <=> (\E j \in 1 .. n : x = t[j])
      BY <1>3 DEF Sorts
    <3>2. \A x : x \in ToSet(s) <=> x \in ToSet(t)
      BY <2>1, <2>2, <3>1
    <3>. QED BY <3>2
  <2>4. t \in [1 .. n -> ToSet(s)]
    BY <1>3, <2>1 DEF Sorts
  <2>. QED BY <1>1, <1>3, <2>3, <2>4 DEF Sorts
<1>. DEFINE u == Sorted(s)
<1>5. u \in [DOMAIN s -> ToSet(s)] /\ Q(u)
  BY <1>4 DEF Sorted
<1>. HIDE DEF u
<1>6. Sorts(u, s, n)
  <2>. HIDE DEF n
  <2>1. \A x : x \in ToSet(s) <=> \E j \in 1 .. n : x = s[j]
    BY <1>1 DEF ToSet
  <2>2. \A x : x \in ToSet(u) <=> \E j \in 1 .. n : x = u[j]
    BY <1>1, <1>5 DEF ToSet
  <2>. QED BY <1>1, <1>5, <2>1, <2>2 DEF Sorts
<1>7. u \in [1 .. n -> CallerKey \X V]
  BY <1>1, <1>2, <1>5
<1>. QED BY <1>6, <1>7 DEF u

Increasing(t, n) ==
    (\A i \in 1 .. n : t[i] \in Int) /\ (\A i, j \in 1 .. n : i < j => t[i] < t[j])

\* Every key of u is one of t.
Covers(t, n, u, m) == \A j \in 1 .. m : \E i \in 1 .. n : u[j] = t[i]

\* Two lists of increasing keys are the same if they have the same keys.
LEMMA SortedAlike ==
    ASSUME NEW n \in Nat, NEW m \in Nat, NEW t, NEW u,
           Increasing(t, n), Increasing(u, m), Covers(t, n, u, m), Covers(u, m, t, n)
    PROVE  n = m /\ \A i \in 1 .. n : t[i] = u[i]
<1>. USE DEF Increasing, Covers
<1>. DEFINE T == {k \in Nat : \A i \in 1 .. k : (i <= n \/ i <= m) =>
                                 i <= n /\ i <= m /\ t[i] = u[i]}
<1>1. 0 \in T
  OBVIOUS
<1>2. ASSUME NEW k \in Nat, k \in T PROVE k + 1 \in T
  <2>. DEFINE l == k + 1
  <2>1. \A i \in 1 .. k : (i <= n \/ i <= m) => i <= n /\ i <= m /\ t[i] = u[i]
    BY <1>2
  <2>. SUFFICES ASSUME l <= n \/ l <= m
                PROVE  l <= n /\ l <= m /\ t[l] = u[l]
    BY <2>1
  <2>2. l \in Nat /\ l >= 1 /\ \A i \in Nat : i < l => i <= k
    OBVIOUS
  <2>. HIDE DEF l
  <2>3. ASSUME l <= n PROVE \E j \in 1 .. m : l <= j /\ t[l] = u[j]
    <3>1. l \in 1 .. n
      BY <2>2, <2>3
    <3>2. PICK j \in 1 .. m : t[l] = u[j]
      BY <3>1
    <3>3. CASE j < l
      <4>1. j \in 1 .. k /\ j \in 1 .. n
        BY <2>2, <2>3, <3>3
      <4>2. u[j] = t[j] /\ t[j] < t[l] /\ t[j] \in Int
        BY <2>1, <3>1, <3>3, <4>1
      <4>. QED BY <3>2, <4>2
    <3>4. CASE l <= j
      BY <3>2, <3>4
    <3>. QED BY <2>2, <3>3, <3>4
  <2>4. ASSUME l <= m PROVE \E i \in 1 .. n : l <= i /\ u[l] = t[i]
    <3>1. l \in 1 .. m
      BY <2>2, <2>4
    <3>2. PICK i \in 1 .. n : u[l] = t[i]
      BY <3>1
    <3>3. CASE i < l
      <4>1. i \in 1 .. k /\ i \in 1 .. m
        BY <2>2, <2>4, <3>3
      <4>2. u[i] = t[i] /\ u[i] < u[l] /\ u[i] \in Int
        BY <2>1, <3>1, <3>3, <4>1
      <4>. QED BY <3>2, <4>2
    <3>4. CASE l <= i
      BY <3>2, <3>4
    <3>. QED BY <2>2, <3>3, <3>4
  <2>5. l <= n /\ l <= m
    BY <2>2, <2>3, <2>4
  <2>6. l \in 1 .. n /\ l \in 1 .. m /\ t[l] \in Int /\ u[l] \in Int
    BY <2>2, <2>5
  <2>7. PICK j \in 1 .. m : l <= j /\ t[l] = u[j]
    BY <2>3, <2>5
  <2>8. PICK i \in 1 .. n : l <= i /\ u[l] = t[i]
    BY <2>4, <2>5
  <2>9. u[l] <= t[l]
    BY <2>6, <2>7
  <2>10. t[l] <= u[l]
    BY <2>6, <2>8
  <2>11. t[l] = u[l]
    <3>1. \A a, b \in Int : a <= b /\ b <= a => a = b
      OBVIOUS
    <3>2. t[l] \in Int /\ u[l] \in Int
      BY <2>6
    <3>. QED BY <2>9, <2>10, <3>1, <3>2
  <2>. QED BY <2>5, <2>11
<1>. HIDE DEF T
<1>3. Nat \subseteq T
  BY <1>1, <1>2, Induct
<1>4. n \in T /\ m \in T
  BY <1>3
<1>. QED BY <1>4 DEF T

\* The pairs of a dict in the order of their keys.
LEMMA DictFacts ==
    ASSUME NEW v \in Value, v[1] = "dict",
           NEW n, n = Len(v[2]), NEW t, t = Sorted(v[2])
    PROVE  /\ n \in Nat /\ DOMAIN v[2] = 1 .. n /\ DOMAIN t = 1 .. n
           /\ \A i \in 1 .. n : /\ t[i][1] \in CallerKey /\ t[i][2] \in Items(v)
                                /\ t[i][2] \in Value
                                /\ At(v, t[i][1]) = t[i][2]
           /\ \A i, j \in 1 .. n : i < j => t[i][1] < t[j][1]
           /\ \A k : k \in KeysOf(v) <=> \E i \in 1 .. n : t[i][1] = k
<1>. DEFINE s == v[2]
<1>1. s \in Pairs(Value)
  BY Kinds
<1>2. /\ n \in Nat /\ DOMAIN s = 1 .. n
      /\ \A i \in 1 .. n : s[i][1] \in CallerKey /\ s[i][2] \in Value
      /\ \A i, j \in 1 .. n : s[i][1] = s[j][1] => i = j
  BY <1>1, PairsFacts
<1>3. Sorts(t, s, n)
  BY <1>1, SortedFacts
<1>4. \A k : k \in KeysOf(v) <=> \E j \in 1 .. n : s[j][1] = k
  BY <1>2 DEF KeysOf
<1>5. \A i \in 1 .. n : s[i][2] \in Items(v) /\ At(v, s[i][1]) = s[i][2]
  <2>. SUFFICES ASSUME NEW i \in 1 .. n
                PROVE  s[i][2] \in Items(v) /\ At(v, s[i][1]) = s[i][2]
    OBVIOUS
  <2>1. (CHOOSE j \in DOMAIN s : s[j][1] = s[i][1]) = i
    BY <1>2
  <2>. QED BY <1>2, <2>1 DEF Items, At
<1>6. \A i \in 1 .. n : \E j \in 1 .. n : t[i] = s[j]
  BY <1>3 DEF Sorts
<1>7. \A j \in 1 .. n : \E i \in 1 .. n : t[i] = s[j]
  BY <1>3 DEF Sorts
<1>8. DOMAIN t = 1 .. n /\ \A i, j \in 1 .. n : i < j => t[i][1] < t[j][1]
  BY <1>3 DEF Sorts
<1>. HIDE DEF s
<1>9. \A i \in 1 .. n : /\ t[i][1] \in CallerKey /\ t[i][2] \in Items(v)
                         /\ t[i][2] \in Value /\ At(v, t[i][1]) = t[i][2]
  <2>. SUFFICES ASSUME NEW i \in 1 .. n
                PROVE  /\ t[i][1] \in CallerKey /\ t[i][2] \in Items(v)
                       /\ t[i][2] \in Value /\ At(v, t[i][1]) = t[i][2]
    OBVIOUS
  <2>1. PICK j \in 1 .. n : t[i] = s[j]
    BY <1>6
  <2>. QED BY <1>2, <1>5, <2>1
<1>10. \A k : k \in KeysOf(v) <=> \E i \in 1 .. n : t[i][1] = k
  <2>1. ASSUME NEW k \in KeysOf(v) PROVE \E i \in 1 .. n : t[i][1] = k
    <3>1. PICK j \in 1 .. n : s[j][1] = k
      BY <1>4, <2>1
    <3>2. PICK i \in 1 .. n : t[i] = s[j]
      BY <1>7
    <3>. QED BY <3>1, <3>2
  <2>2. ASSUME NEW i \in 1 .. n PROVE t[i][1] \in KeysOf(v)
    <3>1. PICK j \in 1 .. n : t[i] = s[j]
      BY <1>6
    <3>. QED BY <1>4, <3>1
  <2>. QED BY <2>1, <2>2
<1>11. DOMAIN v[2] = 1 .. n
  BY <1>2 DEF s
<1>. QED BY <1>2, <1>8, <1>9, <1>10, <1>11

-----------------------------------------------------------------------------
(* The text of a value. *)

DumpsStep(f, v) ==
    CASE v[1] = "list" -> <<"list", [i \in DOMAIN v[2] |-> f[v[2][i]]]>>
      [] v[1] = "dict" ->
           LET sorted == Sorted(v[2]) IN
           <<"dict", [i \in DOMAIN v[2] |->
                        <<sorted[i][1], Spelling(sorted[i][1], ForeignKey), f[sorted[i][2]]>>]>>
      [] v[1] = "atom" -> AtomText(v[2])
      [] OTHER -> v

\* What is said of a value depends on what is said of its items.
LEMMA DumpsLocal ==
    ASSUME NEW v \in Value, NEW f, NEW g, \A w \in Items(v) : f[w] = g[w]
    PROVE  DumpsStep(f, v) = DumpsStep(g, v)
<1>1. CASE v[1] = "list"
  <2>1. \A i \in DOMAIN v[2] : f[v[2][i]] = g[v[2][i]]
    BY <1>1, ListItems
  <2>. QED BY <1>1, <2>1 DEF DumpsStep
<1>2. CASE v[1] = "dict"
  <2>. DEFINE t == Sorted(v[2])
  <2>1. \A i \in DOMAIN v[2] : t[i][2] \in Items(v)
    BY <1>2, DictFacts
  <2>2. \A i \in DOMAIN v[2] : f[t[i][2]] = g[t[i][2]]
    BY <2>1
  <2>. HIDE DEF t
  <2>. QED BY <1>2, <2>2 DEF DumpsStep, t
<1>3. CASE v[1] # "list" /\ v[1] # "dict"
  BY <1>3 DEF DumpsStep
<1>. QED BY <1>1, <1>2, <1>3

-----------------------------------------------------------------------------
(* What a value means. *)

DenoteStep(f, v) ==
    CASE v[1] = "list" -> <<"list", [i \in DOMAIN v[2] |-> f[v[2][i]]]>>
      [] v[1] = "dict" -> <<"dict", [k \in KeysOf(v) |-> f[At(v, k)]]>>
      [] OTHER -> v

\* What is said of a value depends on what is said of its items.
LEMMA DenoteLocal ==
    ASSUME NEW v \in Value, NEW f, NEW g, \A w \in Items(v) : f[w] = g[w]
    PROVE  DenoteStep(f, v) = DenoteStep(g, v)
<1>1. CASE v[1] = "list"
  <2>1. \A i \in DOMAIN v[2] : f[v[2][i]] = g[v[2][i]]
    BY <1>1, ListItems
  <2>. QED BY <1>1, <2>1 DEF DenoteStep
<1>2. CASE v[1] = "dict"
  <2>1. ASSUME NEW k \in KeysOf(v) PROVE At(v, k) \in Items(v)
    <3>. DEFINE t == Sorted(v[2])
    <3>1. \E i \in 1 .. Len(v[2]) : t[i][1] = k
      BY <1>2, <2>1, DictFacts
    <3>2. \A i \in 1 .. Len(v[2]) : t[i][2] \in Items(v) /\ At(v, t[i][1]) = t[i][2]
      BY <1>2, DictFacts
    <3>. HIDE DEF t
    <3>. QED BY <3>1, <3>2
  <2>2. \A k \in KeysOf(v) : f[At(v, k)] = g[At(v, k)]
    BY <2>1
  <2>. QED BY <1>2, <2>2 DEF DenoteStep
<1>3. CASE v[1] # "list" /\ v[1] # "dict"
  BY <1>3 DEF DenoteStep
<1>. QED BY <1>1, <1>2, <1>3

-----------------------------------------------------------------------------
(* The text of a value that the client makes. *)

ClientStep(f, v) ==
    CASE v[1] = "null" -> EmptyDict
      [] v[1] = "list" -> <<"list", [i \in DOMAIN v[2] |-> f[v[2][i]]]>>
      [] v[1] = "dict" ->
           LET sorted == Sorted(v[2]) IN
           <<"dict", [i \in DOMAIN v[2] |->
                        <<sorted[i][1], "plain", f[sorted[i][2]]>>]>>
      [] OTHER -> <<"atom", v[2], "plain">>

\* What is said of a value depends on what is said of its items.
LEMMA ClientDumpsLocal ==
    ASSUME NEW v \in Value, NEW f, NEW g, \A w \in Items(v) : f[w] = g[w]
    PROVE  ClientStep(f, v) = ClientStep(g, v)
<1>1. CASE v[1] = "list"
  <2>1. \A i \in DOMAIN v[2] : f[v[2][i]] = g[v[2][i]]
    BY <1>1, ListItems
  <2>. QED BY <1>1, <2>1 DEF ClientStep
<1>2. CASE v[1] = "dict"
  <2>. DEFINE t == Sorted(v[2])
  <2>1. \A i \in DOMAIN v[2] : t[i][2] \in Items(v)
    BY <1>2, DictFacts
  <2>2. \A i \in DOMAIN v[2] : f[t[i][2]] = g[t[i][2]]
    BY <2>1
  <2>. HIDE DEF t
  <2>. QED BY <1>2, <2>2 DEF ClientStep, t
<1>3. CASE v[1] # "list" /\ v[1] # "dict"
  BY <1>3 DEF ClientStep
<1>. QED BY <1>1, <1>2, <1>3

-----------------------------------------------------------------------------
(* What a value consists of. *)

PartsStep(f, v) ==
    {v} \cup UNION {f[w] : w \in Items(v)}

\* What is said of a value depends on what is said of its items.
LEMMA PartsLocal ==
    ASSUME NEW v \in Value, NEW f, NEW g, \A w \in Items(v) : f[w] = g[w]
    PROVE  PartsStep(f, v) = PartsStep(g, v)
BY DEF PartsStep

-----------------------------------------------------------------------------
(* All four exist: values are finitely nested. *)

Component(F, i) == [v \in Value |-> F[v][i]]

Together(F, v) == <<DumpsStep(Component(F, 1), v), DenoteStep(Component(F, 2), v),
                    ClientStep(Component(F, 3), v), PartsStep(Component(F, 4), v)>>

LEMMA TogetherLocal ==
    ASSUME NEW v \in Value, NEW f, NEW g, \A w \in Items(v) : f[w] = g[w]
    PROVE  Together(f, v) = Together(g, v)
<1>1. \A w \in Items(v), i \in 1 .. 4 : Component(f, i)[w] = Component(g, i)[w]
  BY ItemFacts DEF Component
<1>. QED BY <1>1, DumpsLocal, DenoteLocal, ClientDumpsLocal, PartsLocal DEF Together

LEMMA TogetherExists == \E h : h = [v \in Value |-> Together(h, v)]
<1>. DEFINE Below(m) == {v \in Value : Depth[v] < m}
            T == {m \in Nat : \E f : f = [v \in Below(m) |-> Together(f, v)]}
<1>1. 0 \in T
  <2>1. Below(0) = {}
    BY ValueAssumption
  <2>2. <<>> = [v \in Below(0) |-> Together(<<>>, v)]
    BY <2>1
  <2>. QED BY <2>2
<1>2. ASSUME NEW m \in Nat, m \in T PROVE m + 1 \in T
  <2>1. PICK f : f = [v \in Below(m) |-> Together(f, v)]
    BY <1>2
  <2>. DEFINE g == [v \in Below(m + 1) |-> Together(f, v)]
  <2>2. ASSUME NEW v \in Below(m + 1) PROVE Together(f, v) = Together(g, v)
    <3>1. ASSUME NEW w \in Items(v) PROVE f[w] = g[w]
      <4>1. w \in Below(m) /\ w \in Below(m + 1)
        BY <2>2, ItemFacts
      <4>2. f[w] = Together(f, w)
        BY <2>1, <4>1
      <4>. QED BY <4>1, <4>2
    <3>. HIDE DEF g
    <3>. QED BY <2>2, <3>1, TogetherLocal
  <2>3. g = [v \in Below(m + 1) |-> Together(g, v)]
    BY <2>2
  <2>. HIDE DEF g
  <2>. QED BY <2>3
<1>. DEFINE G == [m \in Nat |-> CHOOSE f : f = [v \in Below(m) |-> Together(f, v)]]
<1>3. ASSUME NEW m \in Nat PROVE G[m] = [v \in Below(m) |-> Together(G[m], v)]
  <2>1. m \in T
    <3>. HIDE DEF T
    <3>. QED BY <1>1, <1>2, Induct
  <2>. QED BY <2>1
<1>. HIDE DEF G
<1>4. ASSUME NEW m \in Nat, NEW n \in Nat, NEW v \in Below(m) \cap Below(n)
      PROVE  G[m][v] = G[n][v]
  <2>. DEFINE S == {k \in Nat : \A w \in Below(k) :
                       w \in Below(m) /\ w \in Below(n) => G[m][w] = G[n][w]}
  <2>1. 0 \in S
    BY ValueAssumption
  <2>2. ASSUME NEW k \in Nat, k \in S PROVE k + 1 \in S
    <3>. SUFFICES ASSUME NEW w \in Below(k + 1), w \in Below(m), w \in Below(n)
                  PROVE  G[m][w] = G[n][w]
      OBVIOUS
    <3>1. ASSUME NEW x \in Items(w) PROVE G[m][x] = G[n][x]
      <4>1. x \in Below(k) /\ x \in Below(m) /\ x \in Below(n)
        BY <3>1, ItemFacts
      <4>. QED BY <2>2, <4>1
    <3>2. Together(G[m], w) = Together(G[n], w)
      BY <3>1, TogetherLocal
    <3>3. G[m][w] = Together(G[m], w)
      BY <1>3
    <3>4. G[n][w] = Together(G[n], w)
      BY <1>3
    <3>. QED BY <3>2, <3>3, <3>4
  <2>3. m \in S
    <3>. HIDE DEF S
    <3>. QED BY <2>1, <2>2, Induct
  <2>. QED BY <1>4, <2>3
<1>. DEFINE h == [v \in Value |-> G[Depth[v] + 1][v]]
<1>5. ASSUME NEW v \in Value PROVE h[v] = Together(h, v)
  <2>1. Depth[v] \in Nat /\ v \in Below(Depth[v] + 1)
    BY ValueAssumption
  <2>2. G[Depth[v] + 1][v] = Together(G[Depth[v] + 1], v)
    <3>1. Depth[v] + 1 \in Nat
      BY <2>1
    <3>2. G[Depth[v] + 1] = [w \in Below(Depth[v] + 1) |-> Together(G[Depth[v] + 1], w)]
      BY <1>3, <3>1
    <3>. QED BY <2>1, <3>2
  <2>3. ASSUME NEW w \in Items(v) PROVE h[w] = G[Depth[v] + 1][w]
    <3>1. /\ w \in Value /\ Depth[w] \in Nat
          /\ w \in Below(Depth[w] + 1) /\ w \in Below(Depth[v] + 1)
      BY <2>1, ItemFacts
    <3>2. G[Depth[w] + 1][w] = G[Depth[v] + 1][w]
      BY <1>4, <2>1, <3>1
    <3>. QED BY <3>1, <3>2
  <2>. HIDE DEF h
  <2>4. Together(h, v) = Together(G[Depth[v] + 1], v)
    BY <2>3, TogetherLocal
  <2>. QED BY <2>2, <2>4 DEF h
<1>6. h = [v \in Value |-> Together(h, v)]
  BY <1>5
<1>. QED BY <1>6

\* So each is what its definition says.
LEMMA DumpsDef == \A v \in Value : Dumps[v] = DumpsStep(Dumps, v)
<1>1. PICK h : h = [v \in Value |-> Together(h, v)]
  BY TogetherExists
<1>. DEFINE f == Component(h, 1)
<1>2. \A v \in Value : h[v][1] = DumpsStep(f, v)
  <2>1. \A v \in Value : h[v] = Together(h, v)
    BY <1>1
  <2>. HIDE DEF f
  <2>. QED BY <2>1 DEF Together, f
<1>3. f = [v \in Value |-> DumpsStep(f, v)]
  BY <1>2 DEF Component
<1>. HIDE DEF f
<1>4. Dumps = [v \in Value |-> DumpsStep(Dumps, v)]
  BY <1>3 DEF Dumps, DumpsStep
<1>. QED BY <1>4

LEMMA DenoteDef == \A v \in Value : Denote[v] = DenoteStep(Denote, v)
<1>1. PICK h : h = [v \in Value |-> Together(h, v)]
  BY TogetherExists
<1>. DEFINE f == Component(h, 2)
<1>2. \A v \in Value : h[v][2] = DenoteStep(f, v)
  <2>1. \A v \in Value : h[v] = Together(h, v)
    BY <1>1
  <2>. HIDE DEF f
  <2>. QED BY <2>1 DEF Together, f
<1>3. f = [v \in Value |-> DenoteStep(f, v)]
  BY <1>2 DEF Component
<1>. HIDE DEF f
<1>4. Denote = [v \in Value |-> DenoteStep(Denote, v)]
  BY <1>3 DEF Denote, DenoteStep
<1>. QED BY <1>4

LEMMA ClientDumpsDef == \A v \in Value : ClientDumps[v] = ClientStep(ClientDumps, v)
<1>1. PICK h : h = [v \in Value |-> Together(h, v)]
  BY TogetherExists
<1>. DEFINE f == Component(h, 3)
<1>2. \A v \in Value : h[v][3] = ClientStep(f, v)
  <2>1. \A v \in Value : h[v] = Together(h, v)
    BY <1>1
  <2>. HIDE DEF f
  <2>. QED BY <2>1 DEF Together, f
<1>3. f = [v \in Value |-> ClientStep(f, v)]
  BY <1>2 DEF Component
<1>. HIDE DEF f
<1>4. ClientDumps = [v \in Value |-> ClientStep(ClientDumps, v)]
  BY <1>3 DEF ClientDumps, ClientStep
<1>. QED BY <1>4

LEMMA PartsDef == \A v \in Value : Parts[v] = PartsStep(Parts, v)
<1>1. PICK h : h = [v \in Value |-> Together(h, v)]
  BY TogetherExists
<1>. DEFINE f == Component(h, 4)
<1>2. \A v \in Value : h[v][4] = PartsStep(f, v)
  <2>1. \A v \in Value : h[v] = Together(h, v)
    BY <1>1
  <2>. HIDE DEF f
  <2>. QED BY <2>1 DEF Together, f
<1>3. f = [v \in Value |-> PartsStep(f, v)]
  BY <1>2 DEF Component
<1>. HIDE DEF f
<1>4. Parts = [v \in Value |-> PartsStep(Parts, v)]
  BY <1>3 DEF Parts, PartsStep
<1>. QED BY <1>4

-----------------------------------------------------------------------------
(* Texts and meanings. *)

\* The text of a dict has its keys, in their order.
LEMMA DictText ==
    ASSUME NEW v \in Value, v[1] = "dict", NEW t, t = Sorted(v[2])
    PROVE  /\ Dumps[v] = <<"dict", [i \in 1 .. Len(v[2]) |->
                              <<t[i][1], Spelling(t[i][1], ForeignKey), Dumps[t[i][2]]>>]>>
           /\ Denote[v] = <<"dict", [k \in KeysOf(v) |-> Denote[At(v, k)]]>>
<1>1. DOMAIN v[2] = 1 .. Len(v[2])
  BY DictFacts
<1>2. Dumps[v] = DumpsStep(Dumps, v) /\ Denote[v] = DenoteStep(Denote, v)
  BY DumpsDef, DenoteDef
<1>. QED BY <1>1, <1>2 DEF DumpsStep, DenoteStep

LEMMA ListText ==
    ASSUME NEW v \in Value, v[1] = "list"
    PROVE  /\ Dumps[v] = <<"list", [i \in 1 .. Len(v[2]) |-> Dumps[v[2][i]]]>>
           /\ Denote[v] = <<"list", [i \in 1 .. Len(v[2]) |-> Denote[v[2][i]]]>>
<1>1. DOMAIN v[2] = 1 .. Len(v[2])
  BY ListItems
<1>2. Dumps[v] = DumpsStep(Dumps, v) /\ Denote[v] = DenoteStep(Denote, v)
  BY DumpsDef, DenoteDef
<1>. QED BY <1>1, <1>2 DEF DumpsStep, DenoteStep

LEMMA LeafText ==
    ASSUME NEW v \in Value, v[1] # "list", v[1] # "dict"
    PROVE  /\ Dumps[v] = IF v[1] = "atom" THEN AtomText(v[2]) ELSE v
           /\ Denote[v] = v
<1>1. Dumps[v] = DumpsStep(Dumps, v) /\ Denote[v] = DenoteStep(Denote, v)
  BY DumpsDef, DenoteDef
<1>. QED BY <1>1 DEF DumpsStep, DenoteStep

\* The text of a value and its meaning show its kind.
LEMMA TextKind ==
    ASSUME NEW v \in Value
    PROVE  Dumps[v][1] = v[1] /\ Denote[v][1] = v[1]
<1>1. CASE v[1] = "list"
  <2>1. (\E x : Dumps[v] = <<"list", x>>) /\ (\E x : Denote[v] = <<"list", x>>)
    BY <1>1, ListText
  <2>. QED BY <1>1, <2>1
<1>2. CASE v[1] = "dict"
  <2>1. (\E x : Dumps[v] = <<"dict", x>>) /\ (\E x : Denote[v] = <<"dict", x>>)
    BY <1>2, DictText
  <2>. QED BY <1>2, <2>1
<1>3. CASE v[1] = "atom"
  <2>1. (\E x, y : Dumps[v] = <<"atom", x, y>>) /\ Denote[v] = v
    BY <1>3, LeafText DEF AtomText
  <2>. QED BY <1>3, <2>1
<1>4. CASE v[1] # "list" /\ v[1] # "dict" /\ v[1] # "atom"
  BY <1>4, LeafText
<1>. QED BY <1>1, <1>2, <1>3, <1>4

\* Lists: item by item.
LEMMA SameLists ==
    ASSUME NEW v \in Value, NEW w \in Value, v[1] = "list", w[1] = "list",
           \A x \in Items(v), y \in Value : Dumps[x] = Dumps[y] <=> Denote[x] = Denote[y]
    PROVE  Dumps[v] = Dumps[w] <=> Denote[v] = Denote[w]
<1>. DEFINE n == Len(v[2])
            m == Len(w[2])
            dv == [i \in 1 .. n |-> Dumps[v[2][i]]]
            dw == [i \in 1 .. m |-> Dumps[w[2][i]]]
            ev == [i \in 1 .. n |-> Denote[v[2][i]]]
            ew == [i \in 1 .. m |-> Denote[w[2][i]]]
<1>1. /\ n \in Nat /\ m \in Nat
      /\ \A i \in 1 .. n : v[2][i] \in Items(v)
      /\ \A i \in 1 .. m : w[2][i] \in Value
  BY ListItems
<1>2. /\ Dumps[v] = <<"list", dv>> /\ Dumps[w] = <<"list", dw>>
      /\ Denote[v] = <<"list", ev>> /\ Denote[w] = <<"list", ew>>
  BY ListText
<1>3. (Dumps[v] = Dumps[w] <=> dv = dw) /\ (Denote[v] = Denote[w] <=> ev = ew)
  <2>. HIDE DEF dv, dw, ev, ew
  <2>. QED BY <1>2
<1>4. dv = dw <=> n = m /\ \A i \in 1 .. n : Dumps[v[2][i]] = Dumps[w[2][i]]
  <2>. HIDE DEF n, m
  <2>1. ASSUME dv = dw PROVE n = m /\ \A i \in 1 .. n : Dumps[v[2][i]] = Dumps[w[2][i]]
    <3>1. 1 .. n = 1 .. m
      BY <2>1
    <3>2. n = m
      BY <1>1, <3>1
    <3>3. \A i \in 1 .. n : dv[i] = dw[i]
      BY <2>1
    <3>. QED BY <3>2, <3>3
  <2>. QED BY <2>1
<1>5. ev = ew <=> n = m /\ \A i \in 1 .. n : Denote[v[2][i]] = Denote[w[2][i]]
  <2>. HIDE DEF n, m
  <2>1. ASSUME ev = ew PROVE n = m /\ \A i \in 1 .. n : Denote[v[2][i]] = Denote[w[2][i]]
    <3>1. 1 .. n = 1 .. m
      BY <2>1
    <3>2. n = m
      BY <1>1, <3>1
    <3>3. \A i \in 1 .. n : ev[i] = ew[i]
      BY <2>1
    <3>. QED BY <3>2, <3>3
  <2>. QED BY <2>1
<1>. HIDE DEF n, m, dv, dw, ev, ew
<1>. QED BY <1>1, <1>3, <1>4, <1>5

\* Dicts: key by key, wherever each stands.
LEMMA SameDicts ==
    ASSUME NEW v \in Value, NEW w \in Value, v[1] = "dict", w[1] = "dict",
           \A x \in Items(v), y \in Value : Dumps[x] = Dumps[y] <=> Denote[x] = Denote[y]
    PROVE  Dumps[v] = Dumps[w] <=> Denote[v] = Denote[w]
<1>. DEFINE n == Len(v[2])
            m == Len(w[2])
            t == Sorted(v[2])
            u == Sorted(w[2])
            dv == [i \in 1 .. n |-> <<t[i][1], Spelling(t[i][1], ForeignKey), Dumps[t[i][2]]>>]
            dw == [i \in 1 .. m |-> <<u[i][1], Spelling(u[i][1], ForeignKey), Dumps[u[i][2]]>>]
            ev == [k \in KeysOf(v) |-> Denote[At(v, k)]]
            ew == [k \in KeysOf(w) |-> Denote[At(w, k)]]
<1>1. /\ n \in Nat
      /\ \A i \in 1 .. n : /\ t[i][1] \in CallerKey /\ t[i][2] \in Items(v)
                           /\ At(v, t[i][1]) = t[i][2]
      /\ \A i, j \in 1 .. n : i < j => t[i][1] < t[j][1]
      /\ \A k : k \in KeysOf(v) <=> \E i \in 1 .. n : t[i][1] = k
  BY DictFacts
<1>2. /\ m \in Nat
      /\ \A i \in 1 .. m : /\ u[i][1] \in CallerKey /\ u[i][2] \in Value
                           /\ At(w, u[i][1]) = u[i][2]
      /\ \A i, j \in 1 .. m : i < j => u[i][1] < u[j][1]
      /\ \A k : k \in KeysOf(w) <=> \E i \in 1 .. m : u[i][1] = k
  BY DictFacts
<1>3. /\ Dumps[v] = <<"dict", dv>> /\ Dumps[w] = <<"dict", dw>>
      /\ Denote[v] = <<"dict", ev>> /\ Denote[w] = <<"dict", ew>>
  BY DictText
<1>4. (Dumps[v] = Dumps[w] <=> dv = dw) /\ (Denote[v] = Denote[w] <=> ev = ew)
  <2>. HIDE DEF dv, dw, ev, ew
  <2>. QED BY <1>3
<1>5. CallerKey \subseteq Int
  BY DEF CallerKey
<1>. HIDE DEF n, m, t, u
<1>6. ASSUME dv = dw PROVE ev = ew
  <2>1. n = m
    <3>1. 1 .. n = 1 .. m
      BY <1>6
    <3>. QED BY <1>1, <1>2, <3>1
  <2>2. \A i \in 1 .. n : t[i][1] = u[i][1] /\ Dumps[t[i][2]] = Dumps[u[i][2]]
    <3>. SUFFICES ASSUME NEW i \in 1 .. n
                  PROVE  t[i][1] = u[i][1] /\ Dumps[t[i][2]] = Dumps[u[i][2]]
      OBVIOUS
    <3>1. dv[i] = dw[i]
      BY <1>6
    <3>2. /\ dv[i] = <<t[i][1], Spelling(t[i][1], ForeignKey), Dumps[t[i][2]]>>
          /\ dw[i] = <<u[i][1], Spelling(u[i][1], ForeignKey), Dumps[u[i][2]]>>
      BY <2>1
    <3>. QED BY <3>1, <3>2
  <2>3. KeysOf(v) = KeysOf(w)
    <3>1. \A k : k \in KeysOf(v) <=> k \in KeysOf(w)
      BY <1>1, <1>2, <2>1, <2>2
    <3>. QED BY <3>1
  <2>4. ASSUME NEW k \in KeysOf(v) PROVE Denote[At(v, k)] = Denote[At(w, k)]
    <3>1. PICK i \in 1 .. n : t[i][1] = k
      BY <1>1
    <3>2. At(v, k) = t[i][2] /\ At(w, k) = u[i][2]
      BY <1>1, <1>2, <2>1, <2>2, <3>1
    <3>3. t[i][2] \in Items(v) /\ u[i][2] \in Value
      BY <1>1, <1>2, <2>1
    <3>4. Denote[t[i][2]] = Denote[u[i][2]]
      BY <2>2, <3>3
    <3>. QED BY <3>2, <3>4
  <2>. QED BY <2>3, <2>4
<1>7. ASSUME ev = ew PROVE dv = dw
  <2>1. KeysOf(v) = KeysOf(w)
    <3>1. DOMAIN ev = KeysOf(v) /\ DOMAIN ew = KeysOf(w)
      OBVIOUS
    <3>. QED BY <1>7, <3>1
  <2>2. n = m /\ \A i \in 1 .. n : t[i][1] = u[i][1]
    <3>. DEFINE kt == [i \in 1 .. n |-> t[i][1]]
                ku == [i \in 1 .. m |-> u[i][1]]
    <3>1. Increasing(kt, n) /\ Increasing(ku, m)
      BY <1>1, <1>2, <1>5 DEF Increasing
    <3>2. Covers(ku, m, kt, n)
      BY <1>1, <1>2, <2>1 DEF Covers
    <3>3. Covers(kt, n, ku, m)
      BY <1>1, <1>2, <2>1 DEF Covers
    <3>4. n = m /\ \A i \in 1 .. n : kt[i] = ku[i]
      <4>1. n \in Nat /\ m \in Nat
        BY <1>1, <1>2
      <4>. HIDE DEF kt, ku
      <4>. QED BY <3>1, <3>2, <3>3, <4>1, SortedAlike
    <3>. QED BY <3>4
  <2>3. ASSUME NEW i \in 1 .. n PROVE Dumps[t[i][2]] = Dumps[u[i][2]]
    <3>. DEFINE k == t[i][1]
    <3>1. k \in KeysOf(v) /\ At(v, k) = t[i][2] /\ At(w, k) = u[i][2]
      BY <1>1, <1>2, <2>2
    <3>2. ev[k] = Denote[t[i][2]] /\ ew[k] = Denote[u[i][2]]
      BY <2>1, <3>1
    <3>3. Denote[t[i][2]] = Denote[u[i][2]]
      BY <1>7, <3>2
    <3>4. t[i][2] \in Items(v) /\ u[i][2] \in Value
      BY <1>1, <1>2, <2>2
    <3>. QED BY <3>3, <3>4
  <2>. QED BY <2>2, <2>3
<1>. HIDE DEF dv, dw, ev, ew
<1>. QED BY <1>4, <1>6, <1>7

\* Two values have the same text exactly if they are equal as JSON.
LEMMA SameTexts ==
    \A v, w \in Value : Dumps[v] = Dumps[w] <=> Denote[v] = Denote[w]
<1>. DEFINE Same(v, w) == Dumps[v] = Dumps[w] <=> Denote[v] = Denote[w]
            T == {n \in Nat : \A v, w \in Value : Depth[v] < n => Same(v, w)}
<1>1. 0 \in T
  BY ValueAssumption
<1>2. ASSUME NEW n \in Nat, n \in T PROVE n + 1 \in T
  <2>. SUFFICES ASSUME NEW v \in Value, NEW w \in Value, Depth[v] < n + 1
                PROVE  Same(v, w)
    OBVIOUS
  <2>1. ASSUME NEW x \in Items(v), NEW y \in Value
        PROVE  Dumps[x] = Dumps[y] <=> Denote[x] = Denote[y]
    <3>1. x \in Value /\ Depth[x] < n
      BY ItemFacts
    <3>. QED BY <1>2, <3>1
  <2>2. CASE v[1] # w[1]
    BY <2>2, TextKind
  <2>3. CASE v[1] = "list" /\ w[1] = "list"
    BY <2>1, <2>3, SameLists
  <2>4. CASE v[1] = "dict" /\ w[1] = "dict"
    BY <2>1, <2>4, SameDicts
  <2>5. CASE v[1] = w[1] /\ v[1] # "list" /\ v[1] # "dict"
    <3>1. CASE v[1] = "atom"
      <4>1. v = <<"atom", v[2]>> /\ w = <<"atom", w[2]>>
        BY <2>5, <3>1, Kinds
      <4>2. /\ Dumps[v] = <<"atom", v[2], Spelling(v[2], Foreign)>>
            /\ Dumps[w] = <<"atom", w[2], Spelling(w[2], Foreign)>>
            /\ Denote[v] = v /\ Denote[w] = w
        BY <2>5, <3>1, LeafText DEF AtomText
      <4>3. Dumps[v] = Dumps[w] <=> v[2] = w[2]
        BY <4>2
      <4>4. v = w <=> v[2] = w[2]
        BY <4>1
      <4>. QED BY <4>2, <4>3, <4>4
    <3>2. CASE v[1] # "atom"
      BY <2>5, <3>2, LeafText
    <3>. QED BY <3>1, <3>2
  <2>. QED BY <2>2, <2>3, <2>4, <2>5
<1>. HIDE DEF T
<1>3. Nat \subseteq T
  BY <1>1, <1>2, Induct
<1>4. ASSUME NEW v \in Value, NEW w \in Value PROVE Same(v, w)
  <2>1. Depth[v] + 1 \in T /\ Depth[v] < Depth[v] + 1
    BY <1>3, ValueAssumption
  <2>. QED BY <2>1 DEF T
<1>. QED BY <1>4

\* Where nothing is written differently the client writes what the server writes, and
\* nowhere else.
LEMMA PlainParts ==
    ASSUME NEW v \in Value
    PROVE  Plain(v) <=> PlainHere(v) /\ \A x \in Items(v) : Plain(x)
<1>1. Parts[v] = {v} \cup UNION {Parts[w] : w \in Items(v)}
  BY PartsDef DEF PartsStep
<1>. QED BY <1>1 DEF Plain

LEMMA ClientLists ==
    ASSUME NEW v \in Value, v[1] = "list",
           \A x \in Items(v) : ClientDumps[x] = Dumps[x] <=> Plain(x)
    PROVE  ClientDumps[v] = Dumps[v] <=> Plain(v)
<1>. DEFINE n == Len(v[2])
            c == [i \in 1 .. n |-> ClientDumps[v[2][i]]]
            d == [i \in 1 .. n |-> Dumps[v[2][i]]]
<1>1. /\ n \in Nat /\ DOMAIN v[2] = 1 .. n
      /\ \A i \in 1 .. n : v[2][i] \in Items(v)
      /\ \A x \in Items(v) : \E i \in 1 .. n : x = v[2][i]
  BY ListItems DEF Items
<1>2. ClientDumps[v] = <<"list", c>> /\ Dumps[v] = <<"list", d>>
  <2>1. ClientDumps[v] = ClientStep(ClientDumps, v)
    BY ClientDumpsDef
  <2>. QED BY <1>1, <2>1, ListText DEF ClientStep
<1>3. ClientDumps[v] = Dumps[v] <=> c = d
  <2>. HIDE DEF c, d
  <2>. QED BY <1>2
<1>4. c = d <=> \A i \in 1 .. n : ClientDumps[v[2][i]] = Dumps[v[2][i]]
  <2>. HIDE DEF n
  <2>1. ASSUME c = d PROVE \A i \in 1 .. n : ClientDumps[v[2][i]] = Dumps[v[2][i]]
    <3>1. \A i \in 1 .. n : c[i] = d[i]
      BY <2>1
    <3>. QED BY <3>1
  <2>. QED BY <2>1
<1>5. PlainHere(v)
  BY DEF PlainHere, Null
<1>. HIDE DEF n, c, d
<1>. QED BY <1>1, <1>3, <1>4, <1>5, PlainParts

LEMMA ClientDicts ==
    ASSUME NEW v \in Value, v[1] = "dict",
           \A x \in Items(v) : ClientDumps[x] = Dumps[x] <=> Plain(x)
    PROVE  ClientDumps[v] = Dumps[v] <=> Plain(v)
<1>. DEFINE n == Len(v[2])
            t == Sorted(v[2])
            c == [i \in 1 .. n |-> <<t[i][1], "plain", ClientDumps[t[i][2]]>>]
            d == [i \in 1 .. n |-> <<t[i][1], Spelling(t[i][1], ForeignKey), Dumps[t[i][2]]>>]
<1>1. /\ n \in Nat /\ DOMAIN v[2] = 1 .. n
      /\ \A i \in 1 .. n : t[i][2] \in Items(v) /\ At(v, t[i][1]) = t[i][2]
      /\ \A k : k \in KeysOf(v) <=> \E i \in 1 .. n : t[i][1] = k
  BY DictFacts
<1>2. \A x \in Items(v) : \E i \in 1 .. n : x = t[i][2]
  <2>1. v[2] \in Pairs(Value)
    BY Kinds
  <2>. SUFFICES ASSUME NEW j \in 1 .. n
                PROVE  \E i \in 1 .. n : v[2][j][2] = t[i][2]
    <3>1. Items(v) = {v[2][j][2] : j \in 1 .. n}
      BY <1>1 DEF Items
    <3>. HIDE DEF t, n
    <3>. QED BY <3>1
  <2>2. \A i, l \in 1 .. n : v[2][i][1] = v[2][l][1] => i = l
    BY <1>1, <2>1, PairsFacts
  <2>3. v[2][j][1] \in KeysOf(v)
    BY <1>1 DEF KeysOf
  <2>4. PICK i \in 1 .. n : t[i][1] = v[2][j][1]
    BY <1>1, <2>3
  <2>5. (CHOOSE l \in DOMAIN v[2] : v[2][l][1] = v[2][j][1]) = j
    BY <1>1, <2>2
  <2>6. At(v, v[2][j][1]) = v[2][j][2]
    BY <2>5 DEF At
  <2>. HIDE DEF t
  <2>. QED BY <1>1, <2>4, <2>6
<1>3. ClientDumps[v] = <<"dict", c>> /\ Dumps[v] = <<"dict", d>>
  <2>1. ClientDumps[v] = ClientStep(ClientDumps, v)
    BY ClientDumpsDef
  <2>2. ClientStep(ClientDumps, v) = <<"dict", c>>
    BY <1>1 DEF ClientStep
  <2>3. Dumps[v] = <<"dict", d>>
    BY DictText
  <2>. QED BY <2>1, <2>2, <2>3
<1>4. ClientDumps[v] = Dumps[v] <=> c = d
  <2>. HIDE DEF c, d
  <2>. QED BY <1>3
<1>. HIDE DEF n, t
<1>5. c = d <=> \A i \in 1 .. n : /\ t[i][1] \notin ForeignKey
                                   /\ ClientDumps[t[i][2]] = Dumps[t[i][2]]
  <2>1. ASSUME c = d, NEW i \in 1 .. n
        PROVE  t[i][1] \notin ForeignKey /\ ClientDumps[t[i][2]] = Dumps[t[i][2]]
    <3>1. c[i] = d[i]
      BY <2>1
    <3>2. /\ c[i] = <<t[i][1], "plain", ClientDumps[t[i][2]]>>
          /\ d[i] = <<t[i][1], Spelling(t[i][1], ForeignKey), Dumps[t[i][2]]>>
      OBVIOUS
    <3>3. Spelling(t[i][1], ForeignKey) = "plain" /\ ClientDumps[t[i][2]] = Dumps[t[i][2]]
      BY <3>1, <3>2
    <3>. QED BY <3>3 DEF Spelling
  <2>2. ASSUME \A i \in 1 .. n : /\ t[i][1] \notin ForeignKey
                                  /\ ClientDumps[t[i][2]] = Dumps[t[i][2]]
        PROVE  c = d
    <3>1. \A i \in 1 .. n : Spelling(t[i][1], ForeignKey) = "plain"
      BY <2>2 DEF Spelling
    <3>. QED BY <2>2, <3>1
  <2>. QED BY <2>1, <2>2
<1>6. PlainHere(v) <=> \A i \in 1 .. n : t[i][1] \notin ForeignKey
  <2>1. v # Null /\ v[1] # "atom"
    BY DEF Null
  <2>2. KeysOf(v) \cap ForeignKey = {} <=> \A i \in 1 .. n : t[i][1] \notin ForeignKey
    BY <1>1
  <2>. QED BY <2>1, <2>2 DEF PlainHere
<1>. HIDE DEF c, d
<1>. QED BY <1>1, <1>2, <1>4, <1>5, <1>6, PlainParts

LEMMA ClientLeaves ==
    ASSUME NEW v \in Value, v[1] # "list", v[1] # "dict"
    PROVE  ClientDumps[v] = Dumps[v] <=> Plain(v)
<1>1. Items(v) = {}
  BY DEF Items
<1>2. Plain(v) <=> PlainHere(v)
  BY <1>1, PlainParts
<1>3. ClientDumps[v] = ClientStep(ClientDumps, v)
  BY ClientDumpsDef
<1>4. CASE v[1] = "atom"
  <2>1. ClientDumps[v] = <<"atom", v[2], "plain">>
    BY <1>3, <1>4 DEF ClientStep
  <2>2. Dumps[v] = <<"atom", v[2], Spelling(v[2], Foreign)>>
    BY <1>4, LeafText DEF AtomText
  <2>3. ClientDumps[v] = Dumps[v] <=> Spelling(v[2], Foreign) = "plain"
    BY <2>1, <2>2
  <2>4. PlainHere(v) <=> v[2] \notin Foreign
    BY <1>4 DEF PlainHere, Null
  <2>. QED BY <1>2, <2>3, <2>4 DEF Spelling
<1>5. CASE v[1] # "atom"
  <2>1. v = Null /\ v[1] = "null"
    BY <1>5, Kinds
  <2>2. ClientDumps[v] = EmptyDict /\ Dumps[v] = v
    BY <1>3, <1>5, <2>1, LeafText DEF ClientStep
  <2>3. EmptyDict # v
    BY <2>1 DEF EmptyDict
  <2>4. ~ PlainHere(v)
    BY <2>1 DEF PlainHere
  <2>. QED BY <1>2, <2>2, <2>3, <2>4
<1>. QED BY <1>4, <1>5

LEMMA ClientTexts ==
    \A v \in Value : ClientDumps[v] = Dumps[v] <=> Plain(v)
<1>. DEFINE Same(v) == ClientDumps[v] = Dumps[v] <=> Plain(v)
            T == {n \in Nat : \A v \in Value : Depth[v] < n => Same(v)}
<1>1. 0 \in T
  BY ValueAssumption
<1>2. ASSUME NEW n \in Nat, n \in T PROVE n + 1 \in T
  <2>. SUFFICES ASSUME NEW v \in Value, Depth[v] < n + 1
                PROVE  ClientDumps[v] = Dumps[v] <=> Plain(v)
    OBVIOUS
  <2>1. ASSUME NEW x \in Items(v) PROVE ClientDumps[x] = Dumps[x] <=> Plain(x)
    <3>1. x \in Value /\ Depth[x] < n
      BY ItemFacts
    <3>. QED BY <1>2, <3>1
  <2>. QED BY <2>1, ClientLists, ClientDicts, ClientLeaves
<1>. HIDE DEF T
<1>3. Nat \subseteq T
  BY <1>1, <1>2, Induct
<1>4. ASSUME NEW v \in Value PROVE Same(v)
  <2>1. Depth[v] + 1 \in T /\ Depth[v] < Depth[v] + 1
    BY <1>3, ValueAssumption
  <2>. QED BY <2>1 DEF T
<1>. QED BY <1>4

-----------------------------------------------------------------------------
(* Arguments. *)

\* What wraps an argument that is no structure is the text of no structure.
LEMMA NoWrapper ==
    ASSUME NEW v \in Structure, NEW key \in {RawKey, ValKey}, NEW x
    PROVE  Dumps[v] # Only(key, x)
<1>. SUFFICES ASSUME Dumps[v] = Only(key, x)
              PROVE  FALSE
  OBVIOUS
<1>. DEFINE one == <<key, "plain", AtomText(x)>>
            t == Sorted(v[2])
            d == [i \in 1 .. Len(v[2]) |->
                     <<t[i][1], Spelling(t[i][1], ForeignKey), Dumps[t[i][2]]>>]
<1>1. Dumps[v] = <<"dict", <<one>>>> /\ one[1] = key
  BY DEF Only
<1>2. v \in Value /\ v[1] = "dict"
  BY <1>1, TextKind DEF Structure
<1>3. Dumps[v] = <<"dict", d>>
  BY <1>2, DictText
<1>4. Len(v[2]) \in Nat /\ \A i \in 1 .. Len(v[2]) : t[i][1] \in CallerKey
  BY <1>2, DictFacts
<1>. HIDE DEF t, one
<1>5. d = <<one>>
  <2>. HIDE DEF d
  <2>. QED BY <1>1, <1>3
<1>6. 1 \in DOMAIN d
  BY <1>5
<1>7. 1 \in 1 .. Len(v[2]) /\ d[1][1] = t[1][1]
  BY <1>6
<1>8. key \in CallerKey
  BY <1>1, <1>4, <1>5, <1>7
<1>. QED BY <1>8 DEF CallerKey, RawKey, ValKey

\* Structured arguments, none among them, are those of a structure; the others are
\* wrapped, and mean themselves.
LEMMA ArgumentCases ==
    ASSUME NEW a \in Argument
    PROVE  \/ \E v \in Structure : Canonicalize(a) = Dumps[v] /\ Meaning(a) = Denote[v]
           \/ \E x : Canonicalize(a) = Only(ValKey, x) /\ Meaning(a) = <<"atom", x>>
           \/ \E x : Canonicalize(a) = Only(RawKey, x) /\ Meaning(a) = <<"text", x>>
<1>1. CASE a \in {"text"} \X Atom
  <2>1. a[1] = "text" /\ a = <<"text", a[2]>>
    BY <1>1
  <2>2. Canonicalize(a) = Only(RawKey, a[2]) /\ Meaning(a) = a
    BY <2>1 DEF Canonicalize, Meaning
  <2>. QED BY <2>1, <2>2
<1>2. CASE a \in {"json"} \X Structure
  <2>1. a[1] = "json" /\ a[2] \in Structure
    BY <1>2
  <2>. QED BY <2>1 DEF Canonicalize, Meaning
<1>3. CASE a \in Value /\ a[1] \in {"list", "dict"}
  <2>1. a \in Structure
    BY <1>3 DEF Structure
  <2>. QED BY <1>3, <2>1 DEF Canonicalize, Meaning
<1>4. CASE a \in Value /\ a[1] = "null"
  <2>1. EmptyDict \in Structure
    BY ValueAssumption DEF Structure, EmptyDict
  <2>2. Dumps[EmptyDict] = EmptyDict
    <3>1. EmptyDict \in Value /\ EmptyDict[1] = "dict" /\ EmptyDict[2] = <<>>
      BY ValueAssumption DEF EmptyDict
    <3>2. DumpsStep(Dumps, EmptyDict) = <<"dict", <<>>>>
      BY <3>1 DEF DumpsStep
    <3>. QED BY <3>1, <3>2, DumpsDef DEF EmptyDict
  <2>. QED BY <1>4, <2>1, <2>2 DEF Canonicalize, Meaning
<1>5. CASE a \in Value /\ a[1] = "atom"
  <2>1. a = <<"atom", a[2]>> /\ Denote[a] = a
    BY <1>5, Kinds, LeafText
  <2>2. Canonicalize(a) = Only(ValKey, a[2]) /\ Meaning(a) = Denote[a]
    BY <1>5 DEF Canonicalize, Meaning
  <2>. QED BY <2>1, <2>2
<1>. QED BY <1>1, <1>2, <1>3, <1>4, <1>5, Kinds DEF Argument

\* canonicalize_arguments gives two arguments one text exactly if they mean the same.
LEMMA CanonicalMeaning ==
    ASSUME NEW a \in Argument, NEW b \in Argument
    PROVE  Canonicalize(a) = Canonicalize(b) <=> SameArguments(a, b)
<1>. DEFINE S(c) == \E v \in Structure : Canonicalize(c) = Dumps[v] /\ Meaning(c) = Denote[v]
            A(c) == \E x : Canonicalize(c) = Only(ValKey, x) /\ Meaning(c) = <<"atom", x>>
            X(c) == \E x : Canonicalize(c) = Only(RawKey, x) /\ Meaning(c) = <<"text", x>>
<1>1. \A x, y, k, l : Only(k, x) = Only(l, y) => k = l /\ x = y
  BY DEF Only, AtomText
<1>2. RawKey # ValKey
  BY DEF RawKey, ValKey
<1>3. \A v \in Structure : v \in Value /\ Denote[v][1] \in {"list", "dict"}
  BY TextKind DEF Structure
<1>4. \A v \in Structure : \A x : Dumps[v] # Only(RawKey, x) /\ Dumps[v] # Only(ValKey, x)
  BY NoWrapper
<1>5. (S(a) \/ A(a) \/ X(a)) /\ (S(b) \/ A(b) \/ X(b))
  BY ArgumentCases
<1>6. CASE S(a) /\ S(b)
  BY <1>3, <1>6, SameTexts DEF SameArguments
<1>7. CASE (S(a) /\ ~ S(b)) \/ (~ S(a) /\ S(b))
  BY <1>3, <1>4, <1>5, <1>7 DEF SameArguments
<1>8. CASE A(a) /\ A(b)
  BY <1>1, <1>8 DEF SameArguments
<1>9. CASE X(a) /\ X(b)
  BY <1>1, <1>9 DEF SameArguments
<1>10. CASE (A(a) /\ X(b)) \/ (X(a) /\ A(b))
  BY <1>1, <1>2, <1>10 DEF SameArguments
<1>. HIDE DEF S, A, X
<1>. QED BY <1>5, <1>6, <1>7, <1>8, <1>9, <1>10

-----------------------------------------------------------------------------
(* Requests. *)

\* The keys of two calls are the same exactly if they are attempts at one request.
LEMMA KeysAreRequests ==
    ASSUME NEW c \in CallId, NEW d \in CallId
    PROVE  KeyOf[c] = KeyOf[d] <=> SameRequest(c, d)
<1>1. ArgumentsOf[c] \in Argument /\ ArgumentsOf[d] \in Argument
  BY RequestsAssumption
<1>2. Canonicalize(ArgumentsOf[c]) = Canonicalize(ArgumentsOf[d])
        <=> SameArguments(ArgumentsOf[c], ArgumentsOf[d])
  BY <1>1, CanonicalMeaning
<1>3. KeyText[c] = GenerateKey(ToolOf[c], ArgumentsOf[c], TokenOf[c])
      /\ KeyText[d] = GenerateKey(ToolOf[d], ArgumentsOf[d], TokenOf[d])
  BY DEF KeyText
<1>4. KeyOf[c] = KeyOf[d] <=> KeyText[c] = KeyText[d]
  BY RequestsAssumption
<1>. DEFINE t == ToolOf[c]
            x == TokenOf[c]
            p == Canonicalize(ArgumentsOf[c])
            u == ToolOf[d]
            y == TokenOf[d]
            q == Canonicalize(ArgumentsOf[d])
<1>5. /\ KeyText[c] = IF x # "" THEN <<"token", t, x>> ELSE <<"det", t, p>>
      /\ KeyText[d] = IF y # "" THEN <<"token", u, y>> ELSE <<"det", u, q>>
  BY <1>3 DEF GenerateKey
<1>6. SameRequest(c, d) <=> t = u /\ x = y /\ (x # "" \/ p = q)
  BY <1>2 DEF SameRequest
<1>. HIDE DEF t, x, p, u, y, q
<1>7. CASE x = "" /\ y = ""
  <2>1. KeyText[c] = <<"det", t, p>> /\ KeyText[d] = <<"det", u, q>>
    BY <1>5, <1>7
  <2>2. KeyText[c] = KeyText[d] <=> t = u /\ p = q
    BY <2>1
  <2>. QED BY <1>4, <1>6, <1>7, <2>2
<1>8. CASE x # "" /\ y # ""
  <2>1. KeyText[c] = <<"token", t, x>> /\ KeyText[d] = <<"token", u, y>>
    BY <1>5, <1>8
  <2>2. KeyText[c] = KeyText[d] <=> t = u /\ x = y
    BY <2>1
  <2>. QED BY <1>4, <1>6, <1>8, <2>2
<1>9. CASE x = "" /\ y # ""
  <2>1. KeyText[c] = <<"det", t, p>> /\ KeyText[d] = <<"token", u, y>>
    BY <1>5, <1>9
  <2>2. KeyText[c] # KeyText[d]
    BY <2>1
  <2>. QED BY <1>4, <1>6, <1>9, <2>2
<1>10. CASE x # "" /\ y = ""
  <2>1. KeyText[c] = <<"token", t, x>> /\ KeyText[d] = <<"det", u, q>>
    BY <1>5, <1>10
  <2>2. KeyText[c] # KeyText[d]
    BY <2>1
  <2>. QED BY <1>4, <1>6, <1>10, <2>2
<1>. QED BY <1>7, <1>8, <1>9, <1>10

\* Attempts at one request share its record, whatever their ids and however their
\* arguments are written, and attempts at different requests never do.
THEOREM AttemptsShare == Spec => []AttemptsShareRecord
<1>1. IInv => AttemptsShareRecord
  <2> SUFFICES ASSUME IInv, NEW c \in CallId, NEW d \in CallId
               PROVE  LET a == Check(reg, KeyOf[c], c)
                          b == Check(reg, KeyOf[d], d)
                      IN  IF SameRequest(c, d) THEN a = b ELSE a = None \/ a # b
    BY DEF AttemptsShareRecord
  <2>1. /\ Check(reg, KeyOf[c], c) = reg.records[KeyOf[c]]
        /\ Check(reg, KeyOf[d], d) = reg.records[KeyOf[d]]
    BY CheckIsRecord DEF IInv
  <2>2. KeyOf[c] = KeyOf[d] <=> SameRequest(c, d)
    BY KeysAreRequests
  <2>3. KeyOf[c] \in Key /\ KeyOf[d] \in Key
    BY RegistryAssumption
  <2>4. \A k \in Key : reg.records[k] # None => reg.records[k].key = k
    BY DEF IInv, RegistryOK, RecordsOwnTheirCalls, Recorded
  <2>. QED BY <2>1, <2>2, <2>3, <2>4
<1>. QED BY <1>1, Invariance, PTL

\* An attempt has the key of the calls it repeats.
LEMMA TrappedByMeaning ==
    ASSUME NEW t, NEW a \in Argument
    PROVE  Keyed(GenerateKey(t, a, "")) = Meant(t, a)
<1>. SUFFICES ASSUME NEW c \in CallId
              PROVE  KeyText[c] = GenerateKey(t, a, "")
                        <=> /\ ToolOf[c] = t /\ TokenOf[c] = ""
                            /\ SameArguments(a, ArgumentsOf[c])
  BY DEF Keyed, Meant
<1>1. ArgumentsOf[c] \in Argument
  BY RequestsAssumption
<1>2. Canonicalize(a) = Canonicalize(ArgumentsOf[c]) <=> SameArguments(a, ArgumentsOf[c])
  BY <1>1, CanonicalMeaning
<1>3. KeyText[c] = GenerateKey(ToolOf[c], ArgumentsOf[c], TokenOf[c])
  BY DEF KeyText
<1>. DEFINE g == GenerateKey(t, a, "")
            p == Canonicalize(a)
            u == ToolOf[c]
            y == TokenOf[c]
            q == Canonicalize(ArgumentsOf[c])
<1>4. /\ g = <<"det", t, p>>
      /\ KeyText[c] = IF y # "" THEN <<"token", u, y>> ELSE <<"det", u, q>>
  BY <1>3 DEF GenerateKey
<1>5. p = q <=> SameArguments(a, ArgumentsOf[c])
  BY <1>2
<1>. HIDE DEF g, p, q, u, y
<1>6. KeyText[c] = g <=> u = t /\ y = "" /\ p = q
  <2>1. CASE y = ""
    <3>1. KeyText[c] = <<"det", u, q>>
      BY <1>4, <2>1
    <3>2. g = <<"det", t, p>>
      BY <1>4
    <3>3. KeyText[c] = g <=> u = t /\ p = q
      BY <3>1, <3>2
    <3>. QED BY <2>1, <3>3
  <2>2. CASE y # ""
    <3>1. KeyText[c] = <<"token", u, y>>
      BY <1>4, <2>2
    <3>2. g = <<"det", t, p>>
      BY <1>4
    <3>3. KeyText[c] # g
      BY <3>1, <3>2
    <3>. QED BY <2>2, <3>3
  <2>. QED BY <2>1, <2>2
<1>. QED BY <1>5, <1>6 DEF g, u, y

\* canonicalize_arguments tells apart what means something else and nothing more, for
\* arguments of any size, nested to any depth.
THEOREM CanonicalFormIsMeaning == Spec => []CanonicalByMeaning
<1>1. ToldApart
  BY CanonicalMeaning, RequestsAssumption DEF ToldApart
<1>2. \A p \in Attempts : p[1] = p[2]
  <2>. DEFINE K(t, a) == Keyed(GenerateKey(t, a, ""))
  <2>1. ASSUME NEW t \in Tools, NEW a \in Attempted
        PROVE  K(t, a) = Meant(t, a)
    <3>1. a \in Argument
      BY RequestsAssumption
    <3>. QED BY <3>1, TrappedByMeaning
  <2>2. Attempts = {<<K(t, a), Meant(t, a)>> : t \in Tools, a \in Attempted}
    BY DEF Attempts
  <2>. HIDE DEF K
  <2>. QED BY <2>1, <2>2
<1>3. CanonicalByMeaning
  BY <1>1, <1>2 DEF CanonicalByMeaning
<1>. QED BY <1>3, PTL

\* Client and server give structured arguments one canonical form exactly if there is
\* nothing in them that the two write differently, for arguments of any size.
THEOREM ClientNamesAlike == Spec => []ClientAgrees
<1>1. ASSUME NEW v \in Structured
      PROVE  v \in Argument /\ (ClientCanonicalize(v) = Canonicalize(v) <=> Plain(v))
  <2>1. v \in Value /\ v[1] \in {"list", "dict"}
    BY DEF Structured, Structure
  <2>2. Canonicalize(v) = Dumps[v]
    BY <2>1 DEF Canonicalize
  <2>. QED BY <2>1, <2>2, ClientTexts DEF ClientCanonicalize, Argument
<1>2. \A p \in ClientAttempts : p[1] = p[2]
  <2>. SUFFICES ASSUME NEW t \in Tools, NEW v \in Structured, Plain(v)
                PROVE  Keyed(<<"det", t, ClientCanonicalize(v)>>) = Meant(t, v)
    <3>. SUFFICES ASSUME NEW p \in ClientAttempts PROVE p[1] = p[2]
      OBVIOUS
    <3>1. PICK t \in Tools, v \in {w \in Structured : Plain(w)} :
             p = <<Keyed(<<"det", t, ClientCanonicalize(v)>>), Meant(t, v)>>
      BY DEF ClientAttempts
    <3>. QED BY <3>1
  <2>1. GenerateKey(t, v, "") = <<"det", t, ClientCanonicalize(v)>>
    BY <1>1 DEF GenerateKey
  <2>2. Keyed(GenerateKey(t, v, "")) = Meant(t, v)
    BY <1>1, TrappedByMeaning
  <2>. QED BY <2>1, <2>2
<1>3. ClientAgrees
  BY <1>1, <1>2 DEF ClientAgrees, SameText
<1>. QED BY <1>3, PTL

-----------------------------------------------------------------------------
(* The dictionaries a host can hold.                                         *)

\* Every entry is a record of the request of its name, made for a call of that
\* request; names are distinct, and both names an entry carries have entries.
Formed(d) ==
    /\ d \in Seq(Entries)
    /\ \A i, j \in 1 .. Len(d) : d[i].name = d[j].name => i = j
    /\ \A i \in 1 .. Len(d) :
          /\ d[i].val.key = Home(d[i].name)
          /\ d[i].val.call \in CallId
          /\ KeyOf[d[i].val.call] = d[i].val.key
          /\ d[i].val.key \in Names(d)
          /\ d[i].val.call \in Names(d)

\* Whatever is recorded was recorded with a call id.
CallsGiven(f) == \A k \in Key : f[k] # None => f[k].call \in CallId

\* The last entry of a request is the one under its newest id, and current.
TracksAt(d, f, k) ==
    IF f[k] = None THEN \A i \in 1 .. Len(d) : d[i].val.key # k
    ELSE \E i \in 1 .. Len(d) :
            /\ d[i] = Entry(f[k].call, f[k])
            /\ f[k].key = k
            /\ \A j \in i + 1 .. Len(d) : d[j].val.key # k

Tracks(d, f) == \A k \in Key : TracksAt(d, f, k)

\* Every entry carries the newest id of its request.
AllNewest(d, f) ==
    \A i \in 1 .. Len(d) :
        /\ f[d[i].val.key] # None
        /\ d[i].val.call = f[d[i].val.key].call

\* The LLM attempts no request a third time.
TwoAttempts ==
    \A a, b, c \in CallId :
        KeyOf[a] = KeyOf[b] /\ KeyOf[b] = KeyOf[c] => a = b \/ b = c \/ a = c

\* What holds for every host: everything is recorded under ids seen before.
FacadeInv ==
    /\ IInv
    /\ CallsGiven(reg.records)
    /\ minted \subseteq CallId /\ IsFiniteSet(minted)
    /\ \A c \in CallId : reg.index[c] # None => c \in minted
    /\ Formed(dict) /\ Names(dict) \cap CallId \subseteq minted
    /\ saved # None =>
          /\ CallsGiven(saved)
          /\ \A k \in Key : saved[k] # None => saved[k].call \in minted
    /\ savedDict # None =>
          /\ Formed(savedDict) /\ Names(savedDict) \cap CallId \subseteq minted

\* What holds for a disciplined one.
TrackInv ==
    /\ Tracks(dict, reg.records)
    /\ saved = None <=> savedDict = None
    /\ saved # None => Tracks(savedDict, saved)

NewestInv ==
    /\ AllNewest(dict, reg.records)
    /\ saved # None => AllNewest(savedDict, saved)

-----------------------------------------------------------------------------
(* Loading.                                                                  *)

\* What is loaded from the first m entries: of the entries of a request the
\* last one, and every id an entry carries.
LoadedPrefix(r, d, m) ==
    /\ r \in Registry
    /\ \A i \in 1 .. m :
          /\ r.records[d[i].val.key] # None
          /\ r.index[d[i].val.call] = d[i].val.key
    /\ \A k \in Key : r.records[k] # None =>
          \E i \in 1 .. m :
              /\ d[i].val.key = k
              /\ d[i].val = r.records[k]
              /\ \A j \in i + 1 .. m : d[j].val.key # k
    /\ \A n \in Name : r.index[n] # None =>
          \E i \in 1 .. m : d[i].val.call = n

LEMMA FormedEntry ==
    ASSUME NEW d, Formed(d), NEW i \in 1 .. Len(d)
    PROVE  /\ d[i] \in Entries /\ d[i] = Entry(d[i].name, d[i].val)
           /\ d[i].name \in Name
           /\ d[i].val \in Record /\ d[i].val # None
           /\ d[i].val.key \in Key /\ d[i].val.key # None
           /\ d[i].val.key = Home(d[i].name)
           /\ d[i].val.call \in CallId /\ d[i].val.call \in Name
           /\ d[i].val.call # None
           /\ KeyOf[d[i].val.call] = d[i].val.key
           /\ Home(d[i].val.call) = d[i].val.key
           /\ CallOf(d[i].name, d[i].val) = d[i].val.call
<1>1. d[i] \in Entries
  BY DEF Formed
<1>2. /\ d[i].name \in Name /\ d[i].val \in Record
      /\ d[i] = Entry(d[i].name, d[i].val)
  BY <1>1 DEF Entries, Entry
<1>3. /\ d[i].val.key = Home(d[i].name)
      /\ d[i].val.call \in CallId
      /\ KeyOf[d[i].val.call] = d[i].val.key
  BY DEF Formed
<1>4. d[i].val # None /\ d[i].val.key \in Key
  BY <1>2, RecordFields
<1>. QED BY <1>1, <1>2, <1>3, <1>4, RegistryAssumption DEF Name, Home, CallOf

LEMMA LoadEntryStep ==
    ASSUME NEW d, Formed(d), NEW i \in 1 .. Len(d), NEW r \in Registry
    PROVE  /\ LoadEntry(r, d[i]) \in Registry
           /\ LoadEntry(r, d[i]).records = [r.records EXCEPT ![d[i].val.key] = d[i].val]
           /\ LoadEntry(r, d[i]).index = [r.index EXCEPT ![d[i].val.call] = d[i].val.key]
<1> DEFINE rec == [d[i].val EXCEPT !.call = CallOf(d[i].name, d[i].val)]
<1>1. rec = d[i].val
  BY FormedEntry DEF Record
<1>2. LoadEntry(r, d[i]) =
        [records |-> [r.records EXCEPT ![d[i].val.key] = d[i].val],
         index   |-> [r.index EXCEPT ![d[i].val.call] = d[i].val.key]]
  BY <1>1 DEF LoadEntry
<1>3. /\ r.records \in [Key -> Record \cup {None}]
      /\ r.index \in [Name -> Key \cup {None}]
  BY DEF Registry
<1>. QED BY <1>2, <1>3, FormedEntry DEF Registry

LEMMA LoadPrefixStep ==
    ASSUME NEW d, Formed(d), NEW m \in Nat, m + 1 <= Len(d),
           NEW r, LoadedPrefix(r, d, m)
    PROVE  LoadedPrefix(LoadEntry(r, d[m + 1]), d, m + 1)
<1> DEFINE q == LoadEntry(r, d[m + 1])
<1>0. Len(d) \in Nat /\ m + 1 \in 1 .. Len(d)
  BY DEF Formed
<1>1. /\ r \in Registry
      /\ r.records \in [Key -> Record \cup {None}]
      /\ r.index \in [Name -> Key \cup {None}]
  BY DEF LoadedPrefix, Registry
<1>2. /\ q \in Registry
      /\ q.records = [r.records EXCEPT ![d[m + 1].val.key] = d[m + 1].val]
      /\ q.index = [r.index EXCEPT ![d[m + 1].val.call] = d[m + 1].val.key]
  BY <1>0, <1>1, LoadEntryStep
<1> HIDE DEF q
<1>3. \A i \in 1 .. m + 1 :
        /\ d[i].val.key \in Key /\ d[i].val.key # None
        /\ d[i].val.call \in Name /\ d[i].val # None
        /\ KeyOf[d[i].val.call] = d[i].val.key
  BY <1>0, FormedEntry
<1>4. ASSUME NEW i \in 1 .. m + 1
      PROVE  /\ q.records[d[i].val.key] # None
             /\ q.index[d[i].val.call] = d[i].val.key
  <2>1. CASE i = m + 1
    BY <1>1, <1>2, <1>3, <2>1
  <2>2. CASE i # m + 1
    <3>1. i \in 1 .. m
      BY <2>2
    <3>2. /\ r.records[d[i].val.key] # None
          /\ r.index[d[i].val.call] = d[i].val.key
      BY <3>1 DEF LoadedPrefix
    <3>3. d[i].val.call = d[m + 1].val.call => d[i].val.key = d[m + 1].val.key
      BY <1>3
    <3>. QED BY <1>1, <1>2, <1>3, <3>2, <3>3
  <2>. QED BY <2>1, <2>2
<1>5. ASSUME NEW k \in Key, q.records[k] # None
      PROVE  \E i \in 1 .. m + 1 :
                /\ d[i].val.key = k
                /\ d[i].val = q.records[k]
                /\ \A j \in i + 1 .. m + 1 : d[j].val.key # k
  <2>1. CASE d[m + 1].val.key = k
    <3>1. q.records[k] = d[m + 1].val
      BY <1>1, <1>2, <2>1
    <3>2. \A j \in (m + 1) + 1 .. m + 1 : d[j].val.key # k
      OBVIOUS
    <3>. QED BY <2>1, <3>1, <3>2
  <2>2. CASE d[m + 1].val.key # k
    <3>1. q.records[k] = r.records[k]
      BY <1>1, <1>2, <1>3, <2>2
    <3>2. PICK i \in 1 .. m :
                /\ d[i].val.key = k
                /\ d[i].val = r.records[k]
                /\ \A j \in i + 1 .. m : d[j].val.key # k
      BY <1>5, <3>1 DEF LoadedPrefix
    <3>3. \A j \in i + 1 .. m + 1 : d[j].val.key # k
      BY <2>2, <3>2
    <3>. QED BY <3>1, <3>2, <3>3
  <2>. QED BY <2>1, <2>2
<1>6. ASSUME NEW n \in Name, q.index[n] # None
      PROVE  \E i \in 1 .. m + 1 : d[i].val.call = n
  <2>1. CASE d[m + 1].val.call = n
    BY <2>1
  <2>2. CASE d[m + 1].val.call # n
    <3>1. r.index[n] # None
      BY <1>1, <1>2, <1>3, <1>6, <2>2
    <3>2. PICK i \in 1 .. m : d[i].val.call = n
      BY <3>1 DEF LoadedPrefix
    <3>. QED BY <3>2
  <2>. QED BY <2>1, <2>2
<1>. QED BY <1>2, <1>4, <1>5, <1>6 DEF LoadedPrefix, q

\* _load_from_dict: the last entry of a request wins, every id is indexed.
LEMMA LoadOrderedFacts ==
    ASSUME NEW d, Formed(d)
    PROVE  LoadedPrefix(LoadOrdered(d), d, Len(d))
<1> DEFINE N == Len(d)
           Runs(f) == f = [i \in 0 .. N |-> IF i = 0 THEN EmptyRegistry
                                            ELSE LoadEntry(f[i - 1], d[i])]
           load == CHOOSE f : Runs(f)
<1>0. N \in Nat /\ EmptyRegistry \in Registry
  BY EmptyOK DEF Formed, RegistryOK
<1>1. \E f : Runs(f)
  <2> DEFINE step == [p \in Registry \X (1 .. N) |-> LoadEntry(p[1], d[p[2]])]
  <2>1. step \in [Registry \X (1 .. N) -> Registry]
    BY LoadEntryStep
  <2> HIDE DEF step
  <2>2. PICK f : Loop(f, Registry, EmptyRegistry, N, step)
    BY <1>0, <2>1, LoopExists
  <2>3. \A i \in 1 .. N : f[i] = LoadEntry(f[i - 1], d[i])
    <3> SUFFICES ASSUME NEW i \in 1 .. N
                 PROVE  f[i] = LoadEntry(f[i - 1], d[i])
      OBVIOUS
    <3>1. f[i - 1] \in Registry
      BY <1>0, <2>2 DEF Loop
    <3>2. step[<<f[i - 1], i>>] = LoadEntry(f[i - 1], d[i])
      BY <3>1 DEF step
    <3>. QED BY <2>2, <3>2 DEF Loop
  <2>4. Runs(f)
    BY <1>0, <2>2, <2>3 DEF Loop
  <2>. QED BY <2>4
<1>2. Runs(load)
  <2> HIDE DEF Runs
  <2>. QED BY <1>1
<1>3. LoadOrdered(d) = load[N]
  BY DEF LoadOrdered
<1>4. /\ load[0] = EmptyRegistry
      /\ \A m \in Nat : m + 1 <= N => load[m + 1] = LoadEntry(load[m], d[m + 1])
  <2> HIDE DEF load
  <2>1. load[0] = EmptyRegistry
    BY <1>0, <1>2
  <2>2. ASSUME NEW m \in Nat, m + 1 <= N
        PROVE  load[m + 1] = LoadEntry(load[m], d[m + 1])
    <3>1. m + 1 \in 0 .. N /\ m + 1 # 0 /\ (m + 1) - 1 = m
      BY <1>0, <2>2
    <3>. QED BY <1>2, <3>1
  <2>. QED BY <2>1, <2>2
<1> HIDE DEF load
<1> DEFINE T == {m \in Nat : m <= N => LoadedPrefix(load[m], d, m)}
<1>5. 0 \in T
  <2>1. LoadedPrefix(EmptyRegistry, d, 0)
    BY <1>0 DEF LoadedPrefix, EmptyRegistry
  <2>. QED BY <1>4, <2>1
<1>6. ASSUME NEW m \in Nat, m \in T
      PROVE  m + 1 \in T
  <2> SUFFICES ASSUME m + 1 <= N
               PROVE  LoadedPrefix(load[m + 1], d, m + 1)
    OBVIOUS
  <2>1. LoadedPrefix(load[m], d, m)
    BY <1>0, <1>6
  <2>. QED BY <1>4, <2>1, LoadPrefixStep
<1>7. N \in T
  <2> HIDE DEF T
  <2>. QED BY <1>0, <1>5, <1>6, Induct
<1>. QED BY <1>0, <1>3, <1>7

\* A loaded registry is well formed, and all its records carry call ids.
LEMMA LoadOrderedOK ==
    ASSUME NEW d, Formed(d)
    PROVE  /\ RegistryOK(LoadOrdered(d))
           /\ CallsGiven(LoadOrdered(d).records)
<1> DEFINE r == LoadOrdered(d)
<1>1. LoadedPrefix(r, d, Len(d))
  BY LoadOrderedFacts
<1> HIDE DEF r
<1>2. ASSUME NEW k \in Key, r.records[k] # None
      PROVE  /\ r.records[k].key = k
             /\ r.records[k].call \in CallId
             /\ r.index[r.records[k].call] = k
  <2>1. PICK i \in 1 .. Len(d) : d[i].val.key = k /\ d[i].val = r.records[k]
    BY <1>1, <1>2 DEF LoadedPrefix
  <2>. QED BY <1>1, <2>1, FormedEntry DEF LoadedPrefix
<1>3. ASSUME NEW n \in Name, r.index[n] # None
      PROVE  r.index[n] = Home(n) /\ r.records[Home(n)] # None
  <2>1. PICK i \in 1 .. Len(d) : d[i].val.call = n
    BY <1>1, <1>3 DEF LoadedPrefix
  <2>. QED BY <1>1, <2>1, FormedEntry DEF LoadedPrefix
<1>4. RecordsOwnTheirCalls(r)
  BY <1>2 DEF RecordsOwnTheirCalls, Recorded
<1>5. IndexLeadsHome(r)
  BY <1>2, <1>3, HomeIsKey, RegistryAssumption DEF IndexLeadsHome, Recorded, Name
<1>6. RegistryOK(r) /\ CallsGiven(r.records)
  BY <1>1, <1>2, <1>4, <1>5 DEF RegistryOK, CallsGiven, LoadedPrefix
<1>. QED BY <1>6 DEF r

\* From a dictionary that tracks f exactly the records of f are loaded.
LEMMA LoadTracked ==
    ASSUME NEW d, Formed(d), NEW f, Tracks(d, f)
    PROVE  \A k \in Key : LoadOrdered(d).records[k] = f[k]
<1> DEFINE r == LoadOrdered(d)
<1>1. LoadedPrefix(r, d, Len(d))
  BY LoadOrderedFacts
<1> HIDE DEF r
<1>2. SUFFICES ASSUME NEW k \in Key
               PROVE  r.records[k] = f[k]
  BY DEF r
<1>3. CASE f[k] = None
  <2>1. \A i \in 1 .. Len(d) : d[i].val.key # k
    BY <1>3 DEF Tracks, TracksAt
  <2>. QED BY <1>1, <1>3, <2>1 DEF LoadedPrefix
<1>4. CASE f[k] # None
  <2>1. PICK i \in 1 .. Len(d) : /\ d[i] = Entry(f[k].call, f[k])
                                 /\ f[k].key = k
                                 /\ \A j \in i + 1 .. Len(d) : d[j].val.key # k
    BY <1>4 DEF Tracks, TracksAt
  <2>2. d[i].val = f[k] /\ d[i].val.key = k
    BY <2>1 DEF Entry
  <2>3. r.records[k] # None
    BY <1>1, <2>2 DEF LoadedPrefix
  <2>4. PICK h \in 1 .. Len(d) : /\ d[h].val.key = k
                                 /\ d[h].val = r.records[k]
                                 /\ \A j \in h + 1 .. Len(d) : d[j].val.key # k
    BY <1>1, <2>3 DEF LoadedPrefix
  <2>5. h = i
    <3>1. Len(d) \in Nat
      BY DEF Formed
    <3>. QED BY <2>1, <2>2, <2>4, <3>1
  <2>. QED BY <2>2, <2>4, <2>5
<1>. QED BY <1>3, <1>4

-----------------------------------------------------------------------------
(* The order of a dictionary.                                                *)

\* o lists the members of S, each once.
Lists(o, S) ==
    /\ o \in Seq(S)
    /\ \A i, j \in 1 .. Len(o) : o[i] = o[j] => i = j
    /\ \A x \in S : \E i \in 1 .. Len(o) : o[i] = x

LEMMA InsertLists ==
    ASSUME NEW S, NEW o, Lists(o, S), NEW n
    PROVE  /\ Lists(Insert(o, n), S \cup {n})
           /\ n \notin S => Insert(o, n) = Append(o, n)
<1>0. /\ o \in Seq(S) /\ Len(o) \in Nat /\ DOMAIN o = 1 .. Len(o)
      /\ \A i \in 1 .. Len(o) : o[i] \in S
  BY DEF Lists
<1>1. n \in ToSet(o) <=> n \in S
  BY <1>0 DEF Lists, ToSet
<1>2. CASE n \in S
  <2>1. Insert(o, n) = o /\ S \cup {n} = S
    BY <1>1, <1>2 DEF Insert
  <2>. QED BY <1>2, <2>1
<1>3. CASE n \notin S
  <2> DEFINE p == Append(o, n)
  <2>1. Insert(o, n) = p
    BY <1>1, <1>3 DEF Insert
  <2>2. o \in Seq(S \cup {n})
    BY <1>0
  <2>3. /\ p \in Seq(S \cup {n})
        /\ Len(p) = Len(o) + 1
        /\ p[Len(o) + 1] = n
        /\ \A i \in 1 .. Len(o) : p[i] = o[i]
    BY <2>2
  <2> HIDE DEF p
  <2>4. \A i, j \in 1 .. Len(p) : p[i] = p[j] => i = j
    <3> SUFFICES ASSUME NEW i \in 1 .. Len(p), NEW j \in 1 .. Len(p), p[i] = p[j]
                 PROVE  i = j
      OBVIOUS
    <3>1. CASE i = Len(o) + 1
      BY <1>0, <1>3, <2>3, <3>1
    <3>2. CASE j = Len(o) + 1
      BY <1>0, <1>3, <2>3, <3>2
    <3>3. CASE i \in 1 .. Len(o) /\ j \in 1 .. Len(o)
      BY <2>3, <3>3 DEF Lists
    <3>. QED BY <1>0, <2>3, <3>1, <3>2, <3>3
  <2>5. \A x \in S \cup {n} : \E i \in 1 .. Len(p) : p[i] = x
    <3> SUFFICES ASSUME NEW x \in S \cup {n}
                 PROVE  \E i \in 1 .. Len(p) : p[i] = x
      OBVIOUS
    <3>1. CASE x = n
      BY <1>0, <2>3, <3>1
    <3>2. CASE x # n
      <4>1. PICK i \in 1 .. Len(o) : o[i] = x
        BY <3>2 DEF Lists
      <4>. QED BY <1>0, <2>3, <4>1
    <3>. QED BY <3>1, <3>2
  <2>. QED BY <1>3, <2>1, <2>3, <2>4, <2>5 DEF Lists, p
<1>. QED BY <1>2, <1>3

\* Keys assigned one after the other are listed once each.
LEMMA InsertionLists ==
    ASSUME NEW X, NEW s \in Seq(X)
    PROVE  Lists(InOrderOfInsertion(s), {s[i] : i \in 1 .. Len(s)})
<1> DEFINE N == Len(s)
           Runs(f) == f = [i \in 0 .. N |-> IF i = 0 THEN <<>>
                                            ELSE Insert(f[i - 1], s[i])]
           order == CHOOSE f : Runs(f)
           Seen(m) == {s[i] : i \in 1 .. m}
<1>0. N \in Nat /\ \A i \in 1 .. N : s[i] \in X
  OBVIOUS
<1>1. \E f : Runs(f)
  <2> DEFINE step == [p \in Seq(X) \X (1 .. N) |-> Insert(p[1], s[p[2]])]
  <2>1. step \in [Seq(X) \X (1 .. N) -> Seq(X)]
    <3>1. \A o \in Seq(X), i \in 1 .. N : Insert(o, s[i]) \in Seq(X)
      BY <1>0 DEF Insert
    <3>. QED BY <3>1
  <2>2. <<>> \in Seq(X)
    OBVIOUS
  <2> HIDE DEF step
  <2>3. PICK f : Loop(f, Seq(X), <<>>, N, step)
    BY <1>0, <2>1, <2>2, LoopExists
  <2>4. \A i \in 1 .. N : f[i] = Insert(f[i - 1], s[i])
    <3> SUFFICES ASSUME NEW i \in 1 .. N
                 PROVE  f[i] = Insert(f[i - 1], s[i])
      OBVIOUS
    <3>1. f[i - 1] \in Seq(X)
      BY <1>0, <2>3 DEF Loop
    <3>2. step[<<f[i - 1], i>>] = Insert(f[i - 1], s[i])
      BY <3>1 DEF step
    <3>. QED BY <2>3, <3>2 DEF Loop
  <2>5. Runs(f)
    BY <1>0, <2>3, <2>4 DEF Loop
  <2>. QED BY <2>5
<1>2. Runs(order)
  <2> HIDE DEF Runs
  <2>. QED BY <1>1
<1>3. InOrderOfInsertion(s) = order[N]
  BY DEF InOrderOfInsertion
<1>4. /\ order[0] = <<>>
      /\ \A m \in Nat : m + 1 <= N => order[m + 1] = Insert(order[m], s[m + 1])
  <2> HIDE DEF order
  <2>1. order[0] = <<>>
    BY <1>0, <1>2
  <2>2. ASSUME NEW m \in Nat, m + 1 <= N
        PROVE  order[m + 1] = Insert(order[m], s[m + 1])
    <3>1. m + 1 \in 0 .. N /\ m + 1 # 0 /\ (m + 1) - 1 = m
      BY <1>0, <2>2
    <3>. QED BY <1>2, <3>1
  <2>. QED BY <2>1, <2>2
<1> HIDE DEF order
<1> DEFINE T == {m \in Nat : m <= N => Lists(order[m], Seen(m))}
<1>5. 0 \in T
  <2>1. Seen(0) = {}
    OBVIOUS
  <2>2. Lists(<<>>, {})
    BY DEF Lists
  <2>. QED BY <1>4, <2>1, <2>2
<1>6. ASSUME NEW m \in Nat, m \in T
      PROVE  m + 1 \in T
  <2> SUFFICES ASSUME m + 1 <= N
               PROVE  Lists(order[m + 1], Seen(m + 1))
    OBVIOUS
  <2>1. Lists(order[m], Seen(m))
    BY <1>0, <1>6
  <2>2. Seen(m + 1) = Seen(m) \cup {s[m + 1]}
    <3>1. \A i \in 1 .. m + 1 : i \in 1 .. m \/ i = m + 1
      OBVIOUS
    <3>2. m + 1 \in 1 .. m + 1 /\ \A i \in 1 .. m : i \in 1 .. m + 1
      OBVIOUS
    <3>. QED BY <3>1, <3>2
  <2>3. order[m + 1] = Insert(order[m], s[m + 1])
    BY <1>4
  <2> HIDE DEF Seen
  <2>. QED BY <2>1, <2>2, <2>3, InsertLists
<1>7. N \in T
  <2> HIDE DEF T
  <2>. QED BY <1>0, <1>5, <1>6, Induct
<1>. QED BY <1>0, <1>3, <1>7

RecordedKeys(r) == {k \in Key : r.records[k] # None}
IndexedCalls(r) == {c \in CallId : r.index[c] # None}

\* The two orders list what has been loaded.
LEMMA OrdersOfLoaded ==
    ASSUME NEW d, Formed(d)
    PROVE  /\ Lists(KeyOrder(d), RecordedKeys(LoadOrdered(d)))
           /\ Lists(CallOrder(d), IndexedCalls(LoadOrdered(d)))
<1> DEFINE r == LoadOrdered(d)
           ks == [i \in DOMAIN d |-> d[i].val.key]
           cs == [i \in DOMAIN d |-> CallOf(d[i].name, d[i].val)]
<1>1. LoadedPrefix(r, d, Len(d))
  BY LoadOrderedFacts
<1> HIDE DEF r
<1>2. Len(d) \in Nat /\ DOMAIN d = 1 .. Len(d)
  BY DEF Formed
<1>3. /\ ks \in Seq(Key) /\ Len(ks) = Len(d)
      /\ \A i \in 1 .. Len(d) : ks[i] = d[i].val.key
  BY <1>2, FormedEntry
<1>4. /\ cs \in Seq(CallId) /\ Len(cs) = Len(d)
      /\ \A i \in 1 .. Len(d) : cs[i] = d[i].val.call
  BY <1>2, FormedEntry
<1>5. {ks[i] : i \in 1 .. Len(ks)} = RecordedKeys(r)
  <2>1. \A i \in 1 .. Len(d) : d[i].val.key \in RecordedKeys(r)
    BY <1>1, FormedEntry DEF LoadedPrefix, RecordedKeys
  <2>2. \A k \in RecordedKeys(r) : \E i \in 1 .. Len(d) : d[i].val.key = k
    BY <1>1 DEF LoadedPrefix, RecordedKeys
  <2>. QED BY <1>3, <2>1, <2>2
<1>6. {cs[i] : i \in 1 .. Len(cs)} = IndexedCalls(r)
  <2>1. \A i \in 1 .. Len(d) : d[i].val.call \in IndexedCalls(r)
    BY <1>1, FormedEntry DEF LoadedPrefix, IndexedCalls
  <2>2. \A c \in IndexedCalls(r) : \E i \in 1 .. Len(d) : d[i].val.call = c
    BY <1>1 DEF LoadedPrefix, IndexedCalls, Name
  <2> HIDE DEF cs
  <2>. QED BY <1>4, <2>1, <2>2
<1>7. /\ KeyOrder(d) = InOrderOfInsertion(ks)
      /\ CallOrder(d) = InOrderOfInsertion(cs)
  BY DEF KeyOrder, CallOrder
<1> HIDE DEF ks, cs
<1>8. /\ Lists(KeyOrder(d), RecordedKeys(r))
      /\ Lists(CallOrder(d), IndexedCalls(r))
  BY <1>3, <1>4, <1>5, <1>6, <1>7, InsertionLists
<1>. QED BY <1>8 DEF r

-----------------------------------------------------------------------------
(* to_dict in its order.                                                     *)

\* e has an entry for each record of r and for each indexed id, with the record
\* of the request; the records come first.
MadeFrom(e, r) ==
    /\ e \in Seq(Entries)
    /\ \A i, j \in 1 .. Len(e) : e[i].name = e[j].name => i = j
    /\ \A i \in 1 .. Len(e) :
          /\ e[i].val = r.records[Home(e[i].name)]
          /\ e[i].name \in RecordedKeys(r) \cup IndexedCalls(r)
    /\ \A n \in RecordedKeys(r) \cup IndexedCalls(r) : n \in Names(e)
    /\ \A i, j \in 1 .. Len(e) :
          e[i].name \in Key /\ e[j].name \in CallId => i < j

LEMMA IndexedHome ==
    ASSUME NEW r, RegistryOK(r), NEW n \in RecordedKeys(r) \cup IndexedCalls(r)
    PROVE  /\ n \in Name
           /\ Home(n) \in Key /\ Home(n) \in RecordedKeys(r)
           /\ n \in Key => Home(n) = n
           /\ n \in CallId => n \notin Key /\ Home(n) = KeyOf[n] /\ r.index[n] = Home(n)
           /\ r.records[Home(n)] \in Record
           /\ ToDict(r)[n] = r.records[Home(n)]
<1>1. n \in Name /\ Home(n) \in Key
  BY HomeIsKey DEF RecordedKeys, IndexedCalls, Name
<1>2. CASE n \in Key
  <2>1. n \in RecordedKeys(r) /\ Home(n) = n /\ n \notin CallId
    BY <1>2, RegistryAssumption DEF Home, IndexedCalls
  <2>. QED BY <1>1, <1>2, <2>1 DEF RecordedKeys, ToDict, RegistryOK, Registry
<1>3. CASE n \notin Key
  <2>1. n \in IndexedCalls(r) /\ Home(n) = KeyOf[n]
    BY <1>3 DEF RecordedKeys, Home
  <2>2. r.index[n] = Home(n) /\ r.records[Home(n)] # None
    BY <1>1, <2>1 DEF RegistryOK, IndexLeadsHome, IndexedCalls, Recorded
  <2>3. Home(n) # None
    BY <1>1, RegistryAssumption
  <2>. QED BY <1>1, <1>3, <2>1, <2>2, <2>3
           DEF RecordedKeys, ToDict, RegistryOK, Registry
<1>. QED BY <1>2, <1>3

LEMMA ToOrderedDictFacts ==
    ASSUME NEW r, RegistryOK(r),
           NEW keys, Lists(keys, RecordedKeys(r)),
           NEW calls, Lists(calls, IndexedCalls(r))
    PROVE  /\ MadeFrom(ToOrderedDict(r, keys, calls), r)
           /\ Len(ToOrderedDict(r, keys, calls)) = Len(keys) + Len(calls)
           /\ calls # <<>> =>
                ToOrderedDict(r, keys, calls)[Len(keys) + Len(calls)].name
                    = calls[Len(calls)]
<1> DEFINE names == keys \o calls
           td == ToDict(r)
           e == ToOrderedDict(r, keys, calls)
           All == RecordedKeys(r) \cup IndexedCalls(r)
<1>0. /\ keys \in Seq(All) /\ calls \in Seq(All)
      /\ Len(keys) \in Nat /\ Len(calls) \in Nat
      /\ \A i \in 1 .. Len(keys) : keys[i] \in RecordedKeys(r)
      /\ \A i \in 1 .. Len(calls) : calls[i] \in IndexedCalls(r)
  BY DEF Lists
<1>1. /\ names \in Seq(All)
      /\ Len(names) = Len(keys) + Len(calls)
      /\ \A i \in 1 .. Len(keys) : names[i] = keys[i]
      /\ \A i \in 1 .. Len(calls) : names[Len(keys) + i] = calls[i]
  BY <1>0
<1>2. RecordedKeys(r) \cap IndexedCalls(r) = {}
  BY RegistryAssumption DEF RecordedKeys, IndexedCalls
<1> HIDE DEF names
<1>3. ASSUME NEW i \in 1 .. Len(names)
      PROVE  \/ i \in 1 .. Len(keys) /\ names[i] = keys[i]
             \/ /\ i - Len(keys) \in 1 .. Len(calls)
                /\ names[i] = calls[i - Len(keys)]
  <2>1. CASE i <= Len(keys)
    BY <1>0, <1>1, <2>1
  <2>2. CASE i > Len(keys)
    <3>1. i - Len(keys) \in 1 .. Len(calls) /\ i = Len(keys) + (i - Len(keys))
      BY <1>0, <1>1, <2>2
    <3>. QED BY <1>1, <3>1
  <2>. QED BY <1>0, <2>1, <2>2
<1>4. e = [i \in 1 .. Len(names) |-> Entry(names[i], td[names[i]])]
  <2>1. DOMAIN names = 1 .. Len(names)
    BY <1>1
  <2>. QED BY <2>1 DEF ToOrderedDict, names
<1>5. \A i \in 1 .. Len(names) :
        /\ names[i] \in All
        /\ Entry(names[i], td[names[i]]) \in Entries
        /\ td[names[i]] = r.records[Home(names[i])]
  <2>1. \A i \in 1 .. Len(names) : names[i] \in All
    BY <1>1
  <2> HIDE DEF All, td
  <2>2. \A n \in All : /\ n \in Name /\ td[n] \in Record
                       /\ td[n] = r.records[Home(n)]
    BY IndexedHome DEF All, td
  <2>. QED BY <2>1, <2>2 DEF Entry, Entries
<1>6. /\ e \in Seq(Entries) /\ Len(e) = Len(names)
      /\ \A i \in 1 .. Len(names) : e[i].name = names[i] /\ e[i].val = td[names[i]]
  <2> HIDE DEF td, e, All
  <2>. QED BY <1>0, <1>1, <1>4, <1>5 DEF Entry
<1> HIDE DEF e, td
<1>7. \A i, j \in 1 .. Len(e) : e[i].name = e[j].name => i = j
  <2> SUFFICES ASSUME NEW i \in 1 .. Len(names), NEW j \in 1 .. Len(names),
                      names[i] = names[j]
               PROVE  i = j
    BY <1>6
  <2>1. CASE i \in 1 .. Len(keys) /\ names[i] = keys[i]
    <3>1. j \in 1 .. Len(keys) /\ names[j] = keys[j]
      BY <1>0, <1>2, <1>3, <2>1
    <3>. QED BY <2>1, <3>1 DEF Lists
  <2>2. CASE i - Len(keys) \in 1 .. Len(calls) /\ names[i] = calls[i - Len(keys)]
    <3>1. j - Len(keys) \in 1 .. Len(calls) /\ names[j] = calls[j - Len(keys)]
      BY <1>0, <1>2, <1>3, <2>2
    <3>2. i - Len(keys) = j - Len(keys)
      BY <2>2, <3>1 DEF Lists
    <3>. QED BY <1>0, <3>2
  <2>. QED BY <1>3, <2>1, <2>2
<1>8. \A n \in All : n \in Names(e)
  <2> SUFFICES ASSUME NEW n \in All
               PROVE  \E i \in 1 .. Len(names) : names[i] = n
    BY <1>6 DEF Names
  <2>1. CASE n \in RecordedKeys(r)
    <3>1. PICK i \in 1 .. Len(keys) : keys[i] = n
      BY <2>1 DEF Lists
    <3>. QED BY <1>0, <1>1, <3>1
  <2>2. CASE n \in IndexedCalls(r)
    <3>1. PICK i \in 1 .. Len(calls) : calls[i] = n
      BY <2>2 DEF Lists
    <3>2. Len(keys) + i \in 1 .. Len(names)
      BY <1>0, <1>1
    <3>. QED BY <1>1, <3>1, <3>2
  <2>. QED BY <2>1, <2>2
<1>9. \A i, j \in 1 .. Len(e) : e[i].name \in Key /\ e[j].name \in CallId => i < j
  <2> SUFFICES ASSUME NEW i \in 1 .. Len(names), NEW j \in 1 .. Len(names),
                      names[i] \in Key, names[j] \in CallId
               PROVE  i < j
    BY <1>6
  <2>1. names[i] \notin IndexedCalls(r) /\ names[j] \notin RecordedKeys(r)
    BY RegistryAssumption DEF IndexedCalls, RecordedKeys
  <2>2. i \in 1 .. Len(keys) /\ j - Len(keys) \in 1 .. Len(calls)
    BY <1>0, <1>3, <2>1
  <2>. QED BY <1>0, <2>2
<1>10. MadeFrom(e, r)
  BY <1>5, <1>6, <1>7, <1>8, <1>9 DEF MadeFrom
<1>11. calls # <<>> => e[Len(keys) + Len(calls)].name = calls[Len(calls)]
  <2> SUFFICES ASSUME calls # <<>>
               PROVE  e[Len(keys) + Len(calls)].name = calls[Len(calls)]
    OBVIOUS
  <2>1. Len(calls) \in 1 .. Len(calls)
    BY <1>0
  <2>2. Len(keys) + Len(calls) \in 1 .. Len(names)
    BY <1>0, <1>1, <2>1
  <2>. QED BY <1>1, <1>6, <2>1, <2>2
<1>. QED BY <1>1, <1>6, <1>10, <1>11 DEF e

\* What to_dict makes of a registry whose records carry call ids is well formed.
LEMMA MadeIsFormed ==
    ASSUME NEW r, RegistryOK(r), CallsGiven(r.records), NEW e, MadeFrom(e, r)
    PROVE  /\ Formed(e)
           /\ \A i \in 1 .. Len(e) : /\ e[i].val.key \in RecordedKeys(r)
                                     /\ e[i].val = r.records[e[i].val.key]
           /\ \A k \in RecordedKeys(r) : r.records[k].call \in Names(e)
<1>1. ASSUME NEW k \in RecordedKeys(r)
      PROVE  /\ r.records[k].key = k
             /\ r.records[k].call \in CallId
             /\ r.records[k].call \in IndexedCalls(r)
             /\ r.index[r.records[k].call] = k
             /\ KeyOf[r.records[k].call] = k
  <2>1. /\ k \in Key /\ r.records[k] # None /\ k # None
        /\ r.records[k].call \in CallId /\ r.records[k].call # None
    BY RegistryAssumption DEF RecordedKeys, CallsGiven
  <2>2. r.records[k].key = k /\ r.index[r.records[k].call] = k
    BY <2>1 DEF RegistryOK, RecordsOwnTheirCalls, Recorded
  <2>3. r.records[k].call \in IndexedCalls(r)
    BY <2>1, <2>2 DEF IndexedCalls
  <2>. QED BY <2>1, <2>2, <2>3, IndexedHome
<1>2. ASSUME NEW i \in 1 .. Len(e)
      PROVE  /\ e[i].val.key = Home(e[i].name)
             /\ e[i].val.key \in RecordedKeys(r)
             /\ e[i].val = r.records[e[i].val.key]
             /\ e[i].val.call \in CallId
             /\ KeyOf[e[i].val.call] = e[i].val.key
             /\ e[i].val.key \in Names(e)
             /\ e[i].val.call \in Names(e)
  <2>1. /\ e[i].val = r.records[Home(e[i].name)]
        /\ e[i].name \in RecordedKeys(r) \cup IndexedCalls(r)
    BY DEF MadeFrom
  <2>2. Home(e[i].name) \in RecordedKeys(r)
    BY <2>1, IndexedHome
  <2>. QED BY <1>1, <2>1, <2>2 DEF MadeFrom
<1>. QED BY <1>1, <1>2 DEF Formed, MadeFrom

-----------------------------------------------------------------------------
(* dict.update.                                                              *)

\* d with the first m entries of e assigned: known names keep their places, new
\* ones come after them.
MergedPrefix(u, d, e, m) ==
    /\ u \in Seq(Entries)
    /\ \A i, j \in 1 .. Len(u) : u[i].name = u[j].name => i = j
    /\ Len(d) <= Len(u)
    /\ \A i \in 1 .. Len(d) : u[i].name = d[i].name
    /\ \A i \in 1 .. Len(u) :
          \/ /\ i <= Len(d)
             /\ u[i] = d[i]
             /\ \A j \in 1 .. m : e[j].name # d[i].name
          \/ \E j \in 1 .. m : u[i] = e[j]
    /\ \A j \in 1 .. m : \E i \in 1 .. Len(u) : u[i] = e[j]
    /\ (\A j \in 1 .. m : e[j].name \in Names(d)) => Len(u) = Len(d)
    /\ m > 0 /\ e[m].name \notin Names(d) => u[Len(u)] = e[m]

\* A sequence of entries under distinct names.
Listing(d) ==
    /\ d \in Seq(Entries)
    /\ \A i, j \in 1 .. Len(d) : d[i].name = d[j].name => i = j

LEMMA MergeStep ==
    ASSUME NEW d, Listing(d), NEW e, Listing(e),
           NEW m \in Nat, m + 1 <= Len(e),
           NEW u, MergedPrefix(u, d, e, m)
    PROVE  MergedPrefix(SetItem(u, e[m + 1]), d, e, m + 1)
<1> DEFINE x == e[m + 1]
           q == SetItem(u, x)
<1>0. /\ Len(d) \in Nat /\ DOMAIN d = 1 .. Len(d)
      /\ Len(e) \in Nat /\ m + 1 \in 1 .. Len(e)
      /\ Len(u) \in Nat /\ DOMAIN u = 1 .. Len(u)
      /\ x \in Entries
      /\ \A i \in 1 .. Len(u) : u[i] \in Entries
      /\ \A j \in 1 .. m : e[j].name # x.name
  BY DEF Listing, MergedPrefix
<1>10. Len(d) <= Len(u) /\ \A i \in 1 .. Len(d) : u[i].name = d[i].name
  BY DEF MergedPrefix
<1>11. \A i \in 1 .. Len(d) : i \in 1 .. Len(u)
  BY <1>0, <1>10
<1> HIDE DEF x
<1>1. CASE x.name \in Names(u)
  <2>1. q = [i \in 1 .. Len(u) |-> IF u[i].name = x.name THEN x ELSE u[i]]
    BY <1>0, <1>1 DEF SetItem
  <2>2. /\ q \in Seq(Entries) /\ Len(q) = Len(u)
        /\ \A i \in 1 .. Len(u) : /\ q[i] = IF u[i].name = x.name THEN x ELSE u[i]
                                  /\ q[i].name = u[i].name
    <3> HIDE DEF q
    <3>1. \A i \in 1 .. Len(u) : q[i] = IF u[i].name = x.name THEN x ELSE u[i]
      BY <2>1
    <3>. QED BY <1>0, <2>1, <3>1
  <2> HIDE DEF q
  <2>3. PICK h \in 1 .. Len(u) : u[h].name = x.name
    BY <1>0, <1>1 DEF Names
  <2>4. h <= Len(d) /\ u[h] = d[h]
    <3>1. ~ \E j \in 1 .. m : u[h] = e[j]
      BY <1>0, <2>3
    <3>. QED BY <3>1 DEF MergedPrefix
  <2>5. x.name \in Names(d)
    BY <1>0, <2>3, <2>4 DEF Names
  <2>6. ASSUME NEW i \in 1 .. Len(q)
        PROVE  \/ /\ i <= Len(d)
                  /\ q[i] = d[i]
                  /\ \A j \in 1 .. m + 1 : e[j].name # d[i].name
               \/ \E j \in 1 .. m + 1 : q[i] = e[j]
    <3>1. CASE u[i].name = x.name
      <4>1. q[i] = e[m + 1] /\ m + 1 \in 1 .. m + 1
        BY <2>2, <3>1 DEF x
      <4>. QED BY <4>1
    <3>2. CASE u[i].name # x.name
      <4>1. q[i] = u[i] /\ i \in 1 .. Len(u)
        BY <2>2, <3>2
      <4>2. CASE \E j \in 1 .. m : u[i] = e[j]
        <5>1. PICK j \in 1 .. m : u[i] = e[j]
          BY <4>2
        <5>2. j \in 1 .. m + 1
          OBVIOUS
        <5>. QED BY <4>1, <5>1, <5>2
      <4>3. CASE /\ i <= Len(d) /\ u[i] = d[i]
                 /\ \A j \in 1 .. m : e[j].name # d[i].name
        <5>1. \A j \in 1 .. m + 1 : j \in 1 .. m \/ j = m + 1
          OBVIOUS
        <5>. QED BY <3>2, <4>1, <4>3, <5>1 DEF x
      <4>. QED BY <4>1, <4>2, <4>3 DEF MergedPrefix
    <3>. QED BY <3>1, <3>2
  <2>7. ASSUME NEW j \in 1 .. m + 1
        PROVE  \E i \in 1 .. Len(q) : q[i] = e[j]
    <3>1. CASE j = m + 1
      BY <2>2, <2>3, <3>1 DEF x
    <3>2. CASE j # m + 1
      <4>1. j \in 1 .. m
        BY <3>2
      <4>2. PICK i \in 1 .. Len(u) : u[i] = e[j]
        BY <4>1 DEF MergedPrefix
      <4>. QED BY <1>0, <2>2, <4>1, <4>2
    <3>. QED BY <3>1, <3>2
  <2>8. (\A j \in 1 .. m + 1 : e[j].name \in Names(d)) => Len(q) = Len(d)
    <3>1. \A j \in 1 .. m : j \in 1 .. m + 1
      OBVIOUS
    <3>. QED BY <2>2, <3>1 DEF MergedPrefix
  <2>9. /\ \A i, j \in 1 .. Len(q) : q[i].name = q[j].name => i = j
        /\ \A i \in 1 .. Len(d) : q[i].name = d[i].name
        /\ Len(d) <= Len(q)
    <3>1. \A i, j \in 1 .. Len(u) : u[i].name = u[j].name => i = j
      BY DEF MergedPrefix
    <3>. QED BY <1>10, <1>11, <2>2, <3>1
  <2>. QED BY <2>2, <2>5, <2>6, <2>7, <2>8, <2>9 DEF MergedPrefix, q, x
<1>2. CASE x.name \notin Names(u)
  <2>1. q = Append(u, x)
    BY <1>2 DEF SetItem
  <2>2. /\ q \in Seq(Entries) /\ Len(q) = Len(u) + 1 /\ q[Len(u) + 1] = x
        /\ \A i \in 1 .. Len(u) : q[i] = u[i] /\ u[i].name # x.name
    <3>1. u \in Seq(Entries)
      BY DEF MergedPrefix
    <3>2. \A i \in 1 .. Len(u) : u[i].name # x.name
      BY <1>0, <1>2 DEF Names
    <3>. QED BY <1>0, <2>1, <3>1, <3>2
  <2> HIDE DEF q
  <2>3. x.name \notin Names(d)
    BY <1>0, <1>10, <1>11, <2>2 DEF Names
  <2>4. /\ Len(d) <= Len(q)
        /\ \A i \in 1 .. Len(d) : q[i].name = d[i].name
    BY <1>0, <1>10, <1>11, <2>2
  <2>5. \A i, j \in 1 .. Len(q) : q[i].name = q[j].name => i = j
    <3> SUFFICES ASSUME NEW i \in 1 .. Len(q), NEW j \in 1 .. Len(q),
                        q[i].name = q[j].name
                 PROVE  i = j
      OBVIOUS
    <3>1. CASE i \in 1 .. Len(u) /\ j \in 1 .. Len(u)
      BY <2>2, <3>1 DEF MergedPrefix
    <3>2. CASE i = Len(u) + 1 \/ j = Len(u) + 1
      BY <1>0, <2>2, <3>2
    <3>. QED BY <1>0, <2>2, <3>1, <3>2
  <2>6. ASSUME NEW i \in 1 .. Len(q)
        PROVE  \/ /\ i <= Len(d)
                  /\ q[i] = d[i]
                  /\ \A j \in 1 .. m + 1 : e[j].name # d[i].name
               \/ \E j \in 1 .. m + 1 : q[i] = e[j]
    <3>1. CASE i = Len(u) + 1
      <4>1. q[i] = e[m + 1] /\ m + 1 \in 1 .. m + 1
        BY <2>2, <3>1 DEF x
      <4>. QED BY <4>1
    <3>2. CASE i # Len(u) + 1
      <4>1. i \in 1 .. Len(u) /\ q[i] = u[i] /\ u[i].name # x.name
        BY <1>0, <2>2, <3>2
      <4>2. CASE \E j \in 1 .. m : u[i] = e[j]
        <5>1. PICK j \in 1 .. m : u[i] = e[j]
          BY <4>2
        <5>2. j \in 1 .. m + 1
          OBVIOUS
        <5>. QED BY <4>1, <5>1, <5>2
      <4>3. CASE /\ i <= Len(d) /\ u[i] = d[i]
                 /\ \A j \in 1 .. m : e[j].name # d[i].name
        <5>1. \A j \in 1 .. m + 1 : j \in 1 .. m \/ j = m + 1
          OBVIOUS
        <5>. QED BY <4>1, <4>3, <5>1 DEF x
      <4>. QED BY <4>1, <4>2, <4>3 DEF MergedPrefix
    <3>. QED BY <3>1, <3>2
  <2>7. ASSUME NEW j \in 1 .. m + 1
        PROVE  \E i \in 1 .. Len(q) : q[i] = e[j]
    <3>1. CASE j = m + 1
      BY <1>0, <2>2, <3>1 DEF x
    <3>2. CASE j # m + 1
      <4>1. j \in 1 .. m
        BY <3>2
      <4>2. PICK i \in 1 .. Len(u) : u[i] = e[j]
        BY <4>1 DEF MergedPrefix
      <4>. QED BY <1>0, <2>2, <4>2
    <3>. QED BY <3>1, <3>2
  <2>8. ~ (\A j \in 1 .. m + 1 : e[j].name \in Names(d))
    <3>1. m + 1 \in 1 .. m + 1
      OBVIOUS
    <3>. QED BY <2>3, <3>1 DEF x
  <2>9. q[Len(q)] = e[m + 1]
    BY <2>2 DEF x
  <2>. QED BY <2>2, <2>4, <2>5, <2>6, <2>7, <2>8, <2>9 DEF MergedPrefix, q, x
<1>. QED BY <1>1, <1>2

LEMMA UpdateFacts ==
    ASSUME NEW d, Listing(d), NEW e, Listing(e)
    PROVE  MergedPrefix(Update(d, e), d, e, Len(e))
<1> DEFINE N == Len(e)
           Runs(f) == f = [i \in 0 .. N |-> IF i = 0 THEN d
                                            ELSE SetItem(f[i - 1], e[i])]
           updated == CHOOSE f : Runs(f)
<1>0. N \in Nat /\ d \in Seq(Entries) /\ \A i \in 1 .. N : e[i] \in Entries
  BY DEF Listing
<1>1. \E f : Runs(f)
  <2> DEFINE step == [p \in Seq(Entries) \X (1 .. N) |-> SetItem(p[1], e[p[2]])]
  <2>1. step \in [Seq(Entries) \X (1 .. N) -> Seq(Entries)]
    <3>1. ASSUME NEW o \in Seq(Entries), NEW i \in 1 .. N
          PROVE  SetItem(o, e[i]) \in Seq(Entries)
      <4> DEFINE p == [j \in 1 .. Len(o) |-> IF o[j].name = e[i].name THEN e[i] ELSE o[j]]
      <4>1. p \in Seq(Entries)
        BY <1>0
      <4>2. DOMAIN o = 1 .. Len(o)
        OBVIOUS
      <4>3. SetItem(o, e[i]) = IF e[i].name \in Names(o) THEN p ELSE Append(o, e[i])
        BY <4>2 DEF SetItem
      <4>4. Append(o, e[i]) \in Seq(Entries)
        BY <1>0
      <4> HIDE DEF p
      <4>. QED BY <4>1, <4>3, <4>4
    <3>. QED BY <3>1
  <2> HIDE DEF step
  <2>2. PICK f : Loop(f, Seq(Entries), d, N, step)
    BY <1>0, <2>1, LoopExists
  <2>3. \A i \in 1 .. N : f[i] = SetItem(f[i - 1], e[i])
    <3> SUFFICES ASSUME NEW i \in 1 .. N
                 PROVE  f[i] = SetItem(f[i - 1], e[i])
      OBVIOUS
    <3>1. f[i - 1] \in Seq(Entries)
      BY <1>0, <2>2 DEF Loop
    <3>2. step[<<f[i - 1], i>>] = SetItem(f[i - 1], e[i])
      BY <3>1 DEF step
    <3>. QED BY <2>2, <3>2 DEF Loop
  <2>4. Runs(f)
    BY <1>0, <2>2, <2>3 DEF Loop
  <2>. QED BY <2>4
<1>2. Runs(updated)
  <2> HIDE DEF Runs
  <2>. QED BY <1>1
<1>3. Update(d, e) = updated[N]
  BY DEF Update
<1>4. /\ updated[0] = d
      /\ \A m \in Nat : m + 1 <= N => updated[m + 1] = SetItem(updated[m], e[m + 1])
  <2> HIDE DEF updated
  <2>1. updated[0] = d
    BY <1>0, <1>2
  <2>2. ASSUME NEW m \in Nat, m + 1 <= N
        PROVE  updated[m + 1] = SetItem(updated[m], e[m + 1])
    <3>1. m + 1 \in 0 .. N /\ m + 1 # 0 /\ (m + 1) - 1 = m
      BY <1>0, <2>2
    <3>. QED BY <1>2, <3>1
  <2>. QED BY <2>1, <2>2
<1> HIDE DEF updated
<1> DEFINE T == {m \in Nat : m <= N => MergedPrefix(updated[m], d, e, m)}
<1>5. 0 \in T
  <2>1. MergedPrefix(d, d, e, 0)
    BY <1>0 DEF MergedPrefix, Listing
  <2>. QED BY <1>4, <2>1
<1>6. ASSUME NEW m \in Nat, m \in T
      PROVE  m + 1 \in T
  <2> SUFFICES ASSUME m + 1 <= N
               PROVE  MergedPrefix(updated[m + 1], d, e, m + 1)
    OBVIOUS
  <2>1. MergedPrefix(updated[m], d, e, m)
    BY <1>0, <1>6
  <2>. QED BY <1>4, <2>1, MergeStep
<1>7. N \in T
  <2> HIDE DEF T
  <2>. QED BY <1>0, <1>5, <1>6, Induct
<1>. QED BY <1>0, <1>3, <1>7

-----------------------------------------------------------------------------
(* What the operations do to the two registries.                             *)

LEMMA RegisterGiven ==
    ASSUME NEW r, RegistryOK(r), CallsGiven(r.records),
           NEW c \in CallId, NEW s \in Status
    PROVE  LET q == RegisterCall(r, KeyOf[c], c, s) IN
           /\ RegistryOK(q) /\ CallsGiven(q.records)
           /\ RecordedKeys(q) = RecordedKeys(r) \cup {KeyOf[c]}
           /\ IndexedCalls(q) = IndexedCalls(r) \cup {c}
           /\ q.records[KeyOf[c]].call = c
           /\ \A k \in Key : k # KeyOf[c] => q.records[k] = r.records[k]
<1> DEFINE k == KeyOf[c]
           q == RegisterCall(r, k, c, s)
           new == IF r.records[k] = None THEN NewRecord(k, c, s)
                  ELSE NoteCall(r.records[k], c)
<1>1. k \in Key /\ k # None /\ c # None /\ c \in Name /\ c \notin Key
  BY RegistryAssumption DEF Name
<1>2. RegistryOK(q)
  BY <1>1, RegisterOK
<1>3. /\ r.records \in [Key -> Record \cup {None}]
      /\ r.index \in [Name -> Key \cup {None}]
  BY DEF RegistryOK, Registry
<1>4. /\ q.records = [r.records EXCEPT ![k] = new]
      /\ q.index = [r.index EXCEPT ![c] = k]
  BY <1>1, <1>3 DEF RegisterCall
<1>5. new.call = c /\ new # None
  <2>1. CASE r.records[k] = None
    <3>1. new \in Record /\ new.call = c
      BY <1>1, <2>1 DEF NewRecord, Record, Status
    <3>. QED BY <3>1, RecordFields
  <2>2. CASE r.records[k] # None
    <3>1. r.records[k] \in Record
      BY <1>1, <1>3, <2>2
    <3>2. new \in Record /\ new.call = c
      BY <1>1, <2>2, <3>1 DEF NoteCall, Record
    <3>. QED BY <3>2, RecordFields
  <2>. QED BY <2>1, <2>2
<1> HIDE DEF new, q
<1>6. /\ q.records[k] = new
      /\ \A j \in Key : j # k => q.records[j] = r.records[j]
      /\ q.index[c] = k
      /\ \A n \in Name : n # c => q.index[n] = r.index[n]
  BY <1>1, <1>3, <1>4
<1>7. CallsGiven(q.records)
  BY <1>5, <1>6 DEF CallsGiven
<1>8. RecordedKeys(q) = RecordedKeys(r) \cup {k}
  BY <1>1, <1>5, <1>6 DEF RecordedKeys
<1>9. IndexedCalls(q) = IndexedCalls(r) \cup {c}
  BY <1>1, <1>6 DEF IndexedCalls, Name
<1>. QED BY <1>2, <1>5, <1>6, <1>7, <1>8, <1>9 DEF q

LEMMA CompleteGiven ==
    ASSUME NEW r, RegistryOK(r), CallsGiven(r.records),
           NEW n \in Name, NEW res \in Result
    PROVE  LET q == CompleteCall(r, n, res) IN
           /\ RegistryOK(q) /\ CallsGiven(q.records)
           /\ RecordedKeys(q) = RecordedKeys(r)
           /\ IndexedCalls(q) = IndexedCalls(r)
           /\ \A k \in RecordedKeys(r) : q.records[k].call = r.records[k].call
<1> DEFINE q == CompleteCall(r, n, res)
<1>0. "completed" \in Status /\ res \in Result \cup {None}
  BY DEF Status
<1>1. RegistryOK(q)
  BY <1>0, SettleOK DEF CompleteCall
<1>2. q = r \/ Settled(q, r, Home(n), "completed", res)
  BY <1>0, SettleChanges DEF CompleteCall
<1> HIDE DEF q
<1>3. CASE q = r
  BY <1>1, <1>3 DEF q
<1>4. CASE Settled(q, r, Home(n), "completed", res)
  <2> DEFINE h == Home(n)
             new == [r.records[h] EXCEPT !.status = "completed", !.result = res]
  <2>1. /\ h \in Key /\ r.records[h] # None
        /\ r.records \in [Key -> Record \cup {None}]
    BY <1>4, HomeIsKey DEF Settled, Recorded, RegistryOK, Registry
  <2>2. q.records = [r.records EXCEPT ![h] = new] /\ q.index = r.index
    BY <1>4 DEF Settled
  <2>3. r.records[h] \in Record
    BY <2>1
  <2>4. new \in Record /\ new.call = r.records[h].call
    BY <1>0, <2>3 DEF Record
  <2>5. new # None
    BY <2>4, RecordFields
  <2> HIDE DEF new, h
  <2>6. \A k \in Key : /\ q.records[k] # None <=> r.records[k] # None
                       /\ q.records[k] # None => q.records[k].call = r.records[k].call
    BY <2>1, <2>2, <2>4, <2>5
  <2>7. RecordedKeys(q) = RecordedKeys(r) /\ IndexedCalls(q) = IndexedCalls(r)
    BY <2>2, <2>6 DEF RecordedKeys, IndexedCalls
  <2>8. CallsGiven(q.records)
    BY <2>6 DEF CallsGiven
  <2>9. \A k \in RecordedKeys(r) : q.records[k].call = r.records[k].call
    BY <2>6 DEF RecordedKeys
  <2>. QED BY <1>1, <2>7, <2>8, <2>9 DEF q
<1>. QED BY <1>2, <1>3, <1>4

\* Registries with the same records have the same records afterwards.
SameRecords(r, q) == \A k \in Key : r.records[k] = q.records[k]

LEMMA RegisterSame ==
    ASSUME NEW r, RegistryOK(r), NEW q, RegistryOK(q), SameRecords(r, q),
           NEW k \in Key, NEW c, NEW s
    PROVE  SameRecords(RegisterCall(r, k, c, s), RegisterCall(q, k, c, s))
<1>1. /\ r.records \in [Key -> Record \cup {None}]
      /\ q.records \in [Key -> Record \cup {None}]
  BY DEF RegistryOK, Registry
<1>2. r.records = q.records
  BY <1>1 DEF SameRecords
<1>3. RegisterCall(r, k, c, s).records = RegisterCall(q, k, c, s).records
  BY <1>2 DEF RegisterCall
<1>. QED BY <1>3 DEF SameRecords

LEMMA CompleteSame ==
    ASSUME NEW r, RegistryOK(r), NEW q, RegistryOK(q), SameRecords(r, q),
           CallsGiven(r.records), NEW res,
           NEW n, n \in Key \/ \E k \in RecordedKeys(r) : n = r.records[k].call
    PROVE  SameRecords(CompleteCall(r, n, res), CompleteCall(q, n, res))
<1>1. /\ r.records \in [Key -> Record \cup {None}]
      /\ q.records \in [Key -> Record \cup {None}]
  BY DEF RegistryOK, Registry
<1>2. r.records = q.records
  BY <1>1 DEF SameRecords
<1>3. Resolve(r, n) = Resolve(q, n)
  <2>1. CASE n \in Key
    <3>1. r.index[n] = None \/ r.records[n] # None
      BY <2>1, HomeIsKey DEF RegistryOK, IndexLeadsHome, Recorded, Home, Name
    <3>2. q.index[n] = None \/ q.records[n] # None
      BY <2>1, HomeIsKey DEF RegistryOK, IndexLeadsHome, Recorded, Home, Name
    <3>. QED BY <1>2, <2>1, <3>1, <3>2 DEF Resolve
  <2>2. CASE n \notin Key
    <3>1. PICK k \in RecordedKeys(r) : n = r.records[k].call
      BY <2>2
    <3>2. k \in Key /\ r.records[k] # None /\ q.records[k] = r.records[k]
      BY <1>2 DEF RecordedKeys
    <3>3. n # None
      BY <3>1, <3>2, RegistryAssumption DEF CallsGiven
    <3>4. r.index[n] = k /\ q.index[n] = k
      BY <3>1, <3>2, <3>3 DEF RegistryOK, RecordsOwnTheirCalls, Recorded
    <3>. QED BY <2>2, <3>4 DEF Resolve
  <2>. QED BY <2>1, <2>2
<1>4. CompleteCall(r, n, res).records = CompleteCall(q, n, res).records
  <2> DEFINE k == Resolve(r, n)
  <2>1. CASE k = None \/ r.records[k] = None
    BY <1>2, <1>3, <2>1 DEF CompleteCall, Settle
  <2>2. CASE ~ (k = None \/ r.records[k] = None)
    <3>1. r = [records |-> r.records, index |-> r.index]
          /\ q = [records |-> q.records, index |-> q.index]
      BY DEF RegistryOK, Registry
    <3> DEFINE new == [r.records[k] EXCEPT !.status = "completed", !.result = res]
    <3>2. CompleteCall(r, n, res) = [r EXCEPT !.records = [r.records EXCEPT ![k] = new]]
      BY <2>2 DEF CompleteCall, Settle
    <3>3. CompleteCall(q, n, res) = [q EXCEPT !.records = [r.records EXCEPT ![k] = new]]
      BY <1>2, <1>3, <2>2 DEF CompleteCall, Settle
    <3> HIDE DEF new
    <3>. QED BY <3>1, <3>2, <3>3
  <2>. QED BY <2>1, <2>2
<1>. QED BY <1>4 DEF SameRecords

-----------------------------------------------------------------------------
(* What the operations do to the dictionary.                                 *)

\* u is d after the entries e that to_dict made of q have been assigned.
MergedFrom(u, d, e, q) ==
    /\ Formed(u) /\ Formed(d) /\ Formed(e)
    /\ MadeFrom(e, q)
    /\ MergedPrefix(u, d, e, Len(e))

LEMMA MergedNames ==
    ASSUME NEW d, NEW e, NEW u, d \in Seq(Entries), e \in Seq(Entries),
           MergedPrefix(u, d, e, Len(e))
    PROVE  Names(u) = Names(d) \cup Names(e)
<1>1. /\ Len(d) \in Nat /\ DOMAIN d = 1 .. Len(d)
      /\ Len(e) \in Nat /\ DOMAIN e = 1 .. Len(e)
  OBVIOUS
<1>2. u \in Seq(Entries) /\ Len(d) <= Len(u)
  BY DEF MergedPrefix
<1>3. /\ Len(u) \in Nat /\ DOMAIN u = 1 .. Len(u)
      /\ \A i \in 1 .. Len(d) : i \in 1 .. Len(u)
  BY <1>1, <1>2
<1>4. \A i \in 1 .. Len(d) : u[i].name = d[i].name
  BY DEF MergedPrefix
<1>5. \A j \in 1 .. Len(e) : \E i \in 1 .. Len(u) : u[i] = e[j]
  BY DEF MergedPrefix
<1>6. \A i \in 1 .. Len(u) : \/ i <= Len(d) /\ u[i] = d[i]
                             \/ \E j \in 1 .. Len(e) : u[i] = e[j]
  BY DEF MergedPrefix
<1>7. Names(d) \subseteq Names(u)
  BY <1>1, <1>3, <1>4 DEF Names
<1>8. Names(e) \subseteq Names(u)
  BY <1>1, <1>3, <1>5 DEF Names
<1>9. Names(u) \subseteq Names(d) \cup Names(e)
  <2> SUFFICES ASSUME NEW i \in 1 .. Len(u)
               PROVE  u[i].name \in Names(d) \cup Names(e)
    BY <1>3 DEF Names
  <2>1. CASE i <= Len(d) /\ u[i] = d[i]
    <3>1. i \in 1 .. Len(d)
      BY <1>1, <1>3, <2>1
    <3>. QED BY <1>1, <2>1, <3>1 DEF Names
  <2>2. CASE \E j \in 1 .. Len(e) : u[i] = e[j]
    BY <1>1, <2>2 DEF Names
  <2>. QED BY <1>6, <2>1, <2>2
<1>. QED BY <1>7, <1>8, <1>9

LEMMA MadeNames ==
    ASSUME NEW e, NEW r, MadeFrom(e, r)
    PROVE  Names(e) = RecordedKeys(r) \cup IndexedCalls(r)
<1>1. e \in Seq(Entries) /\ DOMAIN e = 1 .. Len(e)
  BY DEF MadeFrom
<1>. QED BY <1>1 DEF MadeFrom, Names

LEMMA UpdateFormed ==
    ASSUME NEW d, Formed(d), NEW e, NEW q, MadeFrom(e, q),
           RegistryOK(q), CallsGiven(q.records)
    PROVE  /\ MergedFrom(Update(d, e), d, e, q)
           /\ Names(Update(d, e)) = Names(d) \cup RecordedKeys(q) \cup IndexedCalls(q)
<1> DEFINE u == Update(d, e)
<1>1. Formed(e)
  BY MadeIsFormed
<1>2. MergedPrefix(u, d, e, Len(e))
  BY <1>1, UpdateFacts DEF Formed, Listing
<1> HIDE DEF u
<1>3. Names(u) = Names(d) \cup Names(e)
  BY <1>1, <1>2, MergedNames DEF Formed
<1>4. ASSUME NEW i \in 1 .. Len(u)
      PROVE  /\ u[i].val.key = Home(u[i].name)
             /\ u[i].val.call \in CallId
             /\ KeyOf[u[i].val.call] = u[i].val.key
             /\ u[i].val.key \in Names(u)
             /\ u[i].val.call \in Names(u)
  <2>1. CASE i <= Len(d) /\ u[i] = d[i]
    <3>1. Len(d) \in Nat /\ u \in Seq(Entries)
      BY <1>2 DEF Formed, MergedPrefix
    <3>2. i \in 1 .. Len(d)
      BY <2>1, <3>1
    <3>. QED BY <1>3, <2>1, <3>2 DEF Formed
  <2>2. CASE \E j \in 1 .. Len(e) : u[i] = e[j]
    BY <1>1, <1>3, <2>2 DEF Formed
  <2>. QED BY <1>2, <2>1, <2>2 DEF MergedPrefix
<1>5. Formed(u)
  BY <1>2, <1>4 DEF Formed, MergedPrefix
<1>. QED BY <1>1, <1>2, <1>3, <1>5, MadeNames DEF MergedFrom, u

\* An entry is either one of d whose name e does not mention, or one of e.
LEMMA MergedEntry ==
    ASSUME NEW u, NEW d, NEW e, NEW q, MergedFrom(u, d, e, q), NEW i \in 1 .. Len(u)
    PROVE  \/ /\ i \in 1 .. Len(d) /\ u[i] = d[i]
              /\ u[i].name \notin Names(e)
           \/ \E j \in 1 .. Len(e) : u[i] = e[j]
<1>1. /\ \/ /\ i <= Len(d)
            /\ u[i] = d[i]
            /\ \A j \in 1 .. Len(e) : e[j].name # d[i].name
         \/ \E j \in 1 .. Len(e) : u[i] = e[j]
      /\ u \in Seq(Entries)
  BY DEF MergedFrom, MergedPrefix
<1>2. d \in Seq(Entries) /\ e \in Seq(Entries)
  BY DEF MergedFrom, Formed
<1>3. Len(u) \in Nat /\ Len(d) \in Nat /\ DOMAIN e = 1 .. Len(e)
  BY <1>1, <1>2
<1>. QED BY <1>1, <1>3 DEF Names

\* A request whose newest id stays, and that gets no new entry, stays tracked.
LEMMA StaysTracked ==
    ASSUME NEW u, NEW d, NEW e, NEW q, MergedFrom(u, d, e, q),
           RegistryOK(q), CallsGiven(q.records),
           NEW f, NEW k \in Key, TracksAt(d, f, k),
           f[k] = None <=> q.records[k] = None,
           f[k] # None => q.records[k].call = f[k].call,
           \A n \in Names(e) : Home(n) = k => n \in Names(d)
    PROVE  TracksAt(u, q.records, k)
<1>0. /\ d \in Seq(Entries) /\ u \in Seq(Entries)
      /\ Len(d) \in Nat /\ Len(u) \in Nat /\ Len(d) <= Len(u)
      /\ DOMAIN d = 1 .. Len(d) /\ DOMAIN e = 1 .. Len(e)
      /\ \A i \in 1 .. Len(d) : u[i].name = d[i].name
      /\ \A i, j \in 1 .. Len(u) : u[i].name = u[j].name => i = j
  <2>1. /\ d \in Seq(Entries) /\ e \in Seq(Entries) /\ u \in Seq(Entries)
        /\ Len(d) <= Len(u)
        /\ \A i \in 1 .. Len(d) : u[i].name = d[i].name
        /\ \A i, j \in 1 .. Len(u) : u[i].name = u[j].name => i = j
    BY DEF MergedFrom, MergedPrefix, Formed
  <2>. QED BY <2>1
<1>1. \A i \in 1 .. Len(u) : u[i].val.key = Home(u[i].name)
  BY DEF MergedFrom, Formed
<1>2. \A i \in 1 .. Len(d) : d[i].val.key = Home(d[i].name) /\ i \in 1 .. Len(u)
  BY <1>0 DEF MergedFrom, Formed
<1>3. CASE q.records[k] = None
  <2> SUFFICES ASSUME NEW i \in 1 .. Len(u)
               PROVE  u[i].val.key # k
    BY <1>3 DEF TracksAt
  <2>1. CASE i \in 1 .. Len(d) /\ u[i] = d[i]
    BY <1>3, <2>1 DEF TracksAt
  <2>2. CASE \E j \in 1 .. Len(e) : u[i] = e[j]
    <3>1. u[i].val.key \in RecordedKeys(q)
      BY <2>2, MadeIsFormed DEF MergedFrom
    <3>. QED BY <1>3, <3>1 DEF RecordedKeys
  <2>. QED BY <2>1, <2>2, MergedEntry
<1>4. CASE q.records[k] # None
  <2>1. PICK i \in 1 .. Len(d) :
            /\ d[i] = Entry(f[k].call, f[k])
            /\ f[k].key = k
            /\ \A j \in i + 1 .. Len(d) : d[j].val.key # k
    BY <1>4 DEF TracksAt
  <2>2. /\ d[i].name = q.records[k].call /\ d[i].val.key = k
        /\ u[i].name = q.records[k].call /\ i \in 1 .. Len(u)
        /\ u[i].val.key = k
    BY <1>0, <1>1, <1>2, <1>4, <2>1 DEF Entry
  <2>3. u[i].name \in Names(e)
    BY <1>4, <2>2, MadeIsFormed DEF MergedFrom, RecordedKeys
  <2>4. u[i] = Entry(q.records[k].call, q.records[k]) /\ q.records[k].key = k
    <3>1. PICK j \in 1 .. Len(e) : u[i] = e[j]
      BY <2>2, <2>3, MergedEntry
    <3>2. u[i].val = q.records[k]
      BY <2>2, <3>1, MadeIsFormed DEF MergedFrom
    <3>3. u[i] = Entry(u[i].name, u[i].val)
      BY <2>2, FormedEntry DEF MergedFrom
    <3>. QED BY <2>2, <3>2, <3>3
  <2>5. ASSUME NEW j \in i + 1 .. Len(u), u[j].val.key = k
        PROVE  FALSE
    <3>1. j \in 1 .. Len(u) /\ j # i
      BY <2>2
    <3>2. CASE j <= Len(d)
      <4>1. j \in i + 1 .. Len(d) /\ j \in 1 .. Len(d)
        BY <1>0, <3>1, <3>2
      <4>2. d[j].val.key = k
        BY <1>0, <1>1, <1>2, <2>5, <3>1, <4>1
      <4>. QED BY <2>1, <4>1, <4>2
    <3>3. CASE j > Len(d)
      <4>1. u[j].name \in Names(e)
        <5>1. j \notin 1 .. Len(d)
          BY <1>0, <3>3
        <5>2. \E h \in 1 .. Len(e) : u[j] = e[h]
          BY <3>1, <5>1, MergedEntry
        <5>. QED BY <1>0, <5>2 DEF Names
      <4>2. Home(u[j].name) = k
        BY <1>1, <2>5, <3>1
      <4>3. PICK h \in 1 .. Len(d) : d[h].name = u[j].name
        BY <1>0, <4>1, <4>2 DEF Names
      <4>4. h = j
        BY <1>0, <1>2, <3>1, <4>3
      <4>. QED BY <1>0, <3>3, <4>3, <4>4
    <3>. QED BY <1>0, <3>1, <3>2, <3>3
  <2>. QED BY <1>4, <2>2, <2>4, <2>5 DEF TracksAt
<1>. QED BY <1>3, <1>4

LEMMA LoadedNames ==
    ASSUME NEW d, Formed(d)
    PROVE  /\ RecordedKeys(LoadOrdered(d)) \subseteq Names(d)
           /\ IndexedCalls(LoadOrdered(d)) \subseteq Names(d)
           /\ \A i \in 1 .. Len(d) : d[i].val.key \in RecordedKeys(LoadOrdered(d))
<1> DEFINE r == LoadOrdered(d)
<1>1. LoadedPrefix(r, d, Len(d))
  BY LoadOrderedFacts
<1> HIDE DEF r
<1>2. RecordedKeys(r) \subseteq Names(d)
  BY <1>1 DEF LoadedPrefix, RecordedKeys, Formed
<1>3. IndexedCalls(r) \subseteq Names(d)
  BY <1>1 DEF LoadedPrefix, IndexedCalls, Name, Formed
<1>4. \A i \in 1 .. Len(d) : d[i].val.key \in RecordedKeys(r)
  BY <1>1, FormedEntry DEF LoadedPrefix, RecordedKeys
<1>. QED BY <1>2, <1>3, <1>4 DEF r

\* The dictionary that recording call c with status s makes of d ...
AfterRecord(d, c, s) ==
    ToOrderedDict(RegisterCall(LoadOrdered(d), KeyOf[c], c, s),
                  Insert(KeyOrder(d), KeyOf[c]), Insert(CallOrder(d), c))

\* ... and completing the call named n; both are merged into d.
AfterComplete(d, n, res) ==
    ToOrderedDict(CompleteCall(LoadOrdered(d), n, res), KeyOrder(d), CallOrder(d))

LEMMA RecordMade ==
    ASSUME NEW d, Formed(d), NEW c \in CallId, NEW s \in Status
    PROVE  LET r == LoadOrdered(d)
               q == RegisterCall(r, KeyOf[c], c, s)
               e == AfterRecord(d, c, s)
           IN  /\ RegistryOK(q) /\ CallsGiven(q.records)
               /\ RecordedKeys(q) = RecordedKeys(r) \cup {KeyOf[c]}
               /\ IndexedCalls(q) = IndexedCalls(r) \cup {c}
               /\ q.records[KeyOf[c]].call = c
               /\ \A k \in Key : k # KeyOf[c] => q.records[k] = r.records[k]
               /\ MadeFrom(e, q)
               /\ c \notin Names(d) => e # <<>> /\ e[Len(e)].name = c
<1> DEFINE r == LoadOrdered(d)
           q == RegisterCall(r, KeyOf[c], c, s)
           keys == Insert(KeyOrder(d), KeyOf[c])
           calls == Insert(CallOrder(d), c)
           e == AfterRecord(d, c, s)
<1>1. RegistryOK(r) /\ CallsGiven(r.records)
  BY LoadOrderedOK
<1>2. /\ Lists(KeyOrder(d), RecordedKeys(r))
      /\ Lists(CallOrder(d), IndexedCalls(r))
      /\ IndexedCalls(r) \subseteq Names(d)
  BY OrdersOfLoaded, LoadedNames
<1> HIDE DEF r
<1>3. /\ RegistryOK(q) /\ CallsGiven(q.records)
      /\ RecordedKeys(q) = RecordedKeys(r) \cup {KeyOf[c]}
      /\ IndexedCalls(q) = IndexedCalls(r) \cup {c}
      /\ q.records[KeyOf[c]].call = c
      /\ \A k \in Key : k # KeyOf[c] => q.records[k] = r.records[k]
  BY <1>1, RegisterGiven
<1> HIDE DEF q
<1>4. /\ Lists(keys, RecordedKeys(q))
      /\ Lists(calls, IndexedCalls(q))
      /\ c \notin IndexedCalls(r) => calls = Append(CallOrder(d), c)
  <2>1. Lists(keys, RecordedKeys(r) \cup {KeyOf[c]})
    BY <1>2, InsertLists
  <2>2. Lists(calls, IndexedCalls(r) \cup {c})
    BY <1>2, InsertLists
  <2>3. c \notin IndexedCalls(r) => calls = Append(CallOrder(d), c)
    BY <1>2, InsertLists
  <2> HIDE DEF keys, calls
  <2>. QED BY <1>3, <2>1, <2>2, <2>3
<1>5. e = ToOrderedDict(q, keys, calls)
  BY DEF AfterRecord, q, r
<1> HIDE DEF e, keys, calls
<1>6. /\ MadeFrom(e, q)
      /\ Len(e) = Len(keys) + Len(calls)
      /\ calls # <<>> => e[Len(keys) + Len(calls)].name = calls[Len(calls)]
  <2>1. RegistryOK(q)
    BY <1>3
  <2>2. Lists(keys, RecordedKeys(q)) /\ Lists(calls, IndexedCalls(q))
    BY <1>4
  <2>. QED BY <1>5, <2>1, <2>2, ToOrderedDictFacts
<1>7. ASSUME c \notin Names(d)
      PROVE  e # <<>> /\ e[Len(e)].name = c
  <2>1. calls = Append(CallOrder(d), c) /\ CallOrder(d) \in Seq(IndexedCalls(r))
    BY <1>2, <1>4, <1>7 DEF Lists
  <2>2. calls # <<>> /\ calls[Len(calls)] = c
    BY <2>1
  <2>3. e[Len(e)].name = c
    BY <1>6, <2>2
  <2>4. e # <<>>
    <3>1. keys \in Seq(RecordedKeys(q)) /\ calls \in Seq(IndexedCalls(q))
      BY <1>4 DEF Lists
    <3>2. Len(e) > 0
      BY <1>6, <2>2, <3>1
    <3>. QED BY <3>2
  <2>. QED BY <2>3, <2>4
<1>. QED BY <1>3, <1>6, <1>7 DEF e, q, r

LEMMA CompleteMade ==
    ASSUME NEW d, Formed(d), NEW n \in Name, NEW res \in Result
    PROVE  LET r == LoadOrdered(d)
               q == CompleteCall(r, n, res)
           IN  /\ RegistryOK(q) /\ CallsGiven(q.records)
               /\ RecordedKeys(q) = RecordedKeys(r)
               /\ IndexedCalls(q) = IndexedCalls(r)
               /\ \A k \in RecordedKeys(r) : q.records[k].call = r.records[k].call
               /\ MadeFrom(AfterComplete(d, n, res), q)
<1> DEFINE r == LoadOrdered(d)
           q == CompleteCall(r, n, res)
           e == AfterComplete(d, n, res)
<1>1. RegistryOK(r) /\ CallsGiven(r.records)
  BY LoadOrderedOK
<1>2. /\ Lists(KeyOrder(d), RecordedKeys(r))
      /\ Lists(CallOrder(d), IndexedCalls(r))
  BY OrdersOfLoaded
<1> HIDE DEF r
<1>3. /\ RegistryOK(q) /\ CallsGiven(q.records)
      /\ RecordedKeys(q) = RecordedKeys(r)
      /\ IndexedCalls(q) = IndexedCalls(r)
      /\ \A k \in RecordedKeys(r) : q.records[k].call = r.records[k].call
  BY <1>1, CompleteGiven
<1> HIDE DEF q
<1>4. e = ToOrderedDict(q, KeyOrder(d), CallOrder(d))
  BY DEF AfterComplete, q, r
<1> HIDE DEF e
<1>5. MadeFrom(e, q)
  BY <1>2, <1>3, <1>4, ToOrderedDictFacts
<1>. QED BY <1>3, <1>5 DEF e, q, r

LEMMA TracksSame ==
    ASSUME NEW d, NEW f, NEW g, \A k \in Key : f[k] = g[k], Tracks(d, f)
    PROVE  Tracks(d, g)
<1> SUFFICES ASSUME NEW k \in Key
             PROVE  TracksAt(d, g, k)
  BY DEF Tracks
<1>1. TracksAt(d, f, k) /\ f[k] = g[k]
  BY DEF Tracks
<1>. QED BY <1>1 DEF TracksAt

\* Recording a call under a fresh id: its entry becomes the last.
LEMMA RecordTracks ==
    ASSUME NEW d, Formed(d), NEW g, RegistryOK(g), CallsGiven(g.records),
           Tracks(d, g.records),
           NEW c \in CallId, c \notin Names(d), NEW s \in Status
    PROVE  Tracks(Update(d, AfterRecord(d, c, s)),
                  RegisterCall(g, KeyOf[c], c, s).records)
<1> DEFINE r == LoadOrdered(d)
           q == RegisterCall(r, KeyOf[c], c, s)
           e == AfterRecord(d, c, s)
           u == Update(d, e)
           f == g.records
<1>0. KeyOf[c] \in Key /\ Home(c) = KeyOf[c] /\ Home(KeyOf[c]) = KeyOf[c]
  BY RegistryAssumption DEF Home
<1>1. RegistryOK(r) /\ SameRecords(r, g)
  BY LoadOrderedOK, LoadTracked DEF SameRecords
<1>2. SameRecords(q, RegisterCall(g, KeyOf[c], c, s))
  BY <1>0, <1>1, RegisterSame
<1>3. RecordedKeys(r) \subseteq Names(d) /\ IndexedCalls(r) \subseteq Names(d)
  BY LoadedNames
<1>4. /\ RegistryOK(q) /\ CallsGiven(q.records)
      /\ RecordedKeys(q) = RecordedKeys(r) \cup {KeyOf[c]}
      /\ IndexedCalls(q) = IndexedCalls(r) \cup {c}
      /\ q.records[KeyOf[c]].call = c
      /\ \A k \in Key : k # KeyOf[c] => q.records[k] = r.records[k]
      /\ MadeFrom(e, q)
      /\ e # <<>> /\ e[Len(e)].name = c
  BY RecordMade
<1> HIDE DEF q, r, e
<1>5. MergedFrom(u, d, e, q)
  BY <1>4, UpdateFormed
<1>6. Names(e) = RecordedKeys(q) \cup IndexedCalls(q)
  BY <1>4, MadeNames
<1> HIDE DEF u
<1>7. ASSUME NEW k \in Key, k # KeyOf[c]
      PROVE  TracksAt(u, q.records, k)
  <2>1. q.records[k] = f[k]
    BY <1>1, <1>4, <1>7 DEF SameRecords
  <2>2. \A n \in Names(e) : Home(n) = k => n \in Names(d)
    BY <1>0, <1>3, <1>4, <1>6, <1>7
  <2>3. TracksAt(d, f, k)
    BY DEF Tracks
  <2>. QED BY <1>4, <1>5, <2>1, <2>2, <2>3, StaysTracked
<1>8. TracksAt(u, q.records, KeyOf[c])
  <2> DEFINE k == KeyOf[c]
  <2>1. q.records[k] # None /\ q.records[k].key = k
    BY <1>0, <1>4 DEF RecordedKeys, RegistryOK, RecordsOwnTheirCalls, Recorded
  <2>2. e \in Seq(Entries) /\ Formed(e) /\ Formed(u)
    BY <1>5 DEF MergedFrom, Formed
  <2>3. Len(e) \in 1 .. Len(e) /\ Len(e) > 0
    BY <1>4, <2>2
  <2>4. e[Len(e)] = Entry(c, q.records[k])
    <3>1. e[Len(e)].val = q.records[Home(c)]
      BY <1>4, <2>3 DEF MadeFrom
    <3>. QED BY <1>0, <1>4, <2>2, <2>3, <3>1, FormedEntry
  <2>5. u[Len(u)] = e[Len(e)]
    BY <1>4, <1>5, <2>3 DEF MergedFrom, MergedPrefix
  <2>6. Len(u) \in Nat /\ Len(u) # 0
    <3>1. u \in Seq(Entries)
      BY <2>2 DEF Formed
    <3>2. PICK i \in 1 .. Len(u) : u[i] = e[Len(e)]
      BY <1>5, <2>3 DEF MergedFrom, MergedPrefix
    <3>. QED BY <3>1, <3>2
  <2>7. Len(u) \in 1 .. Len(u) /\ \A j \in Len(u) + 1 .. Len(u) : FALSE
    BY <2>6
  <2>. QED BY <1>4, <2>1, <2>4, <2>5, <2>7 DEF TracksAt
<1>9. Tracks(u, q.records)
  BY <1>7, <1>8 DEF Tracks
<1>10. Tracks(u, RegisterCall(g, KeyOf[c], c, s).records)
  BY <1>2, <1>9, TracksSame DEF SameRecords
<1>. QED BY <1>10 DEF u, e

\* Completing a call by its key or its newest id.
LEMMA CompleteTracks ==
    ASSUME NEW d, Formed(d), NEW g, RegistryOK(g), CallsGiven(g.records),
           Tracks(d, g.records), NEW n \in Name, NEW res \in Result,
           n \in Key \/ \E k \in RecordedKeys(g) : n = g.records[k].call
    PROVE  Tracks(Update(d, AfterComplete(d, n, res)),
                  CompleteCall(g, n, res).records)
<1> DEFINE r == LoadOrdered(d)
           q == CompleteCall(r, n, res)
           e == AfterComplete(d, n, res)
           u == Update(d, e)
           f == g.records
<1>1. RegistryOK(r) /\ SameRecords(g, r)
  BY LoadOrderedOK, LoadTracked DEF SameRecords
<1>2. SameRecords(CompleteCall(g, n, res), q)
  BY <1>1, CompleteSame
<1>3. RecordedKeys(r) \subseteq Names(d) /\ IndexedCalls(r) \subseteq Names(d)
  BY LoadedNames
<1>4. /\ RegistryOK(q) /\ CallsGiven(q.records)
      /\ RecordedKeys(q) = RecordedKeys(r)
      /\ IndexedCalls(q) = IndexedCalls(r)
      /\ \A k \in RecordedKeys(r) : q.records[k].call = r.records[k].call
      /\ MadeFrom(e, q)
  BY CompleteMade
<1> HIDE DEF q, r, e
<1>5. MergedFrom(u, d, e, q)
  BY <1>4, UpdateFormed
<1>6. Names(e) = RecordedKeys(q) \cup IndexedCalls(q)
  BY <1>4, MadeNames
<1> HIDE DEF u
<1>7. ASSUME NEW k \in Key
      PROVE  TracksAt(u, q.records, k)
  <2>1. /\ f[k] = None <=> q.records[k] = None
        /\ f[k] # None => q.records[k].call = f[k].call
    BY <1>1, <1>4 DEF SameRecords, RecordedKeys
  <2>2. \A m \in Names(e) : Home(m) = k => m \in Names(d)
    BY <1>3, <1>4, <1>6
  <2>3. TracksAt(d, f, k)
    BY DEF Tracks
  <2>. QED BY <1>4, <1>5, <2>1, <2>2, <2>3, StaysTracked
<1>8. Tracks(u, q.records)
  BY <1>7 DEF Tracks
<1>9. Tracks(u, CompleteCall(g, n, res).records)
  BY <1>2, <1>8, TracksSame DEF SameRecords
<1>. QED BY <1>9 DEF u, e

-----------------------------------------------------------------------------
(* The newest ids, and what a reconnect makes of them.                       *)

LEMMA NewestSame ==
    ASSUME NEW d, Formed(d), NEW f, NEW g, \A k \in Key : f[k] = g[k], AllNewest(d, f)
    PROVE  AllNewest(d, g)
<1>1. \A i \in 1 .. Len(d) : d[i].val.key \in Key
  BY FormedEntry
<1>. QED BY <1>1 DEF AllNewest

LEMMA NewestMerged ==
    ASSUME NEW u, NEW d, NEW e, NEW q, MergedFrom(u, d, e, q),
           RegistryOK(q), CallsGiven(q.records),
           \A i \in 1 .. Len(d) : d[i].name \notin Names(e) =>
              /\ q.records[d[i].val.key] # None
              /\ d[i].val.call = q.records[d[i].val.key].call
    PROVE  AllNewest(u, q.records)
<1> SUFFICES ASSUME NEW i \in 1 .. Len(u)
             PROVE  /\ q.records[u[i].val.key] # None
                    /\ u[i].val.call = q.records[u[i].val.key].call
  BY DEF AllNewest
<1>1. CASE i \in 1 .. Len(d) /\ u[i] = d[i] /\ u[i].name \notin Names(e)
  BY <1>1
<1>2. CASE \E j \in 1 .. Len(e) : u[i] = e[j]
  <2>1. /\ u[i].val.key \in RecordedKeys(q)
        /\ u[i].val = q.records[u[i].val.key]
    BY <1>2, MadeIsFormed DEF MergedFrom
  <2>. QED BY <2>1 DEF RecordedKeys
<1>. QED BY <1>1, <1>2, MergedEntry

\* A second attempt leaves no entry behind that carries the id of the first.
LEMMA RecordNewest ==
    ASSUME TwoAttempts,
           NEW d, Formed(d), NEW g, RegistryOK(g), CallsGiven(g.records),
           Tracks(d, g.records), AllNewest(d, g.records),
           NEW c \in CallId, c \notin Names(d), NEW s \in Status
    PROVE  AllNewest(Update(d, AfterRecord(d, c, s)),
                     RegisterCall(g, KeyOf[c], c, s).records)
<1> DEFINE r == LoadOrdered(d)
           q == RegisterCall(r, KeyOf[c], c, s)
           e == AfterRecord(d, c, s)
           u == Update(d, e)
           f == g.records
<1>0. KeyOf[c] \in Key
  BY RegistryAssumption
<1>1. RegistryOK(r) /\ SameRecords(r, g)
  BY LoadOrderedOK, LoadTracked DEF SameRecords
<1>2. SameRecords(q, RegisterCall(g, KeyOf[c], c, s))
  BY <1>0, <1>1, RegisterSame
<1>3. LoadedPrefix(r, d, Len(d))
  BY LoadOrderedFacts
<1>4. /\ RegistryOK(q) /\ CallsGiven(q.records)
      /\ RecordedKeys(q) = RecordedKeys(r) \cup {KeyOf[c]}
      /\ IndexedCalls(q) = IndexedCalls(r) \cup {c}
      /\ \A k \in Key : k # KeyOf[c] => q.records[k] = r.records[k]
      /\ MadeFrom(e, q)
  BY RecordMade
<1> HIDE DEF q, r, e
<1>5. MergedFrom(u, d, e, q)
  BY <1>4, UpdateFormed
<1>6. Names(e) = RecordedKeys(q) \cup IndexedCalls(q)
  BY <1>4, MadeNames
<1> HIDE DEF u
<1>7. ASSUME NEW i \in 1 .. Len(d), d[i].name \notin Names(e)
      PROVE  /\ q.records[d[i].val.key] # None
             /\ d[i].val.call = q.records[d[i].val.key].call
  <2> DEFINE k == d[i].val.key
             b == d[i].val.call
  <2>1. /\ d[i].name \in Name /\ k \in Key /\ k = Home(d[i].name)
        /\ b \in CallId /\ b # None /\ KeyOf[b] = k /\ b \in Names(d)
    BY FormedEntry DEF Formed
  <2>2. f[k] # None /\ b = f[k].call
    BY DEF AllNewest
  <2> HIDE DEF k, b
  <2>3. CASE k # KeyOf[c]
    BY <1>1, <1>4, <2>1, <2>2, <2>3 DEF SameRecords, k, b
  <2>4. CASE k = KeyOf[c]
    <3>1. r.index[b] = k /\ k # None
      BY <1>3, <2>1, RegistryAssumption DEF LoadedPrefix, k, b
    <3>2. b \in Names(e) /\ c \in Names(e) /\ k \in Names(e)
      BY <1>4, <1>6, <2>1, <2>4, <3>1 DEF IndexedCalls
    <3>3. /\ d[i].name \in CallId /\ KeyOf[d[i].name] = k
          /\ d[i].name # b /\ d[i].name # c
      BY <1>7, <2>1, <3>2 DEF Home, Name
    <3>4. b # c
      BY <2>1
    <3>. QED BY <2>1, <2>4, <3>3, <3>4 DEF TwoAttempts
  <2>. QED BY <2>3, <2>4
<1>8. AllNewest(u, q.records)
  BY <1>4, <1>5, <1>7, NewestMerged
<1>9. AllNewest(u, RegisterCall(g, KeyOf[c], c, s).records)
  BY <1>2, <1>5, <1>8, NewestSame DEF SameRecords, MergedFrom
<1>. QED BY <1>9 DEF u, e

LEMMA CompleteNewest ==
    ASSUME NEW d, Formed(d), NEW g, RegistryOK(g), CallsGiven(g.records),
           Tracks(d, g.records), AllNewest(d, g.records),
           NEW n \in Name, NEW res \in Result,
           n \in Key \/ \E k \in RecordedKeys(g) : n = g.records[k].call
    PROVE  AllNewest(Update(d, AfterComplete(d, n, res)),
                     CompleteCall(g, n, res).records)
<1> DEFINE r == LoadOrdered(d)
           q == CompleteCall(r, n, res)
           e == AfterComplete(d, n, res)
           u == Update(d, e)
           f == g.records
<1>1. RegistryOK(r) /\ SameRecords(g, r)
  BY LoadOrderedOK, LoadTracked DEF SameRecords
<1>2. SameRecords(CompleteCall(g, n, res), q)
  BY <1>1, CompleteSame
<1>4. /\ RegistryOK(q) /\ CallsGiven(q.records)
      /\ RecordedKeys(q) = RecordedKeys(r)
      /\ \A k \in RecordedKeys(r) : q.records[k].call = r.records[k].call
      /\ MadeFrom(e, q)
  BY CompleteMade
<1> HIDE DEF q, r, e
<1>5. MergedFrom(u, d, e, q)
  BY <1>4, UpdateFormed
<1> HIDE DEF u
<1>7. ASSUME NEW i \in 1 .. Len(d)
      PROVE  /\ q.records[d[i].val.key] # None
             /\ d[i].val.call = q.records[d[i].val.key].call
  <2>1. d[i].val.key \in Key
    BY FormedEntry
  <2>2. f[d[i].val.key] # None /\ d[i].val.call = f[d[i].val.key].call
    BY DEF AllNewest
  <2>. QED BY <1>1, <1>4, <2>1, <2>2 DEF SameRecords, RecordedKeys
<1>8. AllNewest(u, q.records)
  BY <1>4, <1>5, <1>7, NewestMerged
<1>9. AllNewest(u, CompleteCall(g, n, res).records)
  BY <1>2, <1>5, <1>8, NewestSame DEF SameRecords, MergedFrom
<1>. QED BY <1>9 DEF u, e

\* The dictionary a reconnecting client gets: to_dict of what is stored.
AfterResume(d) == ToOrderedDict(LoadOrdered(d), KeyOrder(d), CallOrder(d))

LEMMA ResumeMade ==
    ASSUME NEW d, Formed(d)
    PROVE  /\ MadeFrom(AfterResume(d), LoadOrdered(d))
           /\ Formed(AfterResume(d))
           /\ Names(AfterResume(d)) \subseteq Names(d)
<1> DEFINE r == LoadOrdered(d)
           e == AfterResume(d)
<1>1. RegistryOK(r) /\ CallsGiven(r.records)
  BY LoadOrderedOK
<1>2. /\ Lists(KeyOrder(d), RecordedKeys(r))
      /\ Lists(CallOrder(d), IndexedCalls(r))
  BY OrdersOfLoaded
<1>3. RecordedKeys(r) \subseteq Names(d) /\ IndexedCalls(r) \subseteq Names(d)
  BY LoadedNames
<1>4. e = ToOrderedDict(r, KeyOrder(d), CallOrder(d))
  BY DEF AfterResume
<1> HIDE DEF r, e
<1>5. MadeFrom(e, r)
  BY <1>1, <1>2, <1>4, ToOrderedDictFacts
<1>6. Formed(e)
  BY <1>1, <1>5, MadeIsFormed
<1>7. Names(e) = RecordedKeys(r) \cup IndexedCalls(r)
  BY <1>5, MadeNames
<1>. QED BY <1>3, <1>5, <1>6, <1>7 DEF r, e

\* With nothing but newest ids stored, each request has its key's entry and
\* after it that of its newest id.
LEMMA ResumeTracks ==
    ASSUME NEW d, Formed(d), NEW f, Tracks(d, f), AllNewest(d, f)
    PROVE  Tracks(AfterResume(d), f) /\ AllNewest(AfterResume(d), f)
<1> DEFINE r == LoadOrdered(d)
           e == AfterResume(d)
<1>1. RegistryOK(r) /\ CallsGiven(r.records)
  BY LoadOrderedOK
<1>2. \A k \in Key : r.records[k] = f[k]
  BY LoadTracked
<1>3. LoadedPrefix(r, d, Len(d))
  BY LoadOrderedFacts
<1>4. MadeFrom(e, r) /\ Formed(e)
  BY ResumeMade
<1> HIDE DEF r, e
<1>5. \A i \in 1 .. Len(e) : /\ e[i].val.key \in RecordedKeys(r)
                             /\ e[i].val = r.records[e[i].val.key]
                             /\ e[i].val.key = Home(e[i].name)
                             /\ e[i].name \in RecordedKeys(r) \cup IndexedCalls(r)
                             /\ e[i] = Entry(e[i].name, e[i].val)
  BY <1>1, <1>4, MadeIsFormed, FormedEntry DEF MadeFrom, Formed
<1>6. ASSUME NEW c \in IndexedCalls(r)
      PROVE  c = r.records[KeyOf[c]].call
  <2>1. c \in CallId /\ c \in Name /\ r.index[c] # None
    BY DEF IndexedCalls, Name
  <2>2. PICK i \in 1 .. Len(d) : d[i].val.call = c
    BY <1>3, <2>1 DEF LoadedPrefix
  <2>3. KeyOf[c] = d[i].val.key /\ d[i].val.key \in Key
    BY <2>2, FormedEntry
  <2>. QED BY <1>2, <2>2, <2>3 DEF AllNewest
<1>7. AllNewest(e, r.records)
  BY <1>5 DEF AllNewest, RecordedKeys
<1>8. ASSUME NEW k \in Key, r.records[k] = None
      PROVE  TracksAt(e, r.records, k)
  BY <1>5, <1>8 DEF TracksAt, RecordedKeys
<1>9. ASSUME NEW k \in Key, r.records[k] # None
      PROVE  TracksAt(e, r.records, k)
  <2> DEFINE b == r.records[k].call
  <2>1. b \in CallId /\ r.records[k].key = k /\ b \in Names(e)
    BY <1>1, <1>4, <1>9, MadeIsFormed
       DEF CallsGiven, RegistryOK, RecordsOwnTheirCalls, Recorded, RecordedKeys
  <2>2. e \in Seq(Entries) /\ DOMAIN e = 1 .. Len(e) /\ Len(e) \in Nat
    BY <1>4 DEF Formed
  <2>3. PICK i \in 1 .. Len(e) : e[i].name = b
    BY <2>1, <2>2 DEF Names
  <2>4. b \in IndexedCalls(r) /\ Home(b) = k
    <3>1. b \notin Key
      BY <2>1, RegistryAssumption
    <3>2. b \in IndexedCalls(r)
      BY <1>5, <2>3, <3>1 DEF RecordedKeys
    <3>3. r.index[b] = k
      BY <1>1, <1>9, <2>1, RegistryAssumption
         DEF RegistryOK, RecordsOwnTheirCalls, Recorded
    <3>. QED BY <1>1, <3>2, <3>3, IndexedHome, <2>1
  <2>5. e[i] = Entry(b, r.records[k])
    BY <1>5, <2>3, <2>4
  <2>6. ASSUME NEW j \in i + 1 .. Len(e), e[j].val.key = k
        PROVE  FALSE
    <3>1. j \in 1 .. Len(e) /\ j # i /\ ~ (j < i)
      BY <2>2
    <3>2. CASE e[j].name \in Key
      BY <1>4, <2>1, <2>3, <3>1, <3>2 DEF MadeFrom
    <3>3. CASE e[j].name \in IndexedCalls(r)
      <4>1. e[j].name \in CallId /\ e[j].name \notin Key
        BY <3>3, RegistryAssumption DEF IndexedCalls
      <4>2. KeyOf[e[j].name] = k
        BY <1>5, <2>6, <3>1, <4>1 DEF Home
      <4>3. e[j].name = b
        BY <1>6, <3>3, <4>2
      <4>. QED BY <1>4, <2>3, <3>1, <4>3 DEF Formed
    <3>. QED BY <1>5, <3>1, <3>2, <3>3 DEF RecordedKeys
  <2>. QED BY <1>9, <2>1, <2>5, <2>6 DEF TracksAt
<1>10. Tracks(e, r.records)
  BY <1>8, <1>9 DEF Tracks
<1>11. Tracks(e, f)
  BY <1>2, <1>10, TracksSame
<1>12. AllNewest(e, f)
  BY <1>2, <1>4, <1>7, NewestSame
<1>. QED BY <1>11, <1>12 DEF e

-----------------------------------------------------------------------------
(* The inductive invariant of every host.                                    *)

\* A stored dictionary whose records carry call ids comes back as it is, and
\* only the ids its records carry are indexed.
LEMMA LoadGiven ==
    ASSUME NEW d, DictOK(d), CallsGiven(d)
    PROVE  /\ RegistryOK(LoadFromDict(d))
           /\ \A k \in Key : LoadFromDict(d).records[k] = d[k]
           /\ CallsGiven(LoadFromDict(d).records)
           /\ \A c \in CallId : LoadFromDict(d).index[c] # None =>
                 d[KeyOf[c]] # None /\ d[KeyOf[c]].call = c
<1> DEFINE r == LoadFromDict(d)
<1>1. LoadedFrom(r, d) /\ RegistryOK(r)
  BY LoadFacts, LoadOK
<1> HIDE DEF r
<1>2. ASSUME NEW k \in Key
      PROVE  r.records[k] = d[k]
  <2>1. CASE d[k] = None
    BY <1>1, <2>1 DEF LoadedFrom
  <2>2. CASE d[k] # None
    <3>1. d[k].call \in CallId /\ d[k].call # None /\ CallOf(k, d[k]) = d[k].call
      BY <2>2, RegistryAssumption DEF CallsGiven, CallOf
    <3>2. d[k] \in Record /\ r.records[k] \in Record
      BY <1>1, <2>2 DEF LoadedFrom, DictOK, Dict, Name
    <3>3. d[k].key = k /\ r.records[k].key = k
      BY <1>1, <2>2 DEF LoadedFrom, DictOK, Name, Home
    <3>4. /\ r.records[k].status = d[k].status
          /\ r.records[k].result = d[k].result
          /\ r.records[k].call = d[k].call
      BY <1>1, <2>2, <3>1 DEF LoadedFrom
    <3>. QED BY <3>2, <3>3, <3>4 DEF Record
  <2>. QED BY <2>1, <2>2
<1>3. CallsGiven(r.records)
  BY <1>2 DEF CallsGiven
<1>4. ASSUME NEW c \in CallId, r.index[c] # None
      PROVE  d[KeyOf[c]] # None /\ d[KeyOf[c]].call = c
  <2>1. c \in Name /\ Home(c) = KeyOf[c] /\ KeyOf[c] \in Key
    BY RegistryAssumption DEF Name, Home
  <2>2. d[KeyOf[c]] # None /\ CallOf(KeyOf[c], d[KeyOf[c]]) = c
    BY <1>1, <1>4, <2>1 DEF LoadedFrom
  <2>3. d[KeyOf[c]].call # None
    BY <2>1, <2>2, RegistryAssumption DEF CallsGiven
  <2>. QED BY <2>2, <2>3 DEF CallOf
<1>. QED BY <1>1, <1>2, <1>3, <1>4 DEF r

LEMMA EmptyFormed == Formed(<<>>) /\ Names(<<>>) = {}
<1>1. <<>> \in Seq(Entries) /\ Len(<<>>) = 0 /\ DOMAIN <<>> = {}
  OBVIOUS
<1>. QED BY <1>1 DEF Formed, Names

LEMMA InitFacadeInv == FacadeInit => FacadeInv
<1> SUFFICES ASSUME FacadeInit
             PROVE  FacadeInv
  OBVIOUS
<1>1. IInv
  BY InitIInv DEF FacadeInit
<1>2. reg = EmptyRegistry /\ saved = None /\ minted = {} /\ dict = <<>> /\ savedDict = None
  BY DEF FacadeInit, Init
<1>3. /\ CallsGiven(EmptyRegistry.records)
      /\ \A c \in CallId : EmptyRegistry.index[c] = None
  BY DEF EmptyRegistry, CallsGiven, Name
<1>. QED BY <1>1, <1>2, <1>3, EmptyFormed, FS_EmptySet DEF FacadeInv

LEMMA RecordFacadeInv ==
    ASSUME FacadeInv, NEW c \in CallId, NEW s \in InitialStatus, RecordToolCall(c, s)
    PROVE  FacadeInv'
<1>0. s \in Status /\ KeyOf[c] \in Key /\ RegistryOK(reg) /\ CallsGiven(reg.records)
  BY RecordAssumption, RegistryAssumption DEF FacadeInv, IInv
<1>1. /\ reg' = RegisterCall(reg, KeyOf[c], c, s)
      /\ dict' = Update(dict, AfterRecord(dict, c, s))
      /\ minted' = minted \cup {c}
      /\ saved' = saved /\ savedDict' = savedDict
  BY DEF RecordToolCall, Register, AfterRecord
<1>2. IInv'
  BY NextIInv DEF FacadeInv, RecordToolCall, Next
<1>3. CallsGiven(reg'.records) /\ IndexedCalls(reg') = IndexedCalls(reg) \cup {c}
  BY <1>0, <1>1, RegisterGiven
<1>4. /\ minted' \subseteq CallId /\ IsFiniteSet(minted')
      /\ minted \subseteq minted' /\ c \in minted'
  BY <1>1, FS_AddElement DEF FacadeInv
<1>5. \A b \in CallId : reg'.index[b] # None => b \in minted'
  BY <1>3, <1>4 DEF FacadeInv, IndexedCalls
<1>6. Formed(dict') /\ Names(dict') \cap CallId \subseteq minted'
  <2> DEFINE r == LoadOrdered(dict)
             q == RegisterCall(r, KeyOf[c], c, s)
             e == AfterRecord(dict, c, s)
  <2>1. Formed(dict)
    BY DEF FacadeInv
  <2>2. /\ RegistryOK(q) /\ CallsGiven(q.records)
        /\ IndexedCalls(q) = IndexedCalls(r) \cup {c}
        /\ MadeFrom(e, q)
    BY <1>0, <2>1, RecordMade
  <2>3. IndexedCalls(r) \subseteq Names(dict)
    BY <2>1, LoadedNames
  <2> HIDE DEF r, q, e
  <2>4. /\ Formed(Update(dict, e))
        /\ Names(Update(dict, e)) = Names(dict) \cup RecordedKeys(q) \cup IndexedCalls(q)
    BY <2>1, <2>2, UpdateFormed DEF MergedFrom
  <2>5. RecordedKeys(q) \cap CallId = {}
    BY RegistryAssumption DEF RecordedKeys
  <2>6. (Names(dict) \cup RecordedKeys(q) \cup IndexedCalls(q)) \cap CallId \subseteq minted'
    BY <1>4, <2>2, <2>3, <2>5 DEF FacadeInv
  <2>7. dict' = Update(dict, e)
    BY <1>1 DEF e
  <2>. QED BY <2>4, <2>6, <2>7
<1>7. /\ saved' # None =>
            /\ CallsGiven(saved')
            /\ \A k \in Key : saved'[k] # None => saved'[k].call \in minted'
      /\ savedDict' # None =>
            /\ Formed(savedDict') /\ Names(savedDict') \cap CallId \subseteq minted'
  BY <1>1, <1>4 DEF FacadeInv
<1>. QED BY <1>2, <1>3, <1>4, <1>5, <1>6, <1>7 DEF FacadeInv

LEMMA CompleteFacadeInv ==
    ASSUME FacadeInv, NEW n \in Name, NEW res \in Result, CompleteToolCall(n, res)
    PROVE  FacadeInv'
<1>0. RegistryOK(reg) /\ CallsGiven(reg.records)
  BY DEF FacadeInv, IInv
<1>1. /\ reg' = CompleteCall(reg, n, res)
      /\ dict' = Update(dict, AfterComplete(dict, n, res))
      /\ minted' = minted /\ saved' = saved /\ savedDict' = savedDict
  BY DEF CompleteToolCall, Complete, AfterComplete
<1>2. IInv'
  BY NextIInv DEF FacadeInv, CompleteToolCall, Next
<1>3. CallsGiven(reg'.records) /\ IndexedCalls(reg') = IndexedCalls(reg)
  BY <1>0, <1>1, CompleteGiven
<1>4. \A b \in CallId : reg'.index[b] # None => b \in minted
  BY <1>3 DEF FacadeInv, IndexedCalls
<1>5. Formed(dict') /\ Names(dict') \cap CallId \subseteq minted
  <2> DEFINE r == LoadOrdered(dict)
             q == CompleteCall(r, n, res)
             e == AfterComplete(dict, n, res)
  <2>1. Formed(dict)
    BY DEF FacadeInv
  <2>2. /\ RegistryOK(q) /\ CallsGiven(q.records)
        /\ RecordedKeys(q) = RecordedKeys(r) /\ IndexedCalls(q) = IndexedCalls(r)
        /\ MadeFrom(e, q)
    BY <2>1, CompleteMade
  <2>3. RecordedKeys(r) \subseteq Names(dict) /\ IndexedCalls(r) \subseteq Names(dict)
    BY <2>1, LoadedNames
  <2> HIDE DEF r, q, e
  <2>4. /\ Formed(Update(dict, e))
        /\ Names(Update(dict, e)) = Names(dict) \cup RecordedKeys(q) \cup IndexedCalls(q)
    BY <2>1, <2>2, UpdateFormed DEF MergedFrom
  <2>5. dict' = Update(dict, e)
    BY <1>1 DEF e
  <2>. QED BY <2>2, <2>3, <2>4, <2>5 DEF FacadeInv
<1>. QED BY <1>1, <1>2, <1>3, <1>4, <1>5 DEF FacadeInv

LEMMA CheckpointFacadeInv ==
    ASSUME FacadeInv, FacadeCheckpoint
    PROVE  FacadeInv' /\ \A k \in Key : saved'[k] = reg.records[k]
<1>0. RegistryOK(reg) /\ CallsGiven(reg.records)
  BY DEF FacadeInv, IInv
<1>1. /\ reg' = reg /\ dict' = dict /\ minted' = minted
      /\ saved' = ToDict(reg) /\ savedDict' = dict
  BY DEF FacadeCheckpoint, Checkpoint
<1>2. IInv'
  BY NextIInv DEF FacadeInv, FacadeCheckpoint, Next
<1>3. \A k \in Key : saved'[k] = reg.records[k]
  BY <1>0, <1>1, ToDictOK
<1>4. CallsGiven(saved')
  BY <1>0, <1>3 DEF CallsGiven
<1>5. ASSUME NEW k \in Key, saved'[k] # None
      PROVE  saved'[k].call \in minted
  <2>1. reg.records[k] # None /\ reg.records[k].call \in CallId
    BY <1>0, <1>3, <1>5 DEF CallsGiven
  <2>2. reg.index[reg.records[k].call] = k
    BY <1>0, <2>1, RegistryAssumption DEF RegistryOK, RecordsOwnTheirCalls, Recorded
  <2>. QED BY <1>3, <2>1, <2>2, RegistryAssumption DEF FacadeInv
<1>. QED BY <1>1, <1>2, <1>3, <1>4, <1>5 DEF FacadeInv

LEMMA ResumeFacadeInv ==
    ASSUME FacadeInv, FacadeResume
    PROVE  /\ FacadeInv'
           /\ saved # None => \A k \in Key : reg'.records[k] = saved[k]
<1>1. /\ reg' = IF saved = None THEN EmptyRegistry ELSE LoadFromDict(saved)
      /\ dict' = IF savedDict = None THEN <<>> ELSE AfterResume(savedDict)
      /\ minted' = minted /\ saved' = saved /\ savedDict' = savedDict
  BY DEF FacadeResume, Resume, AfterResume
<1>2. IInv'
  BY NextIInv DEF FacadeInv, FacadeResume, Next
<1>3. Formed(dict') /\ Names(dict') \cap CallId \subseteq minted
  <2>1. CASE savedDict = None
    BY <1>1, <2>1, EmptyFormed
  <2>2. CASE savedDict # None
    BY <1>1, <2>2, ResumeMade DEF FacadeInv
  <2>. QED BY <2>1, <2>2
<1>4. CASE saved = None
  <2>1. /\ CallsGiven(reg'.records)
        /\ \A c \in CallId : reg'.index[c] = None
    BY <1>1, <1>4 DEF EmptyRegistry, CallsGiven, Name
  <2>. QED BY <1>1, <1>2, <1>3, <1>4, <2>1 DEF FacadeInv
<1>5. CASE saved # None
  <2>1. DictOK(saved) /\ CallsGiven(saved)
    BY <1>5 DEF FacadeInv, IInv
  <2>2. /\ CallsGiven(reg'.records)
        /\ \A k \in Key : reg'.records[k] = saved[k]
        /\ \A c \in CallId : reg'.index[c] # None =>
              saved[KeyOf[c]] # None /\ saved[KeyOf[c]].call = c
    BY <1>1, <1>5, <2>1, LoadGiven
  <2>3. \A c \in CallId : reg'.index[c] # None => c \in minted
    BY <1>5, <2>2, RegistryAssumption DEF FacadeInv
  <2>. QED BY <1>1, <1>2, <1>3, <2>2, <2>3 DEF FacadeInv
<1>. QED BY <1>4, <1>5

LEMMA NextFacadeInv == FacadeInv /\ [FacadeNext]_facadeVars => FacadeInv'
<1> SUFFICES ASSUME FacadeInv, [FacadeNext]_facadeVars
             PROVE  FacadeInv'
  OBVIOUS
<1>1. CASE UNCHANGED facadeVars
  <2>1. /\ reg' = reg /\ saved' = saved /\ dict' = dict
        /\ savedDict' = savedDict /\ minted' = minted
    BY <1>1 DEF facadeVars, vars
  <2>2. IInv'
    BY <1>1, NextIInv DEF FacadeInv, facadeVars
  <2>. QED BY <2>1, <2>2 DEF FacadeInv
<1>. QED BY <1>1, RecordFacadeInv, CompleteFacadeInv, CheckpointFacadeInv,
            ResumeFacadeInv DEF FacadeNext

\* Everything a host of either kind holds was recorded in this session.
THEOREM FacadeInvariance == FacadeSpec => []FacadeInv
BY InitFacadeInv, NextFacadeInv, PTL DEF FacadeSpec

-----------------------------------------------------------------------------
(* The inductive invariants of a disciplined host.                           *)

LEMMA EmptyTracks ==
    /\ Tracks(<<>>, EmptyRegistry.records)
    /\ AllNewest(<<>>, EmptyRegistry.records)
<1>1. Len(<<>>) = 0
  OBVIOUS
<1>. QED BY <1>1 DEF EmptyRegistry, Tracks, TracksAt, AllNewest

LEMMA InitTrackInv == FacadeInit => TrackInv /\ NewestInv
BY EmptyTracks DEF FacadeInit, Init, TrackInv, NewestInv

\* A step within a connection: under fresh ids and completions by newest names
\* both dictionaries keep tracking; with two attempts at most, nothing else.
LEMMA StepTrackInv ==
    ASSUME OnlyFreshIds, OnlyNewestName, FacadeInv, TrackInv,
           [FacadeNext /\ ~ FacadeResume]_facadeVars
    PROVE  TrackInv' /\ (TwoAttempts /\ NewestInv => NewestInv')
<1>0. /\ RegistryOK(reg) /\ CallsGiven(reg.records) /\ Formed(dict)
      /\ Tracks(dict, reg.records)
  BY DEF FacadeInv, TrackInv, IInv
<1>1. ASSUME NEW c \in CallId, NEW s \in InitialStatus, RecordToolCall(c, s)
      PROVE  TrackInv' /\ (TwoAttempts /\ NewestInv => NewestInv')
  <2>1. /\ reg' = RegisterCall(reg, KeyOf[c], c, s)
        /\ dict' = Update(dict, AfterRecord(dict, c, s))
        /\ saved' = saved /\ savedDict' = savedDict
        /\ c \notin minted
    BY <1>1 DEF RecordToolCall, Register, AfterRecord
  <2>2. c \notin Names(dict) /\ s \in Status
    BY <2>1, RecordAssumption DEF FacadeInv
  <2>3. Tracks(dict', reg'.records)
    BY <1>0, <2>1, <2>2, RecordTracks
  <2>4. ASSUME TwoAttempts, AllNewest(dict, reg.records)
        PROVE  AllNewest(dict', reg'.records)
    BY <1>0, <2>1, <2>2, <2>4, RecordNewest
  <2>. QED BY <2>1, <2>3, <2>4 DEF TrackInv, NewestInv
<1>2. ASSUME NEW n \in Name, NEW res \in Result, CompleteToolCall(n, res)
      PROVE  TrackInv' /\ (TwoAttempts /\ NewestInv => NewestInv')
  <2>1. /\ reg' = CompleteCall(reg, n, res)
        /\ dict' = Update(dict, AfterComplete(dict, n, res))
        /\ saved' = saved /\ savedDict' = savedDict
        /\ n \in NewestNames
    BY <1>2 DEF CompleteToolCall, Complete, AfterComplete
  <2>2. n \in Key \/ \E k \in RecordedKeys(reg) : n = reg.records[k].call
    BY <2>1 DEF NewestNames, RecordedKeys, Recorded
  <2>3. Tracks(dict', reg'.records)
    BY <1>0, <2>1, <2>2, CompleteTracks
  <2>4. ASSUME AllNewest(dict, reg.records)
        PROVE  AllNewest(dict', reg'.records)
    BY <1>0, <2>1, <2>2, <2>4, CompleteNewest
  <2>. QED BY <2>1, <2>3, <2>4 DEF TrackInv, NewestInv
<1>3. ASSUME FacadeCheckpoint
      PROVE  TrackInv' /\ (TwoAttempts /\ NewestInv => NewestInv')
  <2>1. /\ reg' = reg /\ dict' = dict
        /\ saved' = ToDict(reg) /\ savedDict' = dict
    BY <1>3 DEF FacadeCheckpoint, Checkpoint
  <2>2. saved' # None /\ savedDict' # None
    <3>1. ToDict(reg) \in Dict
      BY <1>0, ToDictOK DEF DictOK
    <3>. QED BY <1>0, <2>1, <3>1, NoneAssumption DEF Formed
  <2>3. \A k \in Key : saved'[k] = reg.records[k]
    BY <1>3, CheckpointFacadeInv
  <2>4. Tracks(savedDict', saved')
    BY <1>0, <2>1, <2>3, TracksSame
  <2>5. AllNewest(dict, reg.records) => AllNewest(savedDict', saved')
    BY <1>0, <2>1, <2>3, NewestSame
  <2>. QED BY <1>0, <2>1, <2>2, <2>4, <2>5 DEF TrackInv, NewestInv
<1>4. CASE UNCHANGED facadeVars
  BY <1>4 DEF facadeVars, vars, TrackInv, NewestInv
<1>. QED BY <1>1, <1>2, <1>3, <1>4 DEF FacadeNext

\* A reconnect keeps the order the newest entries need, as long as no entry
\* carries an older id.
LEMMA ResumeTrackInv ==
    ASSUME FacadeInv, TrackInv, NewestInv, FacadeResume
    PROVE  TrackInv' /\ NewestInv'
<1>1. /\ reg' = IF saved = None THEN EmptyRegistry ELSE LoadFromDict(saved)
      /\ dict' = IF savedDict = None THEN <<>> ELSE AfterResume(savedDict)
      /\ saved' = saved /\ savedDict' = savedDict
  BY DEF FacadeResume, Resume, AfterResume
<1>2. CASE saved = None
  BY <1>1, <1>2, EmptyTracks DEF TrackInv, NewestInv
<1>3. CASE saved # None
  <2>1. /\ savedDict # None /\ Formed(savedDict)
        /\ Tracks(savedDict, saved) /\ AllNewest(savedDict, saved)
    BY <1>3 DEF FacadeInv, TrackInv, NewestInv
  <2>2. \A k \in Key : saved[k] = reg'.records[k]
    BY <1>3, ResumeFacadeInv
  <2>3. Tracks(dict', saved) /\ AllNewest(dict', saved) /\ Formed(dict')
    BY <1>1, <2>1, ResumeTracks, ResumeMade
  <2>4. Tracks(dict', reg'.records) /\ AllNewest(dict', reg'.records)
    BY <2>2, <2>3, TracksSame, NewestSame
  <2>. QED BY <1>1, <2>1, <2>4 DEF TrackInv, NewestInv
<1>. QED BY <1>2, <1>3

LEMMA TrackedAnswers == FacadeInv /\ TrackInv => SameAnswers
<1> SUFFICES ASSUME FacadeInv, TrackInv, NEW c \in CallId
             PROVE  Outcome(Check(LoadOrdered(dict), KeyOf[c], c))
                        = Outcome(Check(reg, KeyOf[c], c))
  BY DEF SameAnswers
<1>1. Formed(dict) /\ RegistryOK(reg) /\ Tracks(dict, reg.records) /\ KeyOf[c] \in Key
  BY RegistryAssumption DEF FacadeInv, TrackInv, IInv
<1>2. RegistryOK(LoadOrdered(dict))
  BY <1>1, LoadOrderedOK
<1>3. LoadOrdered(dict).records[KeyOf[c]] = reg.records[KeyOf[c]]
  BY <1>1, LoadTracked
<1>. QED BY <1>1, <1>2, <1>3, CheckIsRecord

-----------------------------------------------------------------------------
(* What follows.                                                             *)

\* A host that keeps its calls in a dictionary is answered as one that keeps a
\* registry, for any number of requests and reconnects, provided that ids are
\* fresh, calls are completed by key or newest id, and no request is attempted
\* a third time.
THEOREM DictionaryAnswers ==
    ASSUME OnlyFreshIds, OnlyNewestName, TwoAttempts
    PROVE  FacadeSpec => []SameAnswers
<1>1. FacadeInit => FacadeInv /\ TrackInv /\ NewestInv
  BY InitFacadeInv, InitTrackInv
<1>2. FacadeInv /\ TrackInv /\ NewestInv /\ [FacadeNext]_facadeVars
        => (FacadeInv /\ TrackInv /\ NewestInv)'
  <2> SUFFICES ASSUME FacadeInv, TrackInv, NewestInv, [FacadeNext]_facadeVars
               PROVE  FacadeInv' /\ TrackInv' /\ NewestInv'
    OBVIOUS
  <2>1. FacadeInv'
    BY NextFacadeInv
  <2>2. CASE FacadeResume
    BY <2>1, <2>2, ResumeTrackInv
  <2>3. CASE [FacadeNext /\ ~ FacadeResume]_facadeVars
    BY <2>1, <2>3, StepTrackInv
  <2>. QED BY <2>2, <2>3
<1>3. FacadeInv /\ TrackInv => SameAnswers
  BY TrackedAnswers
<1>. QED BY <1>1, <1>2, <1>3, PTL DEF FacadeSpec

\* Until the first reconnect the same holds for any number of attempts: only
\* the order of to_dict, in which a reconnect rebuilds the dictionary, makes a
\* third attempt differ.
THEOREM DictionaryAnswersInOneConnection ==
    ASSUME OnlyFreshIds, OnlyNewestName
    PROVE  FacadeSpec /\ [][~ FacadeResume]_facadeVars => []SameAnswers
<1>1. FacadeInit => FacadeInv /\ TrackInv
  BY InitFacadeInv, InitTrackInv
<1>2. FacadeInv /\ TrackInv /\ [FacadeNext]_facadeVars /\ [~ FacadeResume]_facadeVars
        => (FacadeInv /\ TrackInv)'
  <2> SUFFICES ASSUME FacadeInv, TrackInv, [FacadeNext]_facadeVars,
                      [~ FacadeResume]_facadeVars
               PROVE  FacadeInv' /\ TrackInv'
    OBVIOUS
  <2>1. FacadeInv'
    BY NextFacadeInv
  <2>2. [FacadeNext /\ ~ FacadeResume]_facadeVars
    OBVIOUS
  <2>. QED BY <2>1, <2>2, StepTrackInv
<1>3. FacadeInv /\ TrackInv => SameAnswers
  BY TrackedAnswers
<1>. QED BY <1>1, <1>2, <1>3, PTL DEF FacadeSpec

LEMMA NamesCounted ==
    ASSUME NEW d, Formed(d)
    PROVE  Cardinality(Names(d)) = Len(d)
<1> DEFINE f == [i \in 1 .. Len(d) |-> d[i].name]
<1>1. Len(d) \in Nat /\ DOMAIN d = 1 .. Len(d)
  BY DEF Formed
<1>2. f \in Bijection(1 .. Len(d), Names(d))
  <2>1. f \in [1 .. Len(d) -> Names(d)]
    BY <1>1 DEF Names
  <2>2. IsInjective(f)
    BY DEF IsInjective, Formed
  <2>3. \A n \in Names(d) : \E i \in 1 .. Len(d) : f[i] = n
    BY <1>1 DEF Names
  <2> HIDE DEF f
  <2>. QED BY <2>1, <2>2, <2>3 DEF Bijection, Injection, Surjection
<1>3. IsFiniteSet(1 .. Len(d)) /\ Cardinality(1 .. Len(d)) = Len(d)
  <2>1. 1 \in Int /\ Len(d) \in Int
    BY <1>1
  <2>2. /\ IsFiniteSet(1 .. Len(d))
        /\ Cardinality(1 .. Len(d)) = IF 1 > Len(d) THEN 0 ELSE Len(d) - 1 + 1
    BY <2>1, FS_Interval
  <2>. QED BY <1>1, <2>2
<1>4. ExistsBijection(1 .. Len(d), Names(d))
  BY <1>2 DEF ExistsBijection
<1>. QED BY <1>3, <1>4, FS_Bijection

\* Every dictionary of the host has one entry per name, of the shape the code
\* reads, through all updates and reconnects.
THEOREM FacadeTypeCorrect == FacadeSpec => []FacadeTypeOK
<1>1. FacadeInv => FacadeTypeOK
  <2> SUFFICES ASSUME FacadeInv
               PROVE  FacadeTypeOK
    OBVIOUS
  <2>1. TypeOK
    BY DEF FacadeInv, IInv, RegistryOK, DictOK, TypeOK
  <2>2. ASSUME NEW d, Formed(d)
        PROVE  /\ \A i \in DOMAIN d : d[i] \in Entries
               /\ Cardinality(Names(d)) = Len(d)
    BY <2>2, NamesCounted DEF Formed
  <2>3. Formed(dict) /\ Formed(IF savedDict = None THEN <<>> ELSE savedDict)
    BY EmptyFormed DEF FacadeInv
  <2>4. minted \subseteq CallId
    BY DEF FacadeInv
  <2>. QED BY <2>1, <2>2, <2>3, <2>4 DEF FacadeTypeOK
<1>. QED BY <1>1, FacadeInvariance, PTL

\* The sequences that enumerate a finite set list it.
LEMMA SeqsList ==
    ASSUME NEW S, IsFiniteSet(S), NEW o \in SetToSeqs(S)
    PROVE  Lists(o, S)
<1> DEFINE n == Cardinality(S)
<1>1. n \in Nat
  BY FS_CardinalityType
<1>2. o \in [1 .. n -> S] /\ \A i, j \in 1 .. n : i # j => o[i] # o[j]
  BY DEF SetToSeqs
<1> HIDE DEF n
<1>3. o \in Seq(S) /\ Len(o) = n
  BY <1>1, <1>2
<1>4. o \in Injection(1 .. n, S)
  BY <1>2 DEF Injection, IsInjective
<1>5. Cardinality(1 .. n) = n
  <2>1. 1 \in Int /\ n \in Int
    BY <1>1
  <2>2. Cardinality(1 .. n) = IF 1 > n THEN 0 ELSE n - 1 + 1
    BY <2>1, FS_Interval
  <2>. QED BY <1>1, <2>2
<1>6. Cardinality(1 .. n) = Cardinality(S)
  BY <1>5 DEF n
<1>7. o \in Surjection(1 .. n, S)
  BY <1>4, <1>6, FS_Injection
<1>. QED BY <1>2, <1>3, <1>7 DEF Lists, Surjection

\* Loading what to_dict made of a registry gives, in every order, what loading
\* it without an order gives.
LEMMA OrderImmaterial ==
    ASSUME NEW g, RegistryOK(g), CallsGiven(g.records), NEW e, MadeFrom(e, g)
    PROVE  LoadOrdered(e) = LoadFromDict(ToDict(g))
<1> DEFINE r == LoadOrdered(e)
           d == ToDict(g)
           q == LoadFromDict(d)
<1>0. Formed(e) /\ \A i \in 1 .. Len(e) : /\ e[i].val.key \in RecordedKeys(g)
                                          /\ e[i].val = g.records[e[i].val.key]
  BY MadeIsFormed
<1>1. LoadedPrefix(r, e, Len(e)) /\ r \in Registry
  BY <1>0, LoadOrderedFacts DEF LoadedPrefix
<1>2. DictOK(d) /\ \A k \in Key : d[k] = g.records[k]
  BY ToDictOK
<1>3. CallsGiven(d)
  BY <1>2 DEF CallsGiven
<1>4. LoadedFrom(q, d) /\ q \in Registry /\ \A k \in Key : q.records[k] = d[k]
  BY <1>2, <1>3, LoadFacts, LoadGiven DEF LoadedFrom
<1> HIDE DEF r, d, q
<1>5. ASSUME NEW k \in Key
      PROVE  r.records[k] = g.records[k]
  <2>1. CASE g.records[k] = None
    <3>1. \A i \in 1 .. Len(e) : e[i].val.key # k
      BY <1>0, <2>1 DEF RecordedKeys
    <3>. QED BY <1>1, <2>1, <3>1 DEF LoadedPrefix
  <2>2. CASE g.records[k] # None
    <3>1. k \in RecordedKeys(g)
      BY <2>2 DEF RecordedKeys
    <3>2. k \in Names(e) /\ DOMAIN e = 1 .. Len(e)
      BY <1>0, <3>1 DEF MadeFrom, Formed
    <3>3. PICK i \in 1 .. Len(e) : e[i].name = k
      BY <3>2 DEF Names
    <3>4. e[i].val.key = k
      BY <1>0, <3>3 DEF Formed, Home
    <3>5. r.records[k] # None
      BY <1>1, <3>4 DEF LoadedPrefix
    <3>6. PICK j \in 1 .. Len(e) : e[j].val.key = k /\ e[j].val = r.records[k]
      BY <1>1, <3>5 DEF LoadedPrefix
    <3>. QED BY <1>0, <3>6
  <2>. QED BY <2>1, <2>2
<1>6. ASSUME NEW n \in Name
      PROVE  r.index[n] = q.index[n]
  <2>1. CASE \E i \in 1 .. Len(e) : e[i].val.call = n
    <3>1. PICK i \in 1 .. Len(e) : e[i].val.call = n
      BY <2>1
    <3>2. /\ r.index[n] = e[i].val.key
          /\ e[i].val.key = Home(n) /\ Home(n) \in Key
          /\ n \in CallId /\ n # None
      BY <1>0, <1>1, <3>1, FormedEntry DEF LoadedPrefix
    <3>3. d[Home(n)] # None /\ d[Home(n)].call = n
      BY <1>0, <1>2, <3>1, <3>2 DEF RecordedKeys
    <3>4. q.index[n] = Home(n)
      BY <1>4, <3>2, <3>3 DEF LoadedFrom, CallOf
    <3>. QED BY <3>2, <3>4
  <2>2. CASE ~ \E i \in 1 .. Len(e) : e[i].val.call = n
    <3>1. r.index[n] = None
      BY <1>1, <2>2 DEF LoadedPrefix
    <3>2. ASSUME d[Home(n)] # None, CallOf(Home(n), d[Home(n)]) = n
          PROVE  FALSE
      <4>1. Home(n) \in Key /\ Home(n) \in RecordedKeys(g)
        BY <1>2, <3>2, HomeIsKey DEF RecordedKeys
      <4>2. Home(n) \in Names(e) /\ DOMAIN e = 1 .. Len(e)
        BY <1>0, <4>1 DEF MadeFrom, Formed
      <4>3. PICK i \in 1 .. Len(e) : e[i].name = Home(n)
        BY <4>2 DEF Names
      <4>4. e[i].val.key = Home(n)
        BY <1>0, <4>1, <4>3 DEF Formed, Home
      <4>5. e[i].val = d[Home(n)]
        BY <1>0, <1>2, <4>1, <4>4
      <4>6. CallOf(Home(n), d[Home(n)]) = e[i].val.call
        BY <1>0, <4>5, FormedEntry DEF CallOf
      <4>. QED BY <2>2, <3>2, <4>6
    <3>. QED BY <1>4, <3>1, <3>2 DEF LoadedFrom
  <2>. QED BY <2>1, <2>2
<1>7. \A k \in Key : r.records[k] = q.records[k]
  BY <1>2, <1>4, <1>5
<1>8. r = q
  BY <1>1, <1>4, <1>6, <1>7 DEF Registry
<1>. QED BY <1>8 DEF r, q, d

\* The loading without an order, on which the theorems about the registry rest,
\* is that of the code on every dictionary a host's registry is stored as.
THEOREM LoadOrderIsImmaterial == FacadeSpec => []LoadingAgrees
<1>1. FacadeInv => LoadingAgrees
  <2> DEFINE ks == {k \in Key : Recorded(reg, k)}
             cs == {c \in CallId : reg.index[c] # None}
  <2> SUFFICES ASSUME FacadeInv,
                      NEW keys \in SetToSeqs(ks), NEW calls \in SetToSeqs(cs)
               PROVE  LoadOrdered(ToOrderedDict(reg, keys, calls))
                          = LoadFromDict(ToDict(reg))
    BY DEF LoadingAgrees
  <2>1. RegistryOK(reg) /\ CallsGiven(reg.records)
    BY DEF FacadeInv, IInv
  <2>2. ks = RecordedKeys(reg) /\ cs = IndexedCalls(reg)
    BY DEF RecordedKeys, IndexedCalls, Recorded
  <2> HIDE DEF ks, cs
  <2>3. IsFiniteSet(cs)
    <3>1. cs \in SUBSET minted /\ IsFiniteSet(minted)
      BY DEF FacadeInv, cs
    <3>. QED BY <3>1, FS_Subset
  <2>4. IsFiniteSet(ks)
    <3> DEFINE f == [k \in ks |-> reg.records[k].call]
    <3>1. ASSUME NEW k \in ks
          PROVE  reg.records[k].call \in cs /\ KeyOf[reg.records[k].call] = k
      <4>1. /\ k \in Key /\ reg.records[k] # None /\ k # None
            /\ reg.records[k].call \in CallId /\ reg.records[k].call # None
        BY <2>1, RegistryAssumption DEF ks, Recorded, CallsGiven
      <4>2. reg.index[reg.records[k].call] = k
        BY <2>1, <4>1 DEF RegistryOK, RecordsOwnTheirCalls, Recorded
      <4>3. reg.records[k].call \in IndexedCalls(reg)
        BY <4>1, <4>2 DEF IndexedCalls
      <4>. QED BY <2>1, <2>2, <4>1, <4>2, <4>3, IndexedHome
    <3>2. f \in Injection(ks, cs)
      BY <3>1 DEF Injection, IsInjective
    <3> HIDE DEF f
    <3>. QED BY <2>3, <3>2, FS_Injection
  <2>5. Lists(keys, RecordedKeys(reg)) /\ Lists(calls, IndexedCalls(reg))
    BY <2>2, <2>3, <2>4, SeqsList
  <2> DEFINE e == ToOrderedDict(reg, keys, calls)
  <2>6. MadeFrom(e, reg)
    BY <2>1, <2>5, ToOrderedDictFacts
  <2> HIDE DEF e
  <2>7. LoadOrdered(e) = LoadFromDict(ToDict(reg))
    BY <2>1, <2>6, OrderImmaterial
  <2>. QED BY <2>7 DEF e
<1>. QED BY <1>1, FacadeInvariance, PTL
=============================================================================
