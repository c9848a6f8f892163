------------------------- MODULE SessionMetricsProofs -------------------------
(***************************************************************************)
(* Proofs about SessionMetrics: what an exporter shows, with and without a *)
(* CompositeMetricsExporter, for every set of exporters and of requests and *)
(* every number of operations.                                             *)
(***************************************************************************)
EXTENDS SessionMetrics, FiniteSetTheorems, SequenceTheorems, TLAPS

Counts == [Exporter -> [{"mem", "ext"} -> [Event -> Nat]]]

\* The recursive function of Record.
After(run, fs) ==
    CHOOSE after : after = [i \in 0..Len(run) |->
        IF i = 0 THEN count ELSE Tally(after[i - 1], run[i], fs[i])]

Seen(run) == {run[i] : i \in 1..Len(run)}

\* d is c after the calls for the events of the set seen.
Counted(c, d, seen) ==
    /\ d \in Counts
    /\ \A e \in Exporter, v \in Event :
        /\ d[e].mem[v] = IF e \in used /\ v \in seen THEN c[e].mem[v] + 1
                         ELSE c[e].mem[v]
        /\ \/ d[e].ext[v] = c[e].ext[v]
           \/ e \in used /\ v \in seen /\ d[e].ext[v] = c[e].ext[v] + 1

-----------------------------------------------------------------------------
(* The calls of an operation.                                                *)

\* A record_... call moves its own counter by one, and the backend's only with it.
LEMMA TallyCounts ==
    ASSUME NEW c \in Counts, NEW ev \in Event, NEW bad, backed \subseteq used
    PROVE  Counted(c, Tally(c, ev, bad), {ev})
<1>. DEFINE m == InMemory(c, ev, used)
            d == Tally(c, ev, bad)
<1>1. ASSUME NEW e \in Exporter
      PROVE  /\ m[e] \in [{"mem", "ext"} -> [Event -> Nat]]
             /\ m[e].ext = c[e].ext
             /\ m[e].mem = [c[e].mem EXCEPT ![ev] = Inc(@, e \in used)]
  <2>1. m[e] = [c[e] EXCEPT !.mem[ev] = Inc(@, e \in used)]
    BY DEF InMemory
  <2>2. c[e] \in [{"mem", "ext"} -> [Event -> Nat]]
    BY DEF Counts
  <2>. HIDE DEF m
  <2>. QED BY <2>1, <2>2 DEF Inc
<1>2. m \in Counts
  <2>1. m = [e \in Exporter |-> m[e]]
    BY DEF InMemory
  <2>. HIDE DEF m
  <2>. QED BY <1>1, <2>1 DEF Counts
<1>3. ASSUME NEW e \in Exporter
      PROVE  /\ d[e] \in [{"mem", "ext"} -> [Event -> Nat]]
             /\ d[e].mem = m[e].mem
             /\ d[e].ext = [m[e].ext EXCEPT ![ev] = Inc(@, e \in backed \ bad)]
  <2>1. d[e] = [m[e] EXCEPT !.ext[ev] = Inc(@, e \in backed \ bad)]
    BY DEF Tally, Exported
  <2>2. m[e] \in [{"mem", "ext"} -> [Event -> Nat]]
    BY <1>1
  <2>. HIDE DEF m, d
  <2>. QED BY <2>1, <2>2 DEF Inc
<1>4. d \in Counts
  <2>1. d = [e \in Exporter |-> d[e]]
    BY DEF Tally, Exported
  <2>. HIDE DEF d
  <2>. QED BY <1>3, <2>1 DEF Counts
<1>5. ASSUME NEW e \in Exporter, NEW v \in Event
      PROVE  /\ d[e].mem[v] = IF e \in used /\ v \in {ev} THEN c[e].mem[v] + 1
                              ELSE c[e].mem[v]
             /\ \/ d[e].ext[v] = c[e].ext[v]
                \/ e \in used /\ v \in {ev} /\ d[e].ext[v] = c[e].ext[v] + 1
  <2>. HIDE DEF m, d
  <2>1. c[e].mem \in [Event -> Nat] /\ c[e].ext \in [Event -> Nat]
    BY DEF Counts
  <2>2. d[e].mem = [c[e].mem EXCEPT ![ev] = Inc(@, e \in used)]
    BY <1>1, <1>3
  <2>3. d[e].ext = [c[e].ext EXCEPT ![ev] = Inc(@, e \in backed \ bad)]
    BY <1>1, <1>3
  <2>. QED BY <2>1, <2>2, <2>3 DEF Inc
<1>. QED BY <1>4, <1>5, Zenon DEF Counted

\* Calls for different events add up.
LEMMA CountedTwice ==
    ASSUME NEW c \in Counts, NEW d, NEW f, NEW S, NEW T, S \cap T = {},
           Counted(c, d, S), Counted(d, f, T)
    PROVE  Counted(c, f, S \cup T)
<1>1. d \in Counts /\ f \in Counts
  BY DEF Counted
<1>2. ASSUME NEW e \in Exporter, NEW v \in Event
      PROVE  /\ f[e].mem[v] = IF e \in used /\ v \in S \cup T THEN c[e].mem[v] + 1
                              ELSE c[e].mem[v]
             /\ \/ f[e].ext[v] = c[e].ext[v]
                \/ e \in used /\ v \in S \cup T /\ f[e].ext[v] = c[e].ext[v] + 1
  <2>1. ~ (v \in S /\ v \in T)
    OBVIOUS
  <2>. QED BY <2>1 DEF Counted
<1>. QED BY <1>1, <1>2, Zenon DEF Counted

\* What a single call, and the first of two, leave of the calls of an operation.
LEMMA FirstCalls ==
    ASSUME NEW a, NEW b
    PROVE  /\ SubSeq(<<a>>, 1, 1) = <<a>>
           /\ SubSeq(<<a, b>>, 1, 1) = <<a>>
           /\ SubSeq(<<a, b>>, 1, 2) = <<a, b>>
<1>. DEFINE S == {a, b}
<1>1. <<a>> \in Seq(S) /\ <<a, b>> \in Seq(S)
  OBVIOUS
<1>2. Len(<<a>>) = 1 /\ Len(<<a, b>>) = 2
  OBVIOUS
<1>3. SubSeq(<<a>>, 1, 1) = <<a>> /\ SubSeq(<<a, b>>, 1, 2) = <<a, b>>
  <2>. HIDE DEF S
  <2>1. SubSeq(<<a>>, 1, Len(<<a>>)) = <<a>>
    BY <1>1, SubSeqFull, Zenon
  <2>2. SubSeq(<<a, b>>, 1, Len(<<a, b>>)) = <<a, b>>
    BY <1>1, SubSeqFull, Zenon
  <2>. QED BY <1>2, <2>1, <2>2, Zenon
<1>4. SubSeq(<<a, b>>, 1, 1) = <<a>>
  <2>. DEFINE s == SubSeq(<<a, b>>, 1, 1)
  <2>1. \A i \in 1..1 : <<a, b>>[i] \in S
    OBVIOUS
  <2>2. s \in Seq(S) /\ Len(s) = 1 /\ s[1] = a
    <3>. DEFINE t == <<a, b>>
    <3>1. t[1] = a
      OBVIOUS
    <3>. HIDE DEF S, t
    <3>2. \A i \in 1..1 : t[i] \in S
      BY <2>1 DEF t
    <3>3. /\ SubSeq(t, 1, 1) \in Seq(S)
          /\ Len(SubSeq(t, 1, 1)) = 1
          /\ SubSeq(t, 1, 1)[1] = t[1 + 1 - 1]
      BY <3>2, SubSeqProperties
    <3>. QED BY <3>1, <3>3 DEF t
  <2>. HIDE DEF S, s
  <2>3. s = <<a>>
    BY <2>2
  <2>. QED BY <2>3 DEF s
<1>. QED BY <1>3, <1>4

\* The error call comes last.
LEMMA ErrorCall ==
    ASSUME NEW a, NEW b, NEW error
    PROVE  /\ Append(<<a>>, error) = <<a, error>>
           /\ Append(<<a, b>>, error) = <<a, b, error>>
<1>. DEFINE S == {a, b, error}
<1>1. ASSUME NEW s \in Seq(S)
      PROVE  /\ Append(s, error) \in Seq(S)
             /\ Len(Append(s, error)) = Len(s) + 1
             /\ \A i \in 1..Len(s) : Append(s, error)[i] = s[i]
             /\ Append(s, error)[Len(s) + 1] = error
  <2>1. error \in S
    OBVIOUS
  <2>. HIDE DEF S
  <2>. QED BY <2>1, AppendProperties
<1>2. Append(<<a>>, error) = <<a, error>>
  <2>. DEFINE s == <<a>>
              t == Append(s, error)
  <2>1. s \in Seq(S) /\ Len(s) = 1 /\ s[1] = a
    OBVIOUS
  <2>. HIDE DEF s
  <2>2. t \in Seq(S) /\ Len(t) = 2 /\ t[1] = a /\ t[2] = error
    <3>1. /\ t \in Seq(S) /\ Len(t) = Len(s) + 1 /\ t[Len(s) + 1] = error
          /\ \A i \in 1..Len(s) : t[i] = s[i]
      BY <1>1, <2>1, Zenon
    <3>. HIDE DEF t, S
    <3>. QED BY <2>1, <3>1
  <2>. HIDE DEF t, S
  <2>3. t = <<a, error>>
    BY <2>2
  <2>. QED BY <2>3 DEF s, t
<1>3. Append(<<a, b>>, error) = <<a, b, error>>
  <2>. DEFINE s == <<a, b>>
              t == Append(s, error)
  <2>1. s \in Seq(S) /\ Len(s) = 2 /\ s[1] = a /\ s[2] = b
    OBVIOUS
  <2>. HIDE DEF s
  <2>2. t \in Seq(S) /\ Len(t) = 3 /\ t[1] = a /\ t[2] = b /\ t[3] = error
    BY <1>1, <2>1
  <2>. HIDE DEF t, S
  <2>3. t = <<a, b, error>>
    BY <2>2
  <2>. QED BY <2>3 DEF s, t
<1>. QED BY <1>2, <1>3

\* Without an error, or after it, a single call is made, or it and the error call.
LEMMA CallsOne ==
    ASSUME NEW a, NEW error, NEW fs
    PROVE  Calls(<<a>>, error, fs) =
               IF Raises(fs[1]) /\ error # "none" THEN <<a, error>> ELSE <<a>>
<1>. DEFINE evs == <<a>>
            stop == {i \in 1..Len(evs) : Raises(fs[i])}
            first == CHOOSE i \in stop : \A j \in stop : i <= j
<1>1. 1..Len(evs) = {1}
  OBVIOUS
<1>2. CASE ~ Raises(fs[1])
  <2>1. stop = {}
    BY <1>1, <1>2
  <2>. QED BY <1>2, <2>1 DEF Calls
<1>3. CASE Raises(fs[1])
  <2>1. stop = {1}
    BY <1>1, <1>3
  <2>2. first = 1
    <3>. HIDE DEF stop
    <3>. QED BY <2>1
  <2>3. SubSeq(evs, 1, 1) = <<a>> /\ Append(<<a>>, error) = <<a, error>>
    BY FirstCalls, ErrorCall, Zenon
  <2>4. Calls(evs, error, fs) = IF stop = {} THEN evs
            ELSE IF error = "none" THEN SubSeq(evs, 1, first)
            ELSE Append(SubSeq(evs, 1, first), error)
    BY Zenon DEF Calls
  <2>. HIDE DEF stop, first
  <2>. QED BY <1>3, <2>1, <2>2, <2>3, <2>4
<1>. QED BY <1>2, <1>3

\* Two calls end at the first that raises, and the error call follows it.
LEMMA CallsTwo ==
    ASSUME NEW a, NEW b, NEW error, NEW fs, error # "none"
    PROVE  Calls(<<a, b>>, error, fs) =
               IF Raises(fs[1]) THEN <<a, error>>
               ELSE IF Raises(fs[2]) THEN <<a, b, error>> ELSE <<a, b>>
<1>. DEFINE evs == <<a, b>>
            stop == {i \in 1..Len(evs) : Raises(fs[i])}
            first == CHOOSE i \in stop : \A j \in stop : i <= j
<1>1. 1..Len(evs) = {1, 2}
  OBVIOUS
<1>2. Calls(evs, error, fs) = IF stop = {} THEN evs
          ELSE Append(SubSeq(evs, 1, first), error)
  <2>1. Calls(evs, error, fs) = IF stop = {} THEN evs
            ELSE IF error = "none" THEN SubSeq(evs, 1, first)
            ELSE Append(SubSeq(evs, 1, first), error)
    BY Zenon DEF Calls
  <2>. HIDE DEF stop, first, evs
  <2>. QED BY <2>1
<1>3. /\ SubSeq(evs, 1, 1) = <<a>> /\ Append(<<a>>, error) = <<a, error>>
      /\ SubSeq(evs, 1, 2) = evs /\ Append(evs, error) = <<a, b, error>>
  BY FirstCalls, ErrorCall, Zenon
<1>4. CASE Raises(fs[1])
  <2>1. 1 \in stop /\ \A j \in stop : 1 <= j
    BY <1>1, <1>4
  <2>2. first = 1
    <3>1. stop \subseteq {1, 2}
      BY <1>1
    <3>. HIDE DEF stop
    <3>2. first \in stop /\ \A j \in stop : first <= j
      BY <2>1, Zenon
    <3>. HIDE DEF first
    <3>. QED BY <2>1, <3>1, <3>2
  <2>. HIDE DEF stop, first
  <2>. QED BY <1>2, <1>3, <1>4, <2>1, <2>2
<1>5. CASE ~ Raises(fs[1]) /\ Raises(fs[2])
  <2>1. stop = {2}
    BY <1>1, <1>5
  <2>2. first = 2
    <3>. HIDE DEF stop
    <3>. QED BY <2>1
  <2>. HIDE DEF stop, first
  <2>. QED BY <1>2, <1>3, <1>5, <2>1, <2>2
<1>6. CASE ~ Raises(fs[1]) /\ ~ Raises(fs[2])
  <2>1. stop = {}
    BY <1>1, <1>6
  <2>. QED BY <1>2, <1>6, <2>1
<1>. QED BY <1>4, <1>5, <1>6

\* The recursive function of Record exists, for the runs that operations make.
LEMMA AfterRun ==
    ASSUME NEW run, NEW fs,
           \/ \E a : run = <<a>>
           \/ \E a, b : run = <<a, b>>
           \/ \E a, b, c : run = <<a, b, c>>
    PROVE  After(run, fs) = [i \in 0..Len(run) |->
               IF i = 0 THEN count ELSE Tally(After(run, fs)[i - 1], run[i], fs[i])]
<1>. DEFINE n == Len(run)
            t1 == Tally(count, run[1], fs[1])
            t2 == Tally(t1, run[2], fs[2])
            t3 == Tally(t2, run[3], fs[3])
            g == [i \in 0..n |-> IF i = 0 THEN count ELSE IF i = 1 THEN t1
                                 ELSE IF i = 2 THEN t2 ELSE t3]
            P(after) == after = [i \in 0..Len(run) |->
                IF i = 0 THEN count ELSE Tally(after[i - 1], run[i], fs[i])]
<1>1. n \in 1..3
  OBVIOUS
<1>2. ASSUME NEW i \in 0..n
      PROVE  g[i] = IF i = 0 THEN count ELSE Tally(g[i - 1], run[i], fs[i])
  <2>. HIDE DEF n
  <2>1. i = 0 \/ i = 1 \/ i = 2 \/ i = 3
    BY <1>1
  <2>2. CASE i = 0
    BY <2>2
  <2>3. CASE i = 1
    <3>1. i - 1 = 0 /\ g[0] = count /\ g[i] = t1
      BY <1>1, <2>3
    <3>. HIDE DEF g
    <3>. QED BY <2>3, <3>1
  <2>4. CASE i = 2
    <3>1. i - 1 = 1 /\ g[1] = t1 /\ g[i] = t2
      BY <1>1, <2>4
    <3>. HIDE DEF g, t1
    <3>. QED BY <2>4, <3>1
  <2>5. CASE i = 3
    <3>1. i - 1 = 2 /\ g[2] = t2 /\ g[i] = t3
      BY <1>1, <2>5
    <3>. HIDE DEF g, t2
    <3>. QED BY <2>5, <3>1
  <2>. QED BY <2>1, <2>2, <2>3, <2>4, <2>5
<1>3. P(g)
  BY <1>2, Zenon
<1>4. P(After(run, fs))
  BY <1>3, Zenon DEF After
<1>. QED BY <1>4

\* Not more than three calls raise.
LEMMA UpToThree ==
    ASSUME NEW n \in 1..3, NEW R \in SUBSET (1..n)
    PROVE  /\ Cardinality(R) \in 0..3
           /\ R # {} => Cardinality(R) > 0
           /\ R = {} => Cardinality(R) = 0
<1>1. IsFiniteSet(1..n) /\ Cardinality(1..n) = IF 1 > n THEN 0 ELSE n - 1 + 1
  BY FS_Interval
<1>2. IsFiniteSet(R) /\ Cardinality(R) <= Cardinality(1..n)
  BY <1>1, FS_Subset
<1>3. Cardinality(R) \in Nat
  BY <1>2, FS_CardinalityType
<1>4. Cardinality(R) = 0 <=> R = {}
  BY <1>2, FS_EmptySet
<1>5. Cardinality(1..n) <= 3
  BY <1>1
<1>. DEFINE k == Cardinality(R)
            m == Cardinality(1..n)
<1>6. k \in Nat /\ m \in Nat /\ k <= m /\ m <= 3
  BY <1>1, <1>2, <1>3, <1>5
<1>. HIDE DEF k, m
<1>7. k \in 0..3 /\ (k # 0 => k > 0)
  BY <1>6
<1>. QED BY <1>4, <1>7, Zenon DEF k

\* Recording counts every call of the run, once, and every raise.
LEMMA Recorded ==
    ASSUME NEW evs, NEW error, NEW fs, NEW run, run = Calls(evs, error, fs),
           \/ \E a \in Event : run = <<a>>
           \/ \E a, b \in Event : a # b /\ run = <<a, b>>
           \/ \E a, b, c \in Event : a # b /\ a # c /\ b # c /\ run = <<a, b, c>>,
           count \in Counts, raises \in Nat, backed \subseteq used,
           Record(evs, error, fs)
    PROVE  /\ Counted(count, count', Seen(run))
           /\ raises' \in raises..raises + 3
           /\ \A i \in 1..Len(run) : Raises(fs[i]) => raises' > raises
           /\ (\A i \in 1..Len(run) : ~ Raises(fs[i])) => raises' = raises
<1>. DEFINE A == After(run, fs)
            R == {i \in 1..Len(run) : Raises(fs[i])}
<1>1. count' = A[Len(run)] /\ raises' = raises + Cardinality(R)
  BY DEF Record, After
<1>2. A = [i \in 0..Len(run) |->
           IF i = 0 THEN count ELSE Tally(A[i - 1], run[i], fs[i])]
  BY AfterRun
<1>3. Len(run) \in 1..3
  OBVIOUS
<1>4. Counted(count, count', Seen(run))
  <2>1. A[0] = count /\ A[1] = Tally(count, run[1], fs[1])
    <3>. HIDE DEF A
    <3>1. A[0] = count
      BY <1>2, <1>3
    <3>2. A[1] = Tally(A[1 - 1], run[1], fs[1])
      BY <1>2, <1>3
    <3>. QED BY <3>1, <3>2
  <2>2. CASE \E a \in Event : run = <<a>>
    <3>1. PICK a \in Event : run = <<a>>
      BY <2>2
    <3>2. Len(run) = 1 /\ run[1] = a /\ Seen(run) = {a}
      BY <3>1 DEF Seen
    <3>. QED BY <1>1, <2>1, <3>2, TallyCounts
  <2>3. CASE \E a, b \in Event : a # b /\ run = <<a, b>>
    <3>1. PICK a \in Event, b \in Event : a # b /\ run = <<a, b>>
      BY <2>3
    <3>2. Len(run) = 2 /\ run[1] = a /\ run[2] = b /\ Seen(run) = {a} \cup {b}
      BY <3>1 DEF Seen
    <3>3. A[2] = Tally(A[1], b, fs[2])
      <4>. HIDE DEF A
      <4>1. A[2] = Tally(A[2 - 1], run[2], fs[2])
        BY <1>2, <3>2
      <4>. QED BY <3>2, <4>1
    <3>4. Counted(count, A[1], {a})
      BY <2>1, <3>2, TallyCounts
    <3>5. Counted(A[1], A[2], {b})
      <4>1. A[1] \in Counts
        BY <3>4 DEF Counted
      <4>. QED BY <3>3, <4>1, TallyCounts
    <3>6. Counted(count, A[2], {a} \cup {b})
      <4>. HIDE DEF A
      <4>. QED BY <3>1, <3>4, <3>5, CountedTwice
    <3>. QED BY <1>1, <3>2, <3>6
  <2>4. CASE \E a, b, c \in Event : a # b /\ a # c /\ b # c /\ run = <<a, b, c>>
    <3>1. PICK a \in Event, b \in Event, c \in Event :
              a # b /\ a # c /\ b # c /\ run = <<a, b, c>>
      BY <2>4
    <3>2. /\ Len(run) = 3 /\ run[1] = a /\ run[2] = b /\ run[3] = c
          /\ Seen(run) = ({a} \cup {b}) \cup {c}
      BY <3>1 DEF Seen
    <3>3. A[2] = Tally(A[1], b, fs[2]) /\ A[3] = Tally(A[2], c, fs[3])
      <4>. HIDE DEF A
      <4>1. A[2] = Tally(A[2 - 1], run[2], fs[2])
        BY <1>2, <3>2
      <4>2. A[3] = Tally(A[3 - 1], run[3], fs[3])
        BY <1>2, <3>2
      <4>. QED BY <3>2, <4>1, <4>2
    <3>4. Counted(count, A[1], {a})
      BY <2>1, <3>2, TallyCounts
    <3>5. Counted(A[1], A[2], {b})
      <4>1. A[1] \in Counts
        BY <3>4 DEF Counted
      <4>. QED BY <3>3, <4>1, TallyCounts
    <3>6. Counted(A[2], A[3], {c})
      <4>1. A[2] \in Counts
        BY <3>5 DEF Counted
      <4>. QED BY <3>3, <4>1, TallyCounts
    <3>7. Counted(count, A[3], ({a} \cup {b}) \cup {c})
      <4>. HIDE DEF A
      <4>1. Counted(count, A[2], {a} \cup {b})
        BY <3>1, <3>4, <3>5, CountedTwice
      <4>. QED BY <3>1, <3>6, <4>1, CountedTwice
    <3>. QED BY <1>1, <3>2, <3>7
  <2>. QED BY <2>2, <2>3, <2>4
<1>5. /\ Cardinality(R) \in 0..3
      /\ R # {} => Cardinality(R) > 0
      /\ R = {} => Cardinality(R) = 0
  <2>1. R \in SUBSET (1..Len(run))
    OBVIOUS
  <2>. HIDE DEF R
  <2>. QED BY <1>3, <2>1, UpToThree
<1>8. raises' \in raises..raises + 3
  <2>. HIDE DEF R
  <2>. QED BY <1>1, <1>5
<1>9. ASSUME NEW i \in 1..Len(run), Raises(fs[i])
      PROVE  raises' > raises
  <2>1. Cardinality(R) > 0
    BY <1>5, <1>9
  <2>. HIDE DEF R
  <2>. QED BY <1>1, <1>5, <2>1
<1>10. ASSUME \A i \in 1..Len(run) : ~ Raises(fs[i])
       PROVE  raises' = raises
  <2>1. R = {}
    BY <1>10
  <2>. HIDE DEF R
  <2>. QED BY <1>1, <1>5, <2>1
<1>. QED BY <1>4, <1>5, <1>8, <1>9, <1>10

Quiet(fs) == \A i \in 1..3 : ~ Raises(fs[i])

\* An operation of one call: it is counted, and the error after it only if it raises.
LEMMA OneCall ==
    ASSUME NEW ev \in Event, NEW error \in (Event \ {ev}) \cup {"none"}, NEW fs,
           count \in Counts, raises \in Nat, backed \subseteq used,
           Record(<<ev>>, error, fs)
    PROVE  /\ raises' \in raises..raises + 3
           /\ \/ Counted(count, count', {ev})
              \/ /\ Counted(count, count', {ev, error})
                 /\ error # "none" /\ raises' > raises
           /\ Quiet(fs) => /\ Counted(count, count', {ev})
                           /\ ~ Leaks(<<ev>>, error, fs)
<1>. DEFINE run == Calls(<<ev>>, error, fs)
<1>1. run = IF Raises(fs[1]) /\ error # "none" THEN <<ev, error>> ELSE <<ev>>
  BY CallsOne
<1>2. CASE Raises(fs[1]) /\ error # "none"
  <2>1. run = <<ev, error>> /\ error \in Event /\ ev # error
    BY <1>1, <1>2
  <2>2. /\ Counted(count, count', Seen(run))
        /\ raises' \in raises..raises + 3
        /\ \A i \in 1..Len(run) : Raises(fs[i]) => raises' > raises
    BY <2>1, Recorded
  <2>3. Seen(run) = {ev, error} /\ 1 \in 1..Len(run)
    <3>. HIDE DEF run
    <3>. QED BY <2>1 DEF Seen
  <2>4. ~ Quiet(fs)
    BY <1>2 DEF Quiet
  <2>. HIDE DEF run
  <2>. QED BY <1>2, <2>2, <2>3, <2>4
<1>3. CASE ~ (Raises(fs[1]) /\ error # "none")
  <2>1. run = <<ev>>
    BY <1>1, <1>3
  <2>2. Counted(count, count', Seen(run)) /\ raises' \in raises..raises + 3
    BY <2>1, Recorded
  <2>3. Seen(run) = {ev} /\ Len(run) = 1
    <3>. HIDE DEF run
    <3>. QED BY <2>1 DEF Seen
  <2>4. Quiet(fs) => ~ Leaks(<<ev>>, error, fs)
    <3>. HIDE DEF run
    <3>1. Leaks(<<ev>>, error, fs) <=> Raises(fs[Len(run)])
      BY Zenon DEF Leaks, run
    <3>2. Quiet(fs) => ~ Raises(fs[1])
      BY DEF Quiet
    <3>. QED BY <2>3, <3>1, <3>2, Zenon
  <2>. HIDE DEF run
  <2>. QED BY <2>2, <2>3, <2>4
<1>. QED BY <1>2, <1>3, Zenon

\* An operation of two calls: a call that raises ends it with the error call.
LEMMA TwoCalls ==
    ASSUME NEW a \in Event, NEW b \in Event \ {a}, NEW error \in Event \ {a, b}, NEW fs,
           count \in Counts, raises \in Nat, backed \subseteq used,
           Record(<<a, b>>, error, fs)
    PROVE  /\ raises' \in raises..raises + 3
           /\ \/ Counted(count, count', {a, b})
              \/ Counted(count, count', {a, b, error}) /\ raises' > raises
              \/ Counted(count, count', {a, error}) /\ raises' > raises
           /\ Quiet(fs) => /\ Counted(count, count', {a, b})
                           /\ Calls(<<a, b>>, error, fs) = <<a, b>>
                           /\ ~ Leaks(<<a, b>>, error, fs)
<1>. DEFINE run == Calls(<<a, b>>, error, fs)
<1>1. error # "none" /\ a # b /\ a # error /\ b # error
  BY DEF Event
<1>2. run = IF Raises(fs[1]) THEN <<a, error>>
            ELSE IF Raises(fs[2]) THEN <<a, b, error>> ELSE <<a, b>>
  BY <1>1, CallsTwo
<1>3. CASE Raises(fs[1])
  <2>1. run = <<a, error>>
    BY <1>2, <1>3
  <2>2. /\ Counted(count, count', Seen(run))
        /\ raises' \in raises..raises + 3
        /\ \A i \in 1..Len(run) : Raises(fs[i]) => raises' > raises
    BY <1>1, <2>1, Recorded
  <2>3. Seen(run) = {a, error} /\ 1 \in 1..Len(run)
    <3>. HIDE DEF run
    <3>. QED BY <2>1 DEF Seen
  <2>4. ~ Quiet(fs)
    BY <1>3 DEF Quiet
  <2>. HIDE DEF run
  <2>. QED BY <1>3, <2>2, <2>3, <2>4
<1>4. CASE ~ Raises(fs[1]) /\ Raises(fs[2])
  <2>1. run = <<a, b, error>>
    BY <1>2, <1>4
  <2>2. /\ Counted(count, count', Seen(run))
        /\ raises' \in raises..raises + 3
        /\ \A i \in 1..Len(run) : Raises(fs[i]) => raises' > raises
    BY <1>1, <2>1, Recorded
  <2>3. Seen(run) = {a, b, error} /\ 2 \in 1..Len(run)
    <3>. HIDE DEF run
    <3>. QED BY <2>1 DEF Seen
  <2>4. ~ Quiet(fs)
    BY <1>4 DEF Quiet
  <2>. HIDE DEF run
  <2>. QED BY <1>4, <2>2, <2>3, <2>4
<1>5. CASE ~ Raises(fs[1]) /\ ~ Raises(fs[2])
  <2>1. run = <<a, b>>
    BY <1>2, <1>5
  <2>2. Counted(count, count', Seen(run)) /\ raises' \in raises..raises + 3
    BY <1>1, <2>1, Recorded
  <2>3. Seen(run) = {a, b} /\ Len(run) = 2
    <3>. HIDE DEF run
    <3>. QED BY <2>1 DEF Seen
  <2>4. ~ Leaks(<<a, b>>, error, fs)
    <3>. HIDE DEF run
    <3>1. Leaks(<<a, b>>, error, fs) <=> Raises(fs[Len(run)])
      BY Zenon DEF Leaks, run
    <3>. QED BY <1>5, <2>3, <3>1, Zenon
  <2>5. Calls(<<a, b>>, error, fs) = <<a, b>>
    BY <2>1
  <2>. HIDE DEF run
  <2>. QED BY <2>2, <2>3, <2>4, <2>5
<1>. QED BY <1>3, <1>4, <1>5, Zenon

-----------------------------------------------------------------------------
(* The invariant.                                                            *)

States == {"none", "pending", "completed"}

Inv ==
    /\ used \subseteq Exporter /\ backed \subseteq used
    /\ composite \in BOOLEAN /\ escaped \in BOOLEAN
    /\ count \in Counts /\ times \in Nat /\ raises \in Nat /\ stray \in Nat
    /\ lost \in Nat
    /\ calls \in [Request -> States]
    /\ happened \in [Event -> Nat]
    /\ happened["reconnect"] = happened["resumed"]
    /\ Ops <= MaxOps /\ times <= Ops /\ raises <= 3 * Ops
    /\ \A e \in Exporter, v \in Event :
        count[e].mem[v] <= Ops /\ count[e].ext[v] <= count[e].mem[v]

\* The operations counted bound each event.
LEMMA OpsType ==
    ASSUME happened \in [Event -> Nat], stray \in Nat, lost \in Nat
    PROVE  /\ Ops \in Nat /\ stray <= Ops /\ lost <= Ops
           /\ \A v \in Event \ {"reconnect"} : happened[v] <= Ops
<1>1. \A v \in Event : happened[v] \in Nat
  OBVIOUS
<1>. QED BY <1>1 DEF Ops, Event

\* An event counts as one operation.
LEMMA OpsStep ==
    ASSUME happened \in [Event -> Nat], stray \in Nat, lost \in Nat,
           happened' \in [Event -> Nat], lost' = lost,
           \/ /\ stray' = stray
              /\ \E ev \in Event \ {"reconnect"} : \A v \in Event :
                    happened'[v] = IF v = ev THEN happened[v] + 1 ELSE happened[v]
           \/ stray' = stray + 1 /\ happened' = happened
    PROVE  Ops' = Ops + 1
<1>. DEFINE a == happened["saved"]  b == happened["unsaved"]  c == happened["resumed"]
            d == happened["fresh"]  e == happened["broken"]  f == happened["pending"]
            g == happened["duplicate"]  h == happened["completed"]
            A == happened'["saved"]  B == happened'["unsaved"]  C == happened'["resumed"]
            D == happened'["fresh"]  E == happened'["broken"]  F == happened'["pending"]
            G == happened'["duplicate"]  H == happened'["completed"]
<1>1. /\ a \in Nat /\ b \in Nat /\ c \in Nat /\ d \in Nat
      /\ e \in Nat /\ f \in Nat /\ g \in Nat /\ h \in Nat
  BY DEF Event
<1>2. /\ Ops = a + b + c + d + e + f + g + h + stray + lost
      /\ Ops' = A + B + C + D + E + F + G + H + stray' + lost'
  BY DEF Ops
<1>3. CASE stray' = stray + 1 /\ happened' = happened
  <2>1. /\ A = a /\ B = b /\ C = c /\ D = d /\ E = e /\ F = f /\ G = g /\ H = h
    BY <1>3
  <2>. HIDE DEF a, b, c, d, e, f, g, h, A, B, C, D, E, F, G, H
  <2>. QED BY <1>1, <1>2, <1>3, <2>1
<1>4. ASSUME stray' = stray, NEW ev \in Event \ {"reconnect"}, \A v \in Event :
                happened'[v] = IF v = ev THEN happened[v] + 1 ELSE happened[v]
      PROVE  Ops' = Ops + 1
  <2>. DEFINE one(v) == IF v = ev THEN 1 ELSE 0
  <2>1. \A v \in Event : happened[v] \in Nat /\ happened'[v] = happened[v] + one(v)
    BY <1>4
  <2>2. /\ A = a + one("saved") /\ B = b + one("unsaved") /\ C = c + one("resumed")
        /\ D = d + one("fresh") /\ E = e + one("broken") /\ F = f + one("pending")
        /\ G = g + one("duplicate") /\ H = h + one("completed")
    <3>. HIDE DEF one
    <3>. QED BY <2>1 DEF Event
  <2>3. one("saved") + one("unsaved") + one("resumed") + one("fresh") + one("broken")
        + one("pending") + one("duplicate") + one("completed") = 1
    BY DEF Event
  <2>4. /\ one("saved") \in Int /\ one("unsaved") \in Int /\ one("resumed") \in Int
        /\ one("fresh") \in Int /\ one("broken") \in Int /\ one("pending") \in Int
        /\ one("duplicate") \in Int /\ one("completed") \in Int
    OBVIOUS
  <2>. HIDE DEF a, b, c, d, e, f, g, h, A, B, C, D, E, F, G, H, one
  <2>. QED BY <1>1, <1>2, <1>4, <2>2, <2>3, <2>4
<1>. QED BY <1>3, <1>4

\* An operation counts each of its events once.
LEMMA InvStep ==
    ASSUME Inv, Ops < MaxOps, UNCHANGED config, NEW seen,
           Counted(count, count', seen),
           happened' \in [Event -> Nat], happened'["reconnect"] = happened'["resumed"],
           stray' \in Nat, lost' \in Nat, times' \in {times, times + 1},
           calls' \in [Request -> States], escaped' \in BOOLEAN,
           Ops' = Ops + 1, raises' \in raises..raises + 3, raises' \in Nat
    PROVE  Inv'
<1>1. Ops \in Nat /\ MaxOps \in Nat
  BY OpsType, MetricsAssumption DEF Inv
<1>2. /\ used' \subseteq Exporter /\ backed' \subseteq used'
      /\ composite' \in BOOLEAN
  BY DEF Inv, config
<1>3. count' \in Counts
  BY DEF Counted
<1>4. Ops' <= MaxOps /\ times' <= Ops' /\ raises' <= 3 * Ops' /\ times' \in Nat
  <2>. DEFINE n == Ops
              m == Ops'
  <2>1. /\ n \in Nat /\ MaxOps \in Nat /\ n < MaxOps /\ m = n + 1
        /\ times \in Nat /\ raises \in Nat /\ times <= n /\ raises <= 3 * n
    BY <1>1 DEF Inv
  <2>. HIDE DEF n, m
  <2>2. m <= MaxOps /\ times' <= m /\ times' \in Nat
    BY <2>1
  <2>3. raises' <= raises + 3
    BY <2>1
  <2>4. raises' <= 3 * m
    BY <2>1, <2>3
  <2>. QED BY <2>2, <2>4 DEF m
<1>5. ASSUME NEW e \in Exporter, NEW v \in Event
      PROVE  count'[e].mem[v] <= Ops' /\ count'[e].ext[v] <= count'[e].mem[v]
  <2>1. /\ count[e].mem[v] \in Nat /\ count[e].ext[v] \in Nat
        /\ count[e].mem[v] <= Ops /\ count[e].ext[v] <= count[e].mem[v]
    BY DEF Inv, Counts
  <2>2. /\ count'[e].mem[v] = IF e \in used /\ v \in seen THEN count[e].mem[v] + 1
                              ELSE count[e].mem[v]
        /\ \/ count'[e].ext[v] = count[e].ext[v]
           \/ e \in used /\ v \in seen /\ count'[e].ext[v] = count[e].ext[v] + 1
    BY DEF Counted
  <2>. QED BY <1>1, <2>1, <2>2
<1>. QED BY <1>2, <1>3, <1>4, <1>5 DEF Inv

\* hap is what has happened in a step, seen what the exporters have been told.
Happens(hap) ==
    \A v \in Event : True(v)' = IF v \in hap THEN True(v) + 1 ELSE True(v)

\* What should be counted is a number.
LEMMA TrueType ==
    ASSUME happened \in [Event -> Nat], stray \in Nat, lost \in Nat
    PROVE  \A v \in Event : True(v) \in Nat
BY DEF True

\* What an exporter is told of beyond what has happened is the error of a raise; what
\* it is not told of is a reconnect, then.
Told(seen, hap) ==
    /\ Counted(count, count', seen)
    /\ Happens(hap)
    /\ times' = IF "saved" \in seen THEN times + 1 ELSE times
    /\ raises' \in raises..raises + 3
    /\ \/ seen = hap
       \/ /\ raises' > raises
          /\ \E x \in {"unsaved", "broken"} \ hap :
                \/ seen = hap \cup {x}
                \/ "reconnect" \in hap /\ seen = (hap \ {"reconnect"}) \cup {x}

\* So a step keeps the counters within what has happened and what has raised.
LEMMA OverStep ==
    ASSUME Inv, OverCountsOnly, UNCHANGED config, NEW seen, NEW hap, Told(seen, hap)
    PROVE  OverCountsOnly'
<1>. SUFFICES ASSUME NEW e \in used
              PROVE  /\ times' = count'[e].mem["saved"]
                     /\ \A ev \in Event : count'[e].ext[ev] <= count'[e].mem[ev]
                     /\ \A ev \in Event \ {"reconnect"} : count'[e].mem[ev] >= True(ev)'
                     /\ count'[e].mem["unsaved"] - True("unsaved")'
                        + count'[e].mem["broken"] - True("broken")' <= raises'
                     /\ True("reconnect")' - count'[e].mem["reconnect"] \in 0..raises'
  BY DEF OverCountsOnly, config, True
<1>. DEFINE M(v) == count[e].mem[v]
            M1(v) == count'[e].mem[v]
            X(v) == count[e].ext[v]
            X1(v) == count'[e].ext[v]
            T(v) == True(v)
            T1(v) == True(v)'
            d(v) == IF v \in seen THEN 1 ELSE 0
            h(v) == IF v \in hap THEN 1 ELSE 0
<1>0. PICK r \in 0..3 : raises' = raises + r
  <2>1. raises' \in raises..raises + 3
    BY Zenon DEF Told
  <2>2. raises \in Nat
    BY DEF Inv
  <2>. QED BY <2>1, <2>2
<1>1. /\ e \in Exporter /\ times \in Nat /\ raises \in Nat
      /\ r \in 0..3 /\ raises' = raises + r
  BY <1>0 DEF Inv
<1>2. \A v \in Event : M(v) \in Nat /\ X(v) \in Nat /\ T(v) \in Nat
  <2>1. count \in Counts
    BY DEF Inv
  <2>2. \A v \in Event : True(v) \in Nat
    BY TrueType DEF Inv
  <2>. QED BY <1>1, <2>1, <2>2 DEF Counts
<1>3. \A v \in Event : M1(v) = M(v) + d(v)
  BY <1>1, <1>2 DEF Told, Counted
<1>4. \A v \in Event : X1(v) = X(v) \/ (v \in seen /\ X1(v) = X(v) + 1)
  <2>. TAKE v \in Event
  <2>1. Counted(count, count', seen)
    BY DEF Told
  <2>2. \/ count'[e].ext[v] = count[e].ext[v]
        \/ e \in used /\ v \in seen /\ count'[e].ext[v] = count[e].ext[v] + 1
    BY <1>1, <2>1, Zenon DEF Counted
  <2>. HIDE DEF X, X1
  <2>3. X(v) = count[e].ext[v] /\ X1(v) = count'[e].ext[v]
    BY Zenon DEF X, X1
  <2>. QED BY <2>2, <2>3
<1>5. \A v \in Event : T1(v) = T(v) + h(v)
  BY <1>2 DEF Happens, Told
<1>6. /\ times = M("saved")
      /\ \A v \in Event : X(v) <= M(v)
      /\ \A v \in Event \ {"reconnect"} : M(v) >= T(v)
      /\ M("unsaved") - T("unsaved") + M("broken") - T("broken") <= raises
      /\ T("reconnect") - M("reconnect") \in 0..raises
  BY DEF OverCountsOnly
<1>7. /\ \A v \in Event \ {"reconnect"} : d(v) >= h(v)
      /\ d("unsaved") - h("unsaved") + d("broken") - h("broken") <= r
      /\ h("reconnect") - d("reconnect") \in 0..r
  <2>1. CASE seen = hap
    BY <1>1, <2>1
  <2>2. ASSUME r >= 1, NEW x \in {"unsaved", "broken"} \ hap,
               \/ seen = hap \cup {x}
               \/ "reconnect" \in hap /\ seen = (hap \ {"reconnect"}) \cup {x}
        PROVE  <1>7!1 /\ <1>7!2 /\ <1>7!3
    <3>1. \A v : v # "reconnect" => (v \in seen <=> v \in hap \/ v = x)
      BY <2>2
    <3>2. <1>7!1
      BY <3>1
    <3>4. d("unsaved") - h("unsaved") + d("broken") - h("broken") = 1
      <4>1. CASE x = "unsaved"
        BY <2>2, <3>1, <4>1
      <4>2. CASE x = "broken"
        BY <2>2, <3>1, <4>2
      <4>. QED BY <2>2, <4>1, <4>2
    <3>5. h("reconnect") - d("reconnect") \in {0, 1}
      BY <2>2
    <3>. HIDE DEF d, h
    <3>. QED BY <1>1, <2>2, <3>2, <3>4, <3>5
  <2>3. \/ seen = hap
        \/ /\ r >= 1
           /\ \E x \in {"unsaved", "broken"} \ hap :
                 \/ seen = hap \cup {x}
                 \/ "reconnect" \in hap /\ seen = (hap \ {"reconnect"}) \cup {x}
    <3>1. \/ seen = hap
          \/ /\ raises' > raises
             /\ \E x \in {"unsaved", "broken"} \ hap :
                   \/ seen = hap \cup {x}
                   \/ "reconnect" \in hap /\ seen = (hap \ {"reconnect"}) \cup {x}
      BY Zenon DEF Told
    <3>2. raises' > raises => r >= 1
      BY <1>1
    <3>. QED BY <3>1, <3>2, Zenon
  <2>. QED BY <2>1, <2>2, <2>3
<1>8. "saved" \in Event /\ "unsaved" \in Event /\ "broken" \in Event /\ "reconnect" \in Event
  BY DEF Event
<1>. HIDE DEF M, M1, X, X1, T, T1
<1>9. times' = M1("saved")
  BY <1>2, <1>3, <1>6, <1>8 DEF Told
<1>10. \A v \in Event : X1(v) <= M1(v)
  BY <1>2, <1>3, <1>4, <1>6
<1>11. \A v \in Event \ {"reconnect"} : M1(v) >= T1(v)
  BY <1>2, <1>3, <1>5, <1>6, <1>7
<1>12. M1("unsaved") - T1("unsaved") + M1("broken") - T1("broken") <= raises'
  <2>. HIDE DEF d, h
  <2>1. d("unsaved") \in Int /\ h("unsaved") \in Int /\ d("broken") \in Int /\ h("broken") \in Int
    BY DEF d, h
  <2>. QED BY <1>1, <1>2, <1>3, <1>5, <1>6, <1>7, <1>8, <2>1
<1>13. T1("reconnect") - M1("reconnect") \in 0..raises'
  <2>. HIDE DEF d, h
  <2>1. d("reconnect") \in Int /\ h("reconnect") \in Int
    BY DEF d, h
  <2>. QED BY <1>1, <1>2, <1>3, <1>5, <1>6, <1>7, <1>8, <2>1
<1>. QED BY <1>9, <1>10, <1>11, <1>12, <1>13 DEF M1, X1, T1

\* Where nothing raises the exporters are told of what has happened.
LEMMA IsolatedStep ==
    ASSUME Inv, Isolated, UNCHANGED config, NEW hap, Happens(hap),
           composite \/ backed = {} => Counted(count, count', hap) /\ escaped' = escaped
    PROVE  Isolated'
<1>. SUFFICES ASSUME composite \/ backed = {}
              PROVE  /\ \A e \in used, ev \in Event : count'[e].mem[ev] = True(ev)'
                     /\ ~ escaped'
  BY DEF Isolated, config, True
<1>1. ASSUME NEW e \in used, NEW ev \in Event
      PROVE  count'[e].mem[ev] = True(ev)'
  <2>1. e \in Exporter /\ count[e].mem[ev] = True(ev)
    BY DEF Inv, Isolated
  <2>2. count'[e].mem[ev] = IF ev \in hap THEN count[e].mem[ev] + 1 ELSE count[e].mem[ev]
    BY <2>1 DEF Counted
  <2>3. True(ev)' = IF ev \in hap THEN True(ev) + 1 ELSE True(ev)
    BY DEF Happens
  <2>. QED BY <2>1, <2>2, <2>3
<1>. QED BY <1>1 DEF Isolated

\* A composite, or no backend, lets no error out.
LEMMA NothingRaises ==
    ASSUME NEW fs \in Outcomes, composite \/ backed = {}
    PROVE  Quiet(fs)
BY DEF Outcomes, Quiet, Raises

-----------------------------------------------------------------------------
(* The operations.                                                           *)

\* What an operation has to show.
Good == Inv /\ OverCountsOnly /\ Isolated

\* So a step that tells the exporters of what has happened keeps all three.
LEMMA EventsOf ==
    ASSUME Good, Ops < MaxOps, UNCHANGED config, NEW seen, NEW hap, Told(seen, hap),
           composite \/ backed = {} => seen = hap /\ escaped' = escaped,
           happened' \in [Event -> Nat], happened'["reconnect"] = happened'["resumed"],
           stray' \in Nat, lost' \in Nat, calls' \in [Request -> States],
           escaped' \in BOOLEAN, Ops' = Ops + 1
    PROVE  Good'
<1>1. /\ Counted(count, count', seen) /\ Happens(hap)
      /\ raises' \in raises..raises + 3 /\ times' \in {times, times + 1}
  BY DEF Told
<1>2. raises' \in Nat
  BY <1>1 DEF Good, Inv
<1>3. Inv'
  BY <1>1, <1>2, InvStep, Zenon DEF Good
<1>4. OverCountsOnly'
  BY OverStep, Zenon DEF Good
<1>5. Isolated'
  BY <1>1, IsolatedStep, Zenon DEF Good
<1>. QED BY <1>3, <1>4, <1>5 DEF Good

\* A save tells of its success or its error.
LEMMA SaveContextKeeps ==
    ASSUME Good, Ops < MaxOps, NEW outcome \in {"landed", "lost", "raised"},
           NEW fs \in Outcomes, SaveContext(outcome, fs)
    PROVE  Good'
<1>. DEFINE ev == IF outcome = "raised" THEN "unsaved" ELSE "saved"
            error == IF outcome = "raised" THEN "none" ELSE "unsaved"
<1>1. /\ Record(<<ev>>, error, fs) /\ times' = Inc(times, outcome # "raised")
      /\ escaped' = (escaped \/ Leaks(<<ev>>, error, fs))
      /\ happened' = [happened EXCEPT ![ev] = Inc(@, outcome # "lost")]
      /\ lost' = Inc(lost, outcome = "lost")
      /\ UNCHANGED config /\ calls' = calls /\ stray' = stray
  BY DEF SaveContext
<1>2. /\ ev \in Event /\ error \in (Event \ {ev}) \cup {"none"}
      /\ ev \in {"saved", "unsaved"}
      /\ error # "none" => ev = "saved" /\ error = "unsaved"
      /\ outcome # "raised" <=> ev = "saved"
      /\ outcome = "lost" => ev = "saved"
  BY DEF Event
<1>3. Inv
  BY DEF Good
<1>. HIDE DEF ev, error
<1>4. /\ raises' \in raises..raises + 3
      /\ \/ Counted(count, count', {ev})
         \/ /\ Counted(count, count', {ev, error})
            /\ error # "none" /\ raises' > raises
      /\ Quiet(fs) => /\ Counted(count, count', {ev})
                      /\ ~ Leaks(<<ev>>, error, fs)
  BY <1>1, <1>2, <1>3, OneCall DEF Inv
<1>5. Happens({ev})
  BY <1>1, <1>2, <1>3 DEF Happens, True, Inv, Inc
<1>6. /\ happened' \in [Event -> Nat] /\ happened'["reconnect"] = happened'["resumed"]
      /\ stray' \in Nat /\ lost' \in Nat /\ calls' \in [Request -> States]
      /\ Ops' = Ops + 1
  <2>1. happened \in [Event -> Nat] /\ stray \in Nat /\ lost \in Nat
    BY <1>3 DEF Inv
  <2>2. \A v \in Event : happened[v] \in Nat /\
            happened'[v] = IF v = ev /\ outcome # "lost" THEN happened[v] + 1 ELSE happened[v]
    BY <1>1, <2>1 DEF Inc
  <2>3. Ops' = Ops + 1
    BY <1>1, <1>2, <2>1, <2>2 DEF Ops, Event, Inc
  <2>. QED BY <1>1, <1>2, <1>3, <2>2, <2>3 DEF Inv, Event, Inc
<1>7. escaped' \in BOOLEAN
  BY <1>1, <1>3 DEF Inv, Leaks, Raises
<1>8. CASE Quiet(fs)
  <2>1. Told({ev}, {ev})
    BY <1>1, <1>2, <1>4, <1>5, <1>8 DEF Told, Inc
  <2>2. escaped' = escaped
    BY <1>1, <1>3, <1>4, <1>8 DEF Inv
  <2>. QED BY <1>1, <1>6, <1>7, <2>1, <2>2, EventsOf, Zenon
<1>9. CASE ~ Quiet(fs)
  <2>1. ~ (composite \/ backed = {})
    BY <1>9, NothingRaises
  <2>2. CASE Counted(count, count', {ev})
    <3>1. Told({ev}, {ev})
      BY <1>1, <1>2, <1>4, <1>5, <2>2 DEF Told, Inc
    <3>. QED BY <1>1, <1>6, <1>7, <2>1, <3>1, EventsOf, Zenon
  <2>3. CASE /\ Counted(count, count', {ev, error})
             /\ error # "none" /\ raises' > raises
    <3>1. {ev, error} = {ev} \cup {"unsaved"} /\ "unsaved" \notin {ev}
      BY <1>2, <2>3
    <3>2. Told({ev, error}, {ev})
      BY <1>1, <1>2, <1>4, <1>5, <2>3, <3>1 DEF Told, Inc
    <3>. QED BY <1>1, <1>6, <1>7, <2>1, <3>2, EventsOf, Zenon
  <2>. QED BY <1>4, <2>2, <2>3, Zenon
<1>. QED BY <1>8, <1>9, Zenon

\* A resume tells of the session and of its reconnect, a failure of its error.
LEMMA ResumeOrStartKeeps ==
    ASSUME Good, Ops < MaxOps, NEW ev \in {"resumed", "fresh", "broken"},
           NEW fs \in Outcomes, ResumeOrStart(ev, fs)
    PROVE  Good'
<1>. DEFINE evs == IF ev = "resumed" THEN <<ev, "reconnect">> ELSE <<ev>>
            error == IF ev = "broken" THEN "none" ELSE "broken"
            hap == IF ev = "resumed" THEN {ev, "reconnect"} ELSE {ev}
<1>1. /\ Record(evs, error, fs)
      /\ escaped' = (escaped \/ Calls(evs, error, fs) # evs \/ Leaks(evs, error, fs))
      /\ happened' = [d \in Event |->
             Inc(happened[d], d \in {evs[i] : i \in DOMAIN evs})]
      /\ UNCHANGED config /\ times' = times /\ calls' = calls
      /\ stray' = stray /\ lost' = lost
  BY DEF ResumeOrStart
<1>2. Inv
  BY DEF Good
<1>3. {evs[i] : i \in DOMAIN evs} = hap
  <2>1. CASE ev = "resumed"
    <3>1. DOMAIN evs = {1, 2} /\ evs[1] = ev /\ evs[2] = "reconnect"
      BY <2>1
    <3>. HIDE DEF evs
    <3>. QED BY <2>1, <3>1
  <2>2. CASE ev # "resumed"
    <3>1. DOMAIN evs = {1} /\ evs[1] = ev
      BY <2>2
    <3>. HIDE DEF evs
    <3>. QED BY <2>2, <3>1
  <2>. QED BY <2>1, <2>2
<1>4. hap \subseteq Event /\ "saved" \notin hap
  BY DEF Event
<1>5. \A v \in Event : happened[v] \in Nat /\
          happened'[v] = IF v \in hap THEN happened[v] + 1 ELSE happened[v]
  <2>. HIDE DEF hap, evs
  <2>. QED BY <1>1, <1>2, <1>3 DEF Inv, Inc
<1>6. Happens(hap)
  <2>1. "completed" \notin hap /\ "saved" \notin hap
    OBVIOUS
  <2>. HIDE DEF hap
  <2>. QED BY <1>1, <1>2, <1>5, <2>1 DEF Happens, True, Inv
<1>7. /\ happened' \in [Event -> Nat] /\ happened'["reconnect"] = happened'["resumed"]
      /\ stray' \in Nat /\ lost' \in Nat /\ calls' \in [Request -> States]
      /\ Ops' = Ops + 1
  <2>1. happened' \in [Event -> Nat]
    <3>. HIDE DEF hap, evs
    <3>. QED BY <1>1, <1>5
  <2>2. happened'["reconnect"] = happened'["resumed"]
    <3>1. "reconnect" \in hap <=> "resumed" \in hap
      OBVIOUS
    <3>. HIDE DEF hap
    <3>. QED BY <1>2, <1>5, <3>1 DEF Inv, Event
  <2>3. stray' \in Nat /\ lost' \in Nat /\ calls' \in [Request -> States]
    BY <1>1, <1>2 DEF Inv
  <2>4. Ops' = Ops + 1
    <3>1. stray \in Nat /\ lost \in Nat
      BY <1>2 DEF Inv
    <3>. HIDE DEF evs
    <3>. QED BY <1>1, <1>5, <3>1 DEF Ops, Event
  <2>. QED BY <2>1, <2>2, <2>3, <2>4
<1>8. escaped' \in BOOLEAN
  <2>. HIDE DEF evs
  <2>. QED BY <1>1, <1>2 DEF Inv, Leaks, Raises
<1>9. CASE ev = "resumed"
  <2>1. evs = <<"resumed", "reconnect">> /\ error = "broken" /\ hap = {"resumed", "reconnect"}
    BY <1>9
  <2>. HIDE DEF evs, error, hap
  <2>2. /\ raises' \in raises..raises + 3
        /\ \/ Counted(count, count', {"resumed", "reconnect"})
           \/ Counted(count, count', {"resumed", "reconnect", "broken"}) /\ raises' > raises
           \/ Counted(count, count', {"resumed", "broken"}) /\ raises' > raises
        /\ Quiet(fs) => /\ Counted(count, count', {"resumed", "reconnect"})
                        /\ Calls(evs, error, fs) = evs
                        /\ ~ Leaks(evs, error, fs)
    <3>1. "resumed" \in Event /\ "reconnect" \in Event \ {"resumed"}
          /\ "broken" \in Event \ {"resumed", "reconnect"}
      BY DEF Event
    <3>2. Record(<<"resumed", "reconnect">>, "broken", fs)
      BY <1>1, <2>1
    <3>. QED BY <1>2, <2>1, <3>1, <3>2, TwoCalls DEF Inv
  <2>3. CASE Counted(count, count', hap)
    <3>1. Told(hap, hap)
      BY <1>1, <1>4, <1>6, <2>2, <2>3 DEF Told
    <3>2. composite \/ backed = {} => escaped' = escaped
      BY <1>1, <1>2, <2>2, NothingRaises DEF Inv
    <3>. QED BY <1>1, <1>7, <1>8, <3>1, <3>2, EventsOf, Zenon
  <2>4. CASE ~ Counted(count, count', hap)
    <3>1. ~ (composite \/ backed = {}) /\ raises' > raises
      BY <2>1, <2>2, <2>4, NothingRaises
    <3>2. CASE Counted(count, count', hap \cup {"broken"})
      <4>1. "broken" \notin hap /\ "saved" \notin hap \cup {"broken"}
        BY <2>1
      <4>2. Told(hap \cup {"broken"}, hap)
        BY <1>1, <1>6, <2>2, <3>1, <3>2, <4>1 DEF Told
      <4>. QED BY <1>1, <1>7, <1>8, <3>1, <4>2, EventsOf, Zenon
    <3>3. CASE Counted(count, count', (hap \ {"reconnect"}) \cup {"broken"})
      <4>1. /\ "broken" \notin hap /\ "reconnect" \in hap
            /\ "saved" \notin (hap \ {"reconnect"}) \cup {"broken"}
        BY <2>1
      <4>2. Told((hap \ {"reconnect"}) \cup {"broken"}, hap)
        BY <1>1, <1>6, <2>2, <3>1, <3>3, <4>1 DEF Told
      <4>. QED BY <1>1, <1>7, <1>8, <3>1, <4>2, EventsOf, Zenon
    <3>4. /\ hap \cup {"broken"} = {"resumed", "reconnect", "broken"}
          /\ (hap \ {"reconnect"}) \cup {"broken"} = {"resumed", "broken"}
      BY <2>1
    <3>. QED BY <2>1, <2>2, <2>4, <3>2, <3>3, <3>4, Zenon
  <2>. QED BY <2>3, <2>4, Zenon
<1>10. CASE ev # "resumed"
  <2>1. /\ evs = <<ev>> /\ hap = {ev} /\ ev \in Event
        /\ error \in (Event \ {ev}) \cup {"none"}
        /\ error # "none" => error = "broken" /\ "broken" \notin hap
    BY <1>10 DEF Event
  <2>. HIDE DEF evs, error, hap
  <2>2. /\ raises' \in raises..raises + 3
        /\ \/ Counted(count, count', hap)
           \/ /\ Counted(count, count', hap \cup {"broken"})
              /\ error # "none" /\ raises' > raises
        /\ Quiet(fs) => Counted(count, count', hap) /\ ~ Leaks(evs, error, fs)
    <3>1. Record(<<ev>>, error, fs)
      BY <1>1, <2>1
    <3>2. /\ raises' \in raises..raises + 3
          /\ \/ Counted(count, count', {ev})
             \/ /\ Counted(count, count', {ev, error})
                /\ error # "none" /\ raises' > raises
          /\ Quiet(fs) => /\ Counted(count, count', {ev})
                          /\ ~ Leaks(<<ev>>, error, fs)
      BY <1>2, <2>1, <3>1, OneCall DEF Inv
    <3>3. error # "none" => {ev, error} = hap \cup {"broken"}
      BY <2>1
    <3>. QED BY <2>1, <3>2, <3>3, Zenon
  <2>3. CASE Quiet(fs)
    <3>1. Told(hap, hap)
      BY <1>1, <1>4, <1>6, <2>2, <2>3 DEF Told
    <3>2. Calls(evs, error, fs) = evs
      <4>1. ~ Raises(fs[1])
        BY <2>3 DEF Quiet
      <4>. QED BY <2>1, <4>1, CallsOne
    <3>3. escaped' = escaped
      BY <1>1, <1>2, <2>2, <2>3, <3>2 DEF Inv
    <3>. QED BY <1>1, <1>7, <1>8, <3>1, <3>3, EventsOf, Zenon
  <2>4. CASE ~ Quiet(fs)
    <3>1. ~ (composite \/ backed = {})
      BY <2>4, NothingRaises
    <3>2. CASE Counted(count, count', hap)
      <4>1. Told(hap, hap)
        BY <1>1, <1>4, <1>6, <2>2, <3>2 DEF Told
      <4>. QED BY <1>1, <1>7, <1>8, <3>1, <4>1, EventsOf, Zenon
    <3>3. CASE /\ Counted(count, count', hap \cup {"broken"})
               /\ error # "none" /\ raises' > raises
      <4>1. "broken" \notin hap /\ "saved" \notin hap \cup {"broken"}
        BY <1>4, <2>1, <3>3
      <4>2. Told(hap \cup {"broken"}, hap)
        BY <1>1, <1>6, <2>2, <3>3, <4>1 DEF Told
      <4>. QED BY <1>1, <1>7, <1>8, <3>1, <4>2, EventsOf, Zenon
    <3>. QED BY <2>2, <3>2, <3>3, Zenon
  <2>. QED BY <2>3, <2>4, Zenon
<1>. QED BY <1>9, <1>10, Zenon

\* Another event than these leaves as many reconnects as resumed sessions.
LEMMA Counting ==
    ASSUME happened \in [Event -> Nat], happened["reconnect"] = happened["resumed"],
           NEW ev \in Event \ {"reconnect", "resumed"},
           happened' = [happened EXCEPT ![ev] = @ + 1]
    PROVE  happened' \in [Event -> Nat] /\ happened'["reconnect"] = happened'["resumed"]
<1>1. happened[ev] + 1 \in Nat
  OBVIOUS
<1>. QED BY <1>1 DEF Event

\* The tool methods make one call and have no except clause.
LEMMA ToolKeeps ==
    ASSUME Good, Ops < MaxOps, NEW ev \in {"duplicate", "pending", "completed"},
           NEW fs \in Outcomes, RecordTool(ev, fs), Happens({ev}),
           happened' \in [Event -> Nat], happened'["reconnect"] = happened'["resumed"],
           stray' \in Nat, calls' \in [Request -> States], Ops' = Ops + 1
    PROVE  Good'
<1>1. /\ Record(<<ev>>, "none", fs) /\ lost' = lost
      /\ escaped' = (escaped \/ Leaks(<<ev>>, "none", fs))
      /\ UNCHANGED config /\ times' = times
  BY DEF RecordTool
<1>0. lost' \in Nat
  BY <1>1 DEF Good, Inv
<1>2. Inv /\ ev \in Event /\ "saved" \notin {ev}
  BY DEF Good, Event
<1>3. /\ raises' \in raises..raises + 3
      /\ Counted(count, count', {ev})
      /\ Quiet(fs) => ~ Leaks(<<ev>>, "none", fs)
  <2>1. "none" \in (Event \ {ev}) \cup {"none"}
    OBVIOUS
  <2>2. count \in Counts /\ raises \in Nat /\ backed \subseteq used
    BY <1>2 DEF Inv
  <2>. QED BY <1>1, <1>2, <2>1, <2>2, OneCall, Zenon
<1>4. Told({ev}, {ev})
  BY <1>1, <1>2, <1>3 DEF Told
<1>5. escaped' \in BOOLEAN
  BY <1>1, <1>2 DEF Inv, Leaks, Raises
<1>6. composite \/ backed = {} => escaped' = escaped
  BY <1>1, <1>2, <1>3, NothingRaises DEF Inv
<1>. QED BY <1>0, <1>1, <1>4, <1>5, <1>6, EventsOf, Zenon

\* A duplicate is counted and changes no record.
LEMMA CheckToolKeeps ==
    ASSUME Good, Ops < MaxOps, NEW q \in Request, NEW fs \in Outcomes, CheckTool(q, fs)
    PROVE  Good'
<1>1. /\ RecordTool("duplicate", fs)
      /\ happened' = [happened EXCEPT !["duplicate"] = @ + 1]
      /\ calls' = calls /\ stray' = stray /\ lost' = lost
  BY DEF CheckTool, RecordTool
<1>2. /\ happened \in [Event -> Nat] /\ stray \in Nat /\ lost \in Nat
      /\ calls \in [Request -> States]
      /\ happened["reconnect"] = happened["resumed"]
  BY DEF Good, Inv
<1>3. \A v \in Event : happened[v] \in Nat /\
          happened'[v] = IF v = "duplicate" THEN happened[v] + 1 ELSE happened[v]
  BY <1>1, <1>2
<1>4. Happens({"duplicate"})
  BY <1>1, <1>2, <1>3 DEF Happens, True
<1>5. happened' \in [Event -> Nat] /\ happened'["reconnect"] = happened'["resumed"]
  BY <1>1, <1>2, Counting, Zenon DEF Event
<1>6. Ops' = Ops + 1
  <2>1. "duplicate" \in Event \ {"reconnect"}
    BY DEF Event
  <2>. QED BY <1>1, <1>2, <1>3, <1>5, <2>1, OpsStep
<1>. QED BY <1>1, <1>2, <1>4, <1>5, <1>6, ToolKeeps

\* An attempt is counted, the first and the repeated.
LEMMA RecordToolCallKeeps ==
    ASSUME Good, Ops < MaxOps, NEW q \in Request, NEW fs \in Outcomes,
           RecordToolCall(q, fs)
    PROVE  Good'
<1>1. /\ RecordTool("pending", fs)
      /\ happened' = [happened EXCEPT !["pending"] = @ + 1]
      /\ calls' = [calls EXCEPT ![q] = IF @ = "none" THEN "pending" ELSE @]
      /\ stray' = stray /\ lost' = lost
  BY DEF RecordToolCall, RecordTool
<1>2. /\ happened \in [Event -> Nat] /\ stray \in Nat /\ lost \in Nat
      /\ calls \in [Request -> States]
      /\ happened["reconnect"] = happened["resumed"]
  BY DEF Good, Inv
<1>3. \A v \in Event : happened[v] \in Nat /\
          happened'[v] = IF v = "pending" THEN happened[v] + 1 ELSE happened[v]
  BY <1>1, <1>2
<1>4. Happens({"pending"})
  BY <1>1, <1>2, <1>3 DEF Happens, True
<1>5. happened' \in [Event -> Nat] /\ happened'["reconnect"] = happened'["resumed"]
  BY <1>1, <1>2, Counting, Zenon DEF Event
<1>6. Ops' = Ops + 1
  <2>1. "pending" \in Event \ {"reconnect"}
    BY DEF Event
  <2>. QED BY <1>1, <1>2, <1>3, <1>5, <2>1, OpsStep
<1>7. calls' \in [Request -> States]
  BY <1>1, <1>2 DEF States
<1>. QED BY <1>1, <1>2, <1>4, <1>5, <1>6, <1>7, ToolKeeps

\* A completion is counted, of a request that is known or not.
LEMMA CompleteToolCallKeeps ==
    ASSUME Good, Ops < MaxOps, NEW q \in Request, NEW fs \in Outcomes,
           CompleteToolCall(q, fs)
    PROVE  Good'
<1>1. RecordTool("completed", fs) /\ lost' = lost
  BY DEF CompleteToolCall, RecordTool
<1>2. /\ happened \in [Event -> Nat] /\ stray \in Nat /\ lost \in Nat
      /\ calls \in [Request -> States]
      /\ happened["reconnect"] = happened["resumed"]
  BY DEF Good, Inv
<1>3. CASE calls[q] = "none"
  <2>1. stray' = stray + 1 /\ calls' = calls /\ happened' = happened
    BY <1>3 DEF CompleteToolCall
  <2>2. Happens({"completed"})
    BY <1>1, <1>2, <2>1 DEF Happens, True
  <2>3. Ops' = Ops + 1
    BY <1>1, <1>2, <2>1, OpsStep
  <2>. QED BY <1>1, <1>2, <2>1, <2>2, <2>3, ToolKeeps
<1>4. CASE calls[q] # "none"
  <2>1. /\ calls' = [calls EXCEPT ![q] = "completed"]
        /\ happened' = [happened EXCEPT !["completed"] = @ + 1]
        /\ stray' = stray
    BY <1>4 DEF CompleteToolCall
  <2>2. \A v \in Event : happened[v] \in Nat /\
            happened'[v] = IF v = "completed" THEN happened[v] + 1 ELSE happened[v]
    BY <1>2, <2>1
  <2>3. Happens({"completed"})
    BY <1>1, <1>2, <2>1, <2>2 DEF Happens, True, Event
  <2>4. happened' \in [Event -> Nat] /\ happened'["reconnect"] = happened'["resumed"]
    BY <1>2, <2>1, Counting, Zenon DEF Event
  <2>5. Ops' = Ops + 1
    <3>1. "completed" \in Event \ {"reconnect"}
      BY DEF Event
    <3>. QED BY <1>1, <1>2, <2>1, <2>2, <2>4, <3>1, OpsStep
  <2>6. calls' \in [Request -> States]
    BY <1>2, <2>1 DEF States
  <2>. QED BY <1>1, <1>2, <2>1, <2>3, <2>4, <2>5, <2>6, ToolKeeps
<1>. QED BY <1>3, <1>4, Zenon

\* At the start all is zero.
LEMMA InitGood == Init => Good
<1>. SUFFICES ASSUME Init PROVE Good
  OBVIOUS
<1>1. \A v \in Event : happened[v] = 0
  BY DEF Init, Zero
<1>2. \A e \in Exporter, v \in Event : count[e].mem[v] = 0 /\ count[e].ext[v] = 0
  BY DEF Init, Zero
<1>3. /\ used \subseteq Exporter /\ backed \subseteq used
      /\ composite \in BOOLEAN /\ escaped = FALSE
      /\ times = 0 /\ raises = 0 /\ stray = 0 /\ lost = 0
      /\ calls \in [Request -> States]
  BY DEF Init, States
<1>4. count \in Counts /\ happened \in [Event -> Nat]
  <2>1. Zero \in [Event -> Nat]
    BY DEF Zero
  <2>2. happened = Zero /\ count = [e \in Exporter |-> [mem |-> Zero, ext |-> Zero]]
    BY Zenon DEF Init
  <2>3. [mem |-> Zero, ext |-> Zero] \in [{"mem", "ext"} -> [Event -> Nat]]
    BY <2>1
  <2>. QED BY <2>1, <2>2, <2>3 DEF Counts
<1>5. Ops = 0
  BY <1>1, <1>3 DEF Ops, Event
<1>6. \A v \in Event : True(v) = 0
  BY <1>1, <1>3 DEF True
<1>7. Inv
  <2>1. "reconnect" \in Event /\ "resumed" \in Event
    BY DEF Event
  <2>2. Ops <= MaxOps /\ times <= Ops /\ raises <= 3 * Ops
    BY <1>3, <1>5, MetricsAssumption
  <2>3. \A e \in Exporter, v \in Event :
            count[e].mem[v] <= Ops /\ count[e].ext[v] <= count[e].mem[v]
    BY <1>2, <1>5
  <2>. QED BY <1>1, <1>3, <1>4, <2>1, <2>2, <2>3 DEF Inv
<1>8. OverCountsOnly
  <2>. SUFFICES ASSUME NEW e \in used
                PROVE  /\ times = count[e].mem["saved"]
                       /\ \A ev \in Event : count[e].ext[ev] <= count[e].mem[ev]
                       /\ \A ev \in Event \ {"reconnect"} : count[e].mem[ev] >= True(ev)
                       /\ count[e].mem["unsaved"] - True("unsaved")
                          + count[e].mem["broken"] - True("broken") <= raises
                       /\ True("reconnect") - count[e].mem["reconnect"] \in 0..raises
    BY DEF OverCountsOnly
  <2>1. e \in Exporter
    BY <1>3
  <2>2. /\ "saved" \in Event /\ "unsaved" \in Event /\ "broken" \in Event
        /\ "reconnect" \in Event
    BY DEF Event
  <2>. QED BY <1>2, <1>3, <1>6, <2>1, <2>2
<1>9. Isolated
  BY <1>2, <1>3, <1>6 DEF Isolated
<1>. QED BY <1>7, <1>8, <1>9 DEF Good

\* Every operation keeps the counters in line with what has happened.
LEMMA NextKeeps == Good /\ [Next]_vars => Good'
<1>. SUFFICES ASSUME Good, [Next]_vars PROVE Good'
  OBVIOUS
<1>1. CASE Next
  <2>1. PICK fs \in Outcomes :
            \/ \E outcome \in {"landed", "lost", "raised"} : SaveContext(outcome, fs)
            \/ \E ev \in {"resumed", "fresh", "broken"} : ResumeOrStart(ev, fs)
            \/ \E q \in Request :
                CheckTool(q, fs) \/ RecordToolCall(q, fs) \/ CompleteToolCall(q, fs)
    BY <1>1, Zenon DEF Next
  <2>2. Ops < MaxOps
    BY <1>1, Zenon DEF Next
  <2>. QED BY <2>1, <2>2, SaveContextKeeps, ResumeOrStartKeeps, CheckToolKeeps,
              RecordToolCallKeeps, CompleteToolCallKeeps, Zenon
<1>2. CASE UNCHANGED vars
  BY <1>2 DEF vars, config, Good, Inv, Ops, OverCountsOnly, Isolated, True
<1>. QED BY <1>1, <1>2

\* The counters stay within three for an operation.
LEMMA InvType == Inv => TypeOK
<1>. SUFFICES ASSUME Inv PROVE TypeOK
  OBVIOUS
<1>1. /\ Ops \in Nat /\ Ops <= MaxOps /\ MaxOps \in Nat
      /\ stray <= Ops /\ lost <= Ops
      /\ \A v \in Event \ {"reconnect"} : happened[v] <= Ops
  BY OpsType, MetricsAssumption DEF Inv
<1>2. happened \in [Event -> 0..MaxOps]
  <2>1. happened["resumed"] <= Ops
    BY <1>1 DEF Event
  <2>2. \A v \in Event : happened[v] \in Nat /\ happened[v] <= Ops
    BY <1>1, <2>1 DEF Inv
  <2>3. \A v \in Event : happened[v] \in 0..MaxOps
    BY <1>1, <2>2
  <2>. QED BY <2>3 DEF Inv
<1>3. count \in [Exporter -> [{"mem", "ext"} -> [Event -> 0..3 * MaxOps]]]
  <2>1. ASSUME NEW e \in Exporter, NEW k \in {"mem", "ext"}, NEW v \in Event
        PROVE  count[e][k][v] \in 0..3 * MaxOps
    <3>1. count[e].mem[v] \in Nat /\ count[e].ext[v] \in Nat
      BY DEF Inv, Counts
    <3>2. count[e].mem[v] <= Ops /\ count[e].ext[v] <= count[e].mem[v]
      BY DEF Inv
    <3>3. count[e].mem[v] \in 0..3 * MaxOps /\ count[e].ext[v] \in 0..3 * MaxOps
      BY <1>1, <3>1, <3>2
    <3>. QED BY <3>3
  <2>2. count \in Counts
    BY DEF Inv
  <2>. QED BY <2>1, <2>2 DEF Counts
<1>4. /\ times \in 0..MaxOps /\ stray \in 0..3 * MaxOps
      /\ lost \in 0..3 * MaxOps /\ raises \in 0..3 * MaxOps
  BY <1>1 DEF Inv
<1>. QED BY <1>2, <1>3, <1>4 DEF TypeOK, Inv, States

\* The invariant of every behaviour.
LEMMA AlwaysGood == Spec => []Good
<1>1. Init => Good
  BY InitGood
<1>2. Good /\ [Next]_vars => Good'
  BY NextKeeps
<1>. QED BY <1>1, <1>2, PTL DEF Spec

-----------------------------------------------------------------------------
(* The theorems.                                                             *)

\* The variables have their types, and the counters are bounded by the operations.
THEOREM MetricsTypeCorrect == Spec => []TypeOK
<1>1. Good => TypeOK
  BY InvType DEF Good
<1>. QED BY <1>1, AlwaysGood, PTL

\* Behind a CompositeMetricsExporter, or without a backend, every exporter counts what
\* happened, as the manager can know it (a write the storage failed and swallowed counts
\* as saved), and no error of a backend reaches the host.
THEOREM BackendsIsolated == Spec => []Isolated
<1>1. Good => Isolated
  BY DEF Good
<1>. QED BY <1>1, AlwaysGood, PTL

\* A bare exporter counts an error more for a raise, never anything too little but the
\* reconnect of a session whose resume raised.
THEOREM BareExporterOverCounts == Spec => []OverCountsOnly
<1>1. Good => OverCountsOnly
  BY DEF Good
<1>. QED BY <1>1, AlwaysGood, PTL
=============================================================================
