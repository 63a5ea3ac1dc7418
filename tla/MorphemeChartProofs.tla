------------------------ MODULE MorphemeChartProofs -------------------------
(***************************************************************************)
(* Proofs about MorphemeChart.                                             *)
(***************************************************************************)
EXTENDS MorphemeChart, FiniteSetTheorems, WellFoundedInduction, TLAPS

\* The frames on the stack are visits of different nodes.  The first is the
\* start node's, and the others' nodes are marked FAIL until they return.
Stacked ==
  /\ \A k \in 1 .. Len(stack) :
       IF k = 1 THEN stack[k].node = 0
       ELSE stack[k].node # 0 /\ nodes[stack[k].node].state = "FAIL"
  /\ \A k, l \in 1 .. Len(stack) : stack[k].node = stack[l].node => k = l

\* Only nodes that have succeeded are connected, and only to such nodes.
Settled ==
  /\ nodes[0].state = "SUCCESS"
  /\ \A i \in Ids \ {0} : nodes[i].conn # <<>> <=> nodes[i].state = "SUCCESS"
  /\ \A i \in Ids : \A k \in 1 .. Len(nodes[i].conn) : nodes[nodes[i].conn[k]].state = "SUCCESS"

\* No set of nodes without the start node keeps its connections to itself.
Closed(S) == \A i \in S : \E k \in 1 .. Len(nodes[i].conn) : nodes[i].conn[k] \in S
Acyclic == \A S \in SUBSET (Ids \ {0}) : Closed(S) => S = {}

\* A pass that is about to start may.
Passes ==
  /\ phase = "prefix" => pass = 0
  /\ phase = "pass" => pass < MaxPass

IInv == TypeOK /\ Stacked /\ Settled /\ Acyclic /\ Passes

-----------------------------------------------------------------------------
(* Induction and recursion over a range of numbers *)

\* A set with 0 and with the successor of each of its elements has all.
LEMMA Induction ==
  ASSUME NEW N \in Nat, NEW S, 0 \in S, \A k \in 1 .. N : k - 1 \in S => k \in S
  PROVE  0 .. N \subseteq S
<1> DEFINE T == (0 .. N) \ S
           R == { ss \in Nat \X Nat : ss[1] < ss[2] }
<1>. SUFFICES ASSUME T # {} PROVE FALSE
  OBVIOUS
<1>1. IsWellFoundedOn(R, Nat)
  BY NatLessThanWellFounded DEF OpToRel
<1>2. T \subseteq Nat
  OBVIOUS
<1>3. PICK x \in T : \A y \in T : ~(<<y, x>> \in R)
  <2> HIDE DEF T, R
  <2>. QED
    BY <1>1, <1>2, WFMin
<1>4. x \in 1 .. N /\ x - 1 \in 0 .. N
  OBVIOUS
<1>5. x - 1 \notin T
  <2>1. x \in Nat /\ x - 1 \in Nat /\ x - 1 < x
    BY <1>4
  <2>. QED
    BY <1>3, <2>1
<1>. QED
  BY <1>3, <1>4, <1>5

IsStep(step, N, V) == step \in [V \X (1 .. N) -> V]
IsRun(f, N, V, base, step) ==
  f \in [0 .. N -> V] /\ f[0] = base /\ \A k \in 1 .. N : f[k] = step[<<f[k - 1], k>>]

\* What is defined by recursion exists.
LEMMA Recursion ==
  ASSUME NEW N \in Nat, NEW V, NEW base \in V, NEW step, IsStep(step, N, V)
  PROVE  \E f : IsRun(f, N, V, base, step)
<1> DEFINE Upto(n, f) == /\ f \in [0 .. n -> V]
                         /\ f[0] = base /\ \A k \in 1 .. n : f[k] = step[<<f[k - 1], k>>]
           S == { n \in 0 .. N : \E f \in [0 .. n -> V] : Upto(n, f) }
<1>0. \A k \in 1 .. N, v \in V : step[<<v, k>>] \in V
  BY DEF IsStep
<1>1. 0 \in S
  <2> DEFINE f == [k \in 0 .. 0 |-> base]
  <2>1. f \in [0 .. 0 -> V] /\ Upto(0, f)
    OBVIOUS
  <2> HIDE DEF f, Upto
  <2>. QED
    BY <2>1
<1>2. ASSUME NEW n \in 1 .. N, n - 1 \in S
      PROVE  n \in S
  <2>1. PICK f \in [0 .. (n - 1) -> V] : Upto(n - 1, f)
    BY <1>2
  <2> DEFINE g == [k \in 0 .. n |-> IF k = n THEN step[<<f[n - 1], n>>] ELSE f[k]]
  <2>2. f[n - 1] \in V /\ step[<<f[n - 1], n>>] \in V
    BY <1>0, <2>1
  <2>3. g \in [0 .. n -> V]
    BY <2>1, <2>2
  <2>4. g[0] = base
    BY <2>1
  <2>5. ASSUME NEW k \in 1 .. n
        PROVE  g[k] = step[<<g[k - 1], k>>]
    <3>1. CASE k = n
      <4>1. n \in 0 .. n /\ n - 1 \in 0 .. n /\ n - 1 # n
        OBVIOUS
      <4>2. g[n] = step[<<f[n - 1], n>>] /\ g[n - 1] = f[n - 1]
        BY <4>1
      <4>. QED
        BY <3>1, <4>2
    <3>2. CASE k # n
      <4>1. k \in 1 .. (n - 1)
        BY <3>2
      <4>2. f[k] = step[<<f[k - 1], k>>]
        BY <2>1, <4>1
      <4>3. g[k] = f[k] /\ g[k - 1] = f[k - 1]
        BY <4>1
      <4>. QED
        BY <4>2, <4>3
    <3>. QED
      BY <3>1, <3>2
  <2>6. Upto(n, g)
    BY <2>3, <2>4, <2>5
  <2> HIDE DEF g, Upto
  <2>. QED
    BY <2>3, <2>6
<1>3. 0 .. N \subseteq S
  <2> HIDE DEF S
  <2>. QED
    BY <1>1, <1>2, Induction
<1>4. N \in S
  <2> HIDE DEF S
  <2>. QED
    BY <1>3
<1>. QED
  BY <1>4 DEF IsRun

-----------------------------------------------------------------------------
(* Adding to the chart *)

\* What becomes of the chart while a position is filled: c is the nodes and
\* the list of the position.  What was there stays, what is new is unvisited.
Grown(c) ==
  /\ \E n \in ChartEnd .. MaxChart : c[1] \in [0 .. (n - 1) -> Nodes]
  /\ \A i \in Ids : c[1][i] = nodes[i]
  /\ \A i \in DOMAIN c[1] \ Ids : c[1][i].state = "INCOMPLETE" /\ c[1][i].conn = <<>>
  /\ c[2] \in Seq(DOMAIN c[1]) /\ Len(c[2]) <= MaxMorph

Charts == { c \in (UNION { [0 .. (n - 1) -> Nodes] : n \in 1 .. MaxChart }) \X Seq(Nat) : Grown(c) }

\* The list of the position p goes on with nodes that are new, each of them
\* once.
Listed(c, p) ==
  /\ Len(morphs[p]) <= Len(c[2])
  /\ \A k \in 1 .. Len(c[2]) :
       IF k <= Len(morphs[p]) THEN c[2][k] = morphs[p][k] ELSE c[2][k] \notin Ids
  /\ \A k, l \in 1 .. Len(c[2]) : k > Len(morphs[p]) /\ c[2][k] = c[2][l] => k = l

ChartsAt(p) == { c \in Charts : Listed(c, p) }

\* The caps are numbers.
LEMMA CapsAreNumbers ==
  /\ MaxChart \in Nat \ {0} /\ MaxConn \in Nat \ {0} /\ MaxMorph \in Nat \ {0}
  /\ MaxDepth \in Nat \ {0} /\ MaxPass \in Nat \ {0} /\ MaxCandidates \in Nat \ {0}
  BY ChartAssumption

\* The nodes of a chart of n nodes.
LEMMA EndOfChart ==
  ASSUME NEW n \in Nat, NEW ns \in [0 .. (n - 1) -> Nodes]
  PROVE  Cardinality(DOMAIN ns) = n
<1>1. DOMAIN ns = 0 .. (n - 1)
  OBVIOUS
<1>2. Cardinality(0 .. (n - 1)) = IF 0 <= n - 1 THEN (n - 1) - 0 + 1 ELSE 0
  BY FS_Interval
<1>. QED
  BY <1>1, <1>2

\* A new node of a reading is a node.
LEMMA NewNodeType ==
  ASSUME NEW r \in Readings
  PROVE  NewNode(r) \in Nodes /\ NewNode(r).state = "INCOMPLETE" /\ NewNode(r).conn = <<>>
<1>1. <<>> \in Seq(Nat)
  OBVIOUS
<1>. QED
  BY <1>1 DEF NewNode, Nodes, States, Readings

\* One more node, in the list of the position if that has room.
LEMMA OneMore ==
  ASSUME TypeOK, NEW q \in Positions, NEW c \in ChartsAt(q), NEW r \in Readings,
         Cardinality(DOMAIN c[1]) < MaxChart,
         NEW list, list = c[2] \/ (list = Append(c[2], Cardinality(DOMAIN c[1])) /\ Len(c[2]) < MaxMorph)
  PROVE  << [i \in 0 .. Cardinality(DOMAIN c[1]) |->
                IF i = Cardinality(DOMAIN c[1]) THEN NewNode(r) ELSE c[1][i]], list >> \in ChartsAt(q)
<1>0. c \in Charts /\ Listed(c, q)
  BY DEF ChartsAt
<1>1. PICK n \in ChartEnd .. MaxChart : c[1] \in [0 .. (n - 1) -> Nodes]
  BY <1>0 DEF Charts, Grown
<1>2. n \in Nat /\ n \in 1 .. MaxChart /\ Cardinality(DOMAIN c[1]) = n /\ n < MaxChart /\ ChartEnd <= n
  <2>1. n \in Nat /\ n >= 1 /\ n <= MaxChart /\ ChartEnd <= n
    BY <1>1, CapsAreNumbers DEF TypeOK
  <2>2. Cardinality(DOMAIN c[1]) = n
    BY <1>1, <2>1, EndOfChart
  <2>. QED
    BY <2>1, <2>2, CapsAreNumbers
<1> DEFINE ns == [i \in 0 .. n |-> IF i = n THEN NewNode(r) ELSE c[1][i]]
<1>3. ns \in [0 .. ((n + 1) - 1) -> Nodes]
  <2>1. (n + 1) - 1 = n
    BY <1>2
  <2>2. \A i \in 0 .. n : i # n => i \in 0 .. (n - 1)
    BY <1>2
  <2>. QED
    BY <1>1, <2>1, <2>2, NewNodeType
<1>4. Ids = 0 .. (ChartEnd - 1)
  BY DEF TypeOK, Ids
<1>5. \A i \in Ids : i \in 0 .. (n - 1) /\ i # n /\ i \in 0 .. n
  BY <1>2, <1>4 DEF TypeOK
<1>6. \A i \in Ids : ns[i] = nodes[i]
  BY <1>0, <1>5 DEF Charts, Grown
<1>7. \A i \in DOMAIN ns \ Ids : ns[i].state = "INCOMPLETE" /\ ns[i].conn = <<>>
  <2>. SUFFICES ASSUME NEW i \in 0 .. n, i \notin Ids
                PROVE  ns[i].state = "INCOMPLETE" /\ ns[i].conn = <<>>
    OBVIOUS
  <2>1. CASE i = n
    BY <2>1, NewNodeType
  <2>2. CASE i # n
    <3>1. i \in DOMAIN c[1] \ Ids
      BY <1>1, <1>2, <2>2
    <3>. QED
      BY <1>0, <2>2, <3>1 DEF Charts, Grown
  <2>. QED
    BY <2>1, <2>2
<1>8. list \in Seq(0 .. n) /\ Len(list) <= MaxMorph
  <2>1. c[2] \in Seq(0 .. (n - 1)) /\ Len(c[2]) <= MaxMorph /\ Len(c[2]) \in Nat
    BY <1>0, <1>1 DEF Charts, Grown
  <2>2. c[2] \in Seq(0 .. n)
    BY <2>1, <1>2, SMT
  <2>3. CASE list = c[2]
    BY <2>1, <2>2, <2>3
  <2>4. CASE list = Append(c[2], n) /\ Len(c[2]) < MaxMorph
    <3>1. n \in 0 .. n
      BY <1>2
    <3>2. list \in Seq(0 .. n) /\ Len(list) = Len(c[2]) + 1
      BY <2>2, <2>4, <3>1
    <3>. QED
      BY <2>1, <2>4, <3>2, CapsAreNumbers
  <2>. QED
    BY <1>2, <2>3, <2>4
<1>9. Grown(<<ns, list>>)
  <2>1. n + 1 \in ChartEnd .. MaxChart
    BY <1>2, CapsAreNumbers DEF TypeOK
  <2>2. DOMAIN ns = 0 .. n
    OBVIOUS
  <2> HIDE DEF ns
  <2>. QED
    BY <1>3, <1>6, <1>7, <1>8, <2>1, <2>2 DEF Grown
<1>10. n + 1 \in 1 .. MaxChart /\ list \in Seq(Nat)
  BY <1>2, <1>8, CapsAreNumbers
<1>11. <<ns, list>> \in (UNION { [0 .. (m - 1) -> Nodes] : m \in 1 .. MaxChart }) \X Seq(Nat)
  BY <1>3, <1>10
<1>12. <<ns, list>> \in Charts
  <2> HIDE DEF ns
  <2>. QED
    BY <1>9, <1>11 DEF Charts
<1>13. Listed(<<ns, list>>, q)
  <2>1. Len(c[2]) \in Nat /\ Len(morphs[q]) \in Nat /\ c[2] \in Seq(Nat)
    BY <1>0 DEF Charts, TypeOK
  <2>2. CASE list = c[2]
    BY <1>0, <2>2 DEF Listed
  <2>3. CASE list = Append(c[2], n)
    <3>1. n \notin Ids
      BY <1>2, <1>4 DEF TypeOK
    <3>2. Len(list) = Len(c[2]) + 1
      BY <2>1, <2>3
    <3>3. ASSUME NEW k \in 1 .. Len(list)
          PROVE  IF k <= Len(morphs[q]) THEN list[k] = morphs[q][k] ELSE list[k] \notin Ids
      <4>1. CASE k = Len(c[2]) + 1
        <5>1. list[k] = n /\ ~(k <= Len(morphs[q]))
          BY <1>0, <2>1, <2>3, <4>1 DEF Listed
        <5>. QED
          BY <3>1, <5>1
      <4>2. CASE k # Len(c[2]) + 1
        <5>1. k \in 1 .. Len(c[2])
          BY <2>1, <3>2, <4>2
        <5>2. list[k] = c[2][k]
          BY <2>1, <2>3, <5>1
        <5>. QED
          BY <1>0, <5>1, <5>2 DEF Listed
      <4>. QED
        BY <4>1, <4>2
    <3>4. Len(morphs[q]) <= Len(list)
      BY <1>0, <2>1, <3>2 DEF Listed
    <3>5. ASSUME NEW k \in 1 .. Len(list), NEW l \in 1 .. Len(list),
                 k > Len(morphs[q]), list[k] = list[l]
          PROVE  k = l
      <4>1. \A h \in 1 .. Len(c[2]) : list[h] = c[2][h] /\ c[2][h] # n
        <5>1. c[2] \in Seq(0 .. (n - 1))
          BY <1>0, <1>1 DEF Charts, Grown
        <5>2. \A h \in 1 .. Len(c[2]) : c[2][h] \in 0 .. (n - 1)
          BY <5>1
        <5>3. \A i \in 0 .. (n - 1) : i # n
          BY <1>2
        <5>. QED
          BY <2>1, <2>3, <5>2, <5>3
      <4>2. list[Len(c[2]) + 1] = n
        BY <2>1, <2>3
      <4>3. \A h \in 1 .. Len(list) : h \in 1 .. Len(c[2]) \/ h = Len(c[2]) + 1
        BY <2>1, <3>2
      <4>4. CASE k \in 1 .. Len(c[2]) /\ l \in 1 .. Len(c[2])
        BY <1>0, <3>5, <4>1, <4>4 DEF Listed
      <4>. QED
        BY <3>5, <4>1, <4>2, <4>3, <4>4
    <3>. QED
      BY <3>3, <3>4, <3>5 DEF Listed
  <2>. QED
    BY <1>2, <2>2, <2>3
<1>. QED
  BY <1>2, <1>12, <1>13 DEF ChartsAt

\* Neither way of adding a reading leaves the charts.
LEMMA AddReadingStays ==
  ASSUME TypeOK, NEW q \in Positions, NEW c \in ChartsAt(q), NEW r \in Readings
  PROVE  AddReading(c, r) \in ChartsAt(q)
<1> DEFINE id == Cardinality(DOMAIN c[1])
           known == \E i \in 1 .. Len(c[2]) : ReadingOf(c[1][c[2][i]]) = r
           more == << [i \in 0 .. id |-> IF i = id THEN NewNode(r) ELSE c[1][i]], Append(c[2], id) >>
<1>1. AddReading(c, r) = IF known \/ Len(c[2]) >= MaxMorph \/ id >= MaxChart THEN c ELSE more
  BY DEF AddReading
<1>2. Len(c[2]) \in Nat
  BY DEF ChartsAt, Charts
<1>3. id \in Nat
  <2>1. PICK n \in 1 .. MaxChart : c[1] \in [0 .. (n - 1) -> Nodes]
    BY DEF ChartsAt, Charts
  <2>. QED
    BY <2>1, EndOfChart
<1>4. ASSUME ~(Len(c[2]) >= MaxMorph), ~(id >= MaxChart)
      PROVE  more \in ChartsAt(q)
  <2>1. Len(c[2]) < MaxMorph /\ id < MaxChart
    BY <1>2, <1>3, <1>4, CapsAreNumbers
  <2>. QED
    BY <2>1, OneMore
<1> HIDE DEF id, known, more
<1>. QED
  BY <1>1, <1>4

\* What is new is unknown.
OnlyUnknown(c) == \A i \in DOMAIN c[1] \ Ids : c[1][i].tag = UnkTag

\* One turn of the fallback.
LEMMA AddUnknownStays ==
  ASSUME TypeOK, NEW q \in Positions, NEW c \in ChartsAt(q), NEW p \in Positions, OnlyUnknown(c)
  PROVE  AddUnknown(c, p) \in ChartsAt(q) /\ OnlyUnknown(AddUnknown(c, p))
<1> DEFINE id == Cardinality(DOMAIN c[1])
           r == [tag |-> UnkTag, next |-> Chain[p], type |-> All]
           list == IF Len(c[2]) < MaxMorph THEN Append(c[2], id) ELSE c[2]
           more == << [i \in 0 .. id |-> IF i = id THEN NewNode(r) ELSE c[1][i]], list >>
<1>1. AddUnknown(c, p) = IF id >= MaxChart THEN c ELSE more
  BY DEF AddUnknown
<1>2. r \in Readings
  BY ChartAssumption DEF Readings, Types
<1>3. id \in Nat
  <2>1. PICK n \in 1 .. MaxChart : c[1] \in [0 .. (n - 1) -> Nodes]
    BY DEF ChartsAt, Charts
  <2>. QED
    BY <2>1, EndOfChart
<1>4. ASSUME ~(id >= MaxChart)
      PROVE  more \in ChartsAt(q)
  <2>1. id < MaxChart
    BY <1>3, <1>4, CapsAreNumbers
  <2>2. list = c[2] \/ (list = Append(c[2], id) /\ Len(c[2]) < MaxMorph)
    OBVIOUS
  <2> HIDE DEF r, list
  <2>. QED
    BY <1>2, <2>1, <2>2, OneMore
<1>5. OnlyUnknown(more)
  <2>. SUFFICES ASSUME NEW i \in 0 .. id, i \notin Ids
                PROVE  (IF i = id THEN NewNode(r) ELSE c[1][i]).tag = UnkTag
    BY DEF OnlyUnknown
  <2>1. CASE i = id
    BY <2>1 DEF NewNode
  <2>2. CASE i # id
    <3>1. PICK n \in 1 .. MaxChart : c[1] \in [0 .. (n - 1) -> Nodes]
      BY DEF ChartsAt, Charts
    <3>2. id = n /\ n \in Nat
      BY <3>1, EndOfChart
    <3>3. i \in DOMAIN c[1]
      BY <2>2, <3>1, <3>2
    <3>. QED
      BY <2>2, <3>3 DEF OnlyUnknown
  <2>. QED
    BY <2>1, <2>2
<1> HIDE DEF id, more
<1>. QED
  BY <1>1, <1>4, <1>5

\* What is at a position is a chart to begin with.
LEMMA ChartAt ==
  ASSUME TypeOK, NEW p \in Positions
  PROVE  <<nodes, morphs[p]>> \in ChartsAt(p)
<1>1. ChartEnd \in 1 .. MaxChart /\ nodes \in [0 .. (ChartEnd - 1) -> Nodes]
  BY DEF TypeOK
<1>2. ChartEnd \in ChartEnd .. MaxChart
  BY <1>1, CapsAreNumbers
<1>3. morphs[p] \in Seq(Ids) /\ Len(morphs[p]) <= MaxMorph /\ Ids = DOMAIN nodes
  BY DEF TypeOK, Ids
<1>4. morphs[p] \in Seq(Nat)
  <2>1. Ids \subseteq Nat
    BY <1>1, <1>3
  <2>. QED
    BY <1>3, <2>1
<1>5. Grown(<<nodes, morphs[p]>>)
  BY <1>1, <1>2, <1>3 DEF Grown
<1>6. Listed(<<nodes, morphs[p]>>, p)
  <2>1. Len(morphs[p]) \in Nat
    BY <1>3
  <2>2. \A k \in 1 .. Len(morphs[p]) : k <= Len(morphs[p]) /\ ~(k > Len(morphs[p]))
    BY <2>1
  <2>. QED
    BY <2>1, <2>2 DEF Listed
<1>7. <<nodes, morphs[p]>> \in Charts
  BY <1>1, <1>4, <1>5 DEF Charts
<1>. QED
  BY <1>6, <1>7 DEF ChartsAt

\* However many readings there are.
LEMMA FillStays ==
  ASSUME TypeOK, NEW p \in Positions, NEW readings \in Seq(Readings)
  PROVE  Fill(p, readings) \in ChartsAt(p)
<1> DEFINE N == Len(readings)
           base == <<nodes, morphs[p]>>
           step == [x \in ChartsAt(p) \X (1 .. N) |-> AddReading(x[1], readings[x[2]])]
           f == CHOOSE f : f = [k \in 0 .. N |-> IF k = 0 THEN base
                                                 ELSE AddReading(f[k - 1], readings[k])]
<1>1. N \in Nat /\ base \in ChartsAt(p)
  BY ChartAt
<1>2. \A k \in 1 .. N : readings[k] \in Readings
  OBVIOUS
<1>3. IsStep(step, N, ChartsAt(p))
  BY <1>2, AddReadingStays DEF IsStep
<1>4. \A c \in ChartsAt(p), k \in 1 .. N : step[<<c, k>>] = AddReading(c, readings[k])
  OBVIOUS
<1> HIDE DEF N, base, step
<1>5. PICK g : IsRun(g, N, ChartsAt(p), base, step)
  BY <1>1, <1>3, Recursion
<1>6. \A k \in 1 .. N : g[k] = AddReading(g[k - 1], readings[k])
  <2>. SUFFICES ASSUME NEW k \in 1 .. N
                PROVE  g[k] = AddReading(g[k - 1], readings[k])
    OBVIOUS
  <2>1. k - 1 \in 0 .. N
    BY <1>1
  <2>2. g[k - 1] \in ChartsAt(p)
    BY <1>5, <2>1 DEF IsRun
  <2>. QED
    BY <1>4, <1>5, <2>2 DEF IsRun
<1>7. g = [k \in 0 .. N |-> IF k = 0 THEN base ELSE AddReading(g[k - 1], readings[k])]
  <2> DEFINE h == [k \in 0 .. N |-> IF k = 0 THEN base ELSE AddReading(g[k - 1], readings[k])]
  <2>1. \A k \in 0 .. N : k # 0 => k \in 1 .. N
    BY <1>1
  <2>2. \A k \in 0 .. N : g[k] = h[k]
    BY <1>5, <1>6, <2>1 DEF IsRun
  <2>3. DOMAIN g = 0 .. N /\ DOMAIN h = 0 .. N /\ g = [k \in 0 .. N |-> g[k]]
    BY <1>5 DEF IsRun
  <2>. QED
    BY <2>2, <2>3
<1>8. f = [k \in 0 .. N |-> IF k = 0 THEN base ELSE AddReading(f[k - 1], readings[k])]
  BY <1>7
<1> HIDE DEF f
<1> DEFINE S == { k \in 0 .. N : f[k] \in ChartsAt(p) }
<1>9. 0 \in S
  BY <1>1, <1>8
<1>10. ASSUME NEW k \in 1 .. N, k - 1 \in S
       PROVE  k \in S
  <2>1. k \in 0 .. N /\ k # 0
    BY <1>1
  <2>2. f[k] = AddReading(f[k - 1], readings[k])
    BY <1>8, <2>1
  <2>. QED
    BY <1>2, <1>10, <2>1, <2>2, AddReadingStays
<1>11. 0 .. N \subseteq S
  <2> HIDE DEF S
  <2>. QED
    BY <1>1, <1>9, <1>10, Induction
<1>12. f[N] \in ChartsAt(p)
  BY <1>1, <1>11
<1>. QED
  BY <1>12 DEF Fill, f, N, base

Turns == [chart : { c \in ChartsAt(1) : OnlyUnknown(c) }, p : Positions]

\* However long the links are.
LEMMA UnknownsStay ==
  ASSUME TypeOK
  PROVE  Unknowns \in ChartsAt(1) /\ OnlyUnknown(Unknowns)
<1> DEFINE N == Cardinality(Positions)
           base == [chart |-> <<nodes, morphs[1]>>, p |-> 1]
           next(t) == IF t.p = 0 THEN t ELSE [chart |-> AddUnknown(t.chart, t.p), p |-> Chain[t.p]]
           step == [x \in Turns \X (1 .. N) |-> next(x[1])]
           f == CHOOSE f : f = [k \in 0 .. N |-> IF k = 0 THEN base ELSE next(f[k - 1])]
<1>1. N \in Nat
  BY ChartAssumption, FS_CardinalityType
<1>2. base \in Turns
  <2>1. OnlyUnknown(<<nodes, morphs[1]>>)
    BY DEF OnlyUnknown, Ids
  <2>. QED
    BY <2>1, ChartAssumption, ChartAt DEF Turns
<1>3. \A t \in Turns : next(t) \in Turns
  BY ChartAssumption, AddUnknownStays DEF Turns
<1>4. IsStep(step, N, Turns)
  BY <1>3 DEF IsStep
<1>5. \A t \in Turns, k \in 1 .. N : step[<<t, k>>] = next(t)
  OBVIOUS
<1> HIDE DEF N, base, step, next
<1>6. PICK g : IsRun(g, N, Turns, base, step)
  BY <1>1, <1>2, <1>4, Recursion
<1>7. \A k \in 1 .. N : g[k] = next(g[k - 1])
  <2>. SUFFICES ASSUME NEW k \in 1 .. N
                PROVE  g[k] = next(g[k - 1])
    OBVIOUS
  <2>1. k - 1 \in 0 .. N
    BY <1>1
  <2>2. g[k - 1] \in Turns
    BY <1>6, <2>1 DEF IsRun
  <2>. QED
    BY <1>5, <1>6, <2>2 DEF IsRun
<1>8. g = [k \in 0 .. N |-> IF k = 0 THEN base ELSE next(g[k - 1])]
  <2> DEFINE h == [k \in 0 .. N |-> IF k = 0 THEN base ELSE next(g[k - 1])]
  <2>1. \A k \in 0 .. N : k # 0 => k \in 1 .. N
    BY <1>1
  <2>2. \A k \in 0 .. N : g[k] = h[k]
    BY <1>6, <1>7, <2>1 DEF IsRun
  <2>3. DOMAIN g = 0 .. N /\ DOMAIN h = 0 .. N /\ g = [k \in 0 .. N |-> g[k]]
    BY <1>6 DEF IsRun
  <2>. QED
    BY <2>2, <2>3
<1>9. f = [k \in 0 .. N |-> IF k = 0 THEN base ELSE next(f[k - 1])]
  BY <1>8
<1> HIDE DEF f
<1> DEFINE S == { k \in 0 .. N : f[k] \in Turns }
<1>10. 0 \in S
  BY <1>1, <1>2, <1>9
<1>11. ASSUME NEW k \in 1 .. N, k - 1 \in S
       PROVE  k \in S
  <2>1. k \in 0 .. N /\ k # 0
    BY <1>1
  <2>. QED
    BY <1>3, <1>9, <1>11, <2>1
<1>12. 0 .. N \subseteq S
  <2> HIDE DEF S
  <2>. QED
    BY <1>1, <1>10, <1>11, Induction
<1>13. f[N] \in Turns
  BY <1>1, <1>12
<1>14. f[N].chart \in ChartsAt(1) /\ OnlyUnknown(f[N].chart)
  BY <1>13 DEF Turns
<1>15. Unknowns = f[N].chart
  BY DEF Unknowns, f, N, base, next
<1>. QED
  BY <1>14, <1>15

-----------------------------------------------------------------------------
(* Connecting a node *)

\* What a node may be connected to.
Conns == { c \in Seq(Ids) : Len(c) <= MaxConn /\ \A k \in 1 .. Len(c) : nodes[c[k]].state = "SUCCESS" }

\* Why the node n is connected to j after it has looked at the position p:
\* it was before, or j is there and the rules accept the pair.
Justified(n, p, j) ==
  \/ j \in ToSet(nodes[n].conn)
  \/ j \in ToSet(morphs[p]) /\ <<nodes[n].tag, nodes[j].tag>> \in Connects
ConnsOf(n, p) == { c \in Conns : \A k \in 1 .. Len(c) : Justified(n, p, c[k]) }

\* A connection to a node that has succeeded may be added.
LEMMA AddConnectionStays ==
  ASSUME NEW n, NEW p, NEW c \in ConnsOf(n, p),
         NEW j \in Ids, nodes[j].state = "SUCCESS", Justified(n, p, j)
  PROVE  AddConnection(c, j) \in ConnsOf(n, p)
<1>1. c \in Seq(Ids) /\ Len(c) \in Nat
  BY DEF ConnsOf, Conns
<1>2. CASE Len(c) < MaxConn
  <2>1. AddConnection(c, j) = Append(c, j)
    BY <1>2 DEF AddConnection
  <2>2. Append(c, j) \in Seq(Ids) /\ Len(Append(c, j)) = Len(c) + 1
    BY <1>1
  <2>3. Len(c) + 1 <= MaxConn
    BY <1>1, <1>2, CapsAreNumbers
  <2>4. ASSUME NEW k \in 1 .. Len(Append(c, j))
        PROVE  nodes[Append(c, j)[k]].state = "SUCCESS" /\ Justified(n, p, Append(c, j)[k])
    <3>1. k \in 1 .. Len(c) \/ k = Len(c) + 1
      BY <1>1, <2>2
    <3>2. CASE k \in 1 .. Len(c)
      <4>1. Append(c, j)[k] = c[k]
        BY <1>1, <3>2
      <4>. QED
        BY <3>2, <4>1 DEF ConnsOf, Conns
    <3>3. CASE k = Len(c) + 1
      BY <1>1, <3>3
    <3>. QED
      BY <3>1, <3>2, <3>3
  <2>. QED
    BY <2>1, <2>2, <2>3, <2>4 DEF ConnsOf, Conns
<1>3. CASE ~(Len(c) < MaxConn)
  BY <1>3 DEF AddConnection
<1>. QED
  BY <1>2, <1>3

\* So a visited node stays connected to nodes that have succeeded.
LEMMA ConnectedStays ==
  ASSUME TypeOK, Settled, NEW n \in Ids, NEW p \in Positions
  PROVE  \E c \in ConnsOf(n, p) : Connected(n, p) = [nodes EXCEPT ![n].conn = c]
<1> DEFINE N == Len(morphs[p])
           takes(j) == nodes[j].state = "SUCCESS" /\ <<nodes[n].tag, nodes[j].tag>> \in Connects
           base == nodes[n].conn
           next(c, k) == IF takes(morphs[p][k]) THEN AddConnection(c, morphs[p][k]) ELSE c
           step == [x \in ConnsOf(n, p) \X (1 .. N) |-> next(x[1], x[2])]
           f == CHOOSE f : f = [k \in 0 .. N |-> IF k = 0 THEN base ELSE next(f[k - 1], k)]
<1>1. N \in Nat /\ \A k \in 1 .. N : morphs[p][k] \in Ids
  BY DEF TypeOK
<1>2. base \in ConnsOf(n, p)
  <2>1. base \in Conns
    BY DEF TypeOK, Settled, Conns
  <2>2. \A k \in 1 .. Len(base) : base[k] \in ToSet(base)
    BY <2>1 DEF Conns, ToSet
  <2>. QED
    BY <2>1, <2>2 DEF ConnsOf, Justified
<1>3. \A c \in ConnsOf(n, p), k \in 1 .. N : next(c, k) \in ConnsOf(n, p)
  <2>. SUFFICES ASSUME NEW c \in ConnsOf(n, p), NEW k \in 1 .. N, takes(morphs[p][k])
                PROVE  AddConnection(c, morphs[p][k]) \in ConnsOf(n, p)
    OBVIOUS
  <2>1. morphs[p][k] \in ToSet(morphs[p])
    BY DEF ToSet, TypeOK
  <2>2. Justified(n, p, morphs[p][k])
    BY <2>1 DEF Justified
  <2>. QED
    BY <1>1, <2>2, AddConnectionStays
<1>4. IsStep(step, N, ConnsOf(n, p))
  BY <1>3 DEF IsStep
<1>5. \A c \in ConnsOf(n, p), k \in 1 .. N : step[<<c, k>>] = next(c, k)
  OBVIOUS
<1> HIDE DEF N, base, step, next
<1>6. PICK g : IsRun(g, N, ConnsOf(n, p), base, step)
  BY <1>1, <1>2, <1>4, Recursion
<1>7. \A k \in 1 .. N : g[k] = next(g[k - 1], k)
  <2>. SUFFICES ASSUME NEW k \in 1 .. N
                PROVE  g[k] = next(g[k - 1], k)
    OBVIOUS
  <2>1. k - 1 \in 0 .. N
    BY <1>1
  <2>2. g[k - 1] \in ConnsOf(n, p)
    BY <1>6, <2>1 DEF IsRun
  <2>. QED
    BY <1>5, <1>6, <2>2 DEF IsRun
<1>8. g = [k \in 0 .. N |-> IF k = 0 THEN base ELSE next(g[k - 1], k)]
  <2> DEFINE h == [k \in 0 .. N |-> IF k = 0 THEN base ELSE next(g[k - 1], k)]
  <2>1. \A k \in 0 .. N : k # 0 => k \in 1 .. N
    BY <1>1
  <2>2. \A k \in 0 .. N : g[k] = h[k]
    BY <1>6, <1>7, <2>1 DEF IsRun
  <2>3. DOMAIN g = 0 .. N /\ DOMAIN h = 0 .. N /\ g = [k \in 0 .. N |-> g[k]]
    BY <1>6 DEF IsRun
  <2>. QED
    BY <2>2, <2>3
<1>9. f = [k \in 0 .. N |-> IF k = 0 THEN base ELSE next(f[k - 1], k)]
  BY <1>8
<1> HIDE DEF f
<1> DEFINE S == { k \in 0 .. N : f[k] \in ConnsOf(n, p) }
<1>10. 0 \in S
  BY <1>1, <1>2, <1>9
<1>11. ASSUME NEW k \in 1 .. N, k - 1 \in S
       PROVE  k \in S
  <2>1. k \in 0 .. N /\ k # 0
    BY <1>1
  <2>. QED
    BY <1>3, <1>9, <1>11, <2>1
<1>12. 0 .. N \subseteq S
  <2> HIDE DEF S
  <2>. QED
    BY <1>1, <1>10, <1>11, Induction
<1>13. f[N] \in ConnsOf(n, p)
  BY <1>1, <1>12
<1>14. Connected(n, p) = [nodes EXCEPT ![n].conn = f[N]]
  BY DEF Connected, f, N, base, next
<1>. QED
  BY <1>13, <1>14

-----------------------------------------------------------------------------
(* What the steps do to the nodes *)

\* The part of TypeOK that is about the nodes.
NodesOK ==
  /\ ChartEnd \in 1 .. MaxChart
  /\ nodes \in [0 .. (ChartEnd - 1) -> Nodes]
  /\ \A i \in Ids : nodes[i].conn \in Seq(Ids) /\ Len(nodes[i].conn) <= MaxConn

\* The start node is one of the nodes.
LEMMA StartNode ==
  ASSUME TypeOK
  PROVE  0 \in Ids /\ Ids = 0 .. (ChartEnd - 1) /\ Ids \subseteq Nat
  BY DEF TypeOK, Ids

\* Filling a position leaves the connections between the nodes as they are;
\* the unknown-morpheme fallback also drops those of the start node.
LEMMA Grows ==
  ASSUME TypeOK, Settled, Acyclic, NEW c \in Charts,
         nodes' = c[1] \/ nodes' = [c[1] EXCEPT ![0].conn = <<>>]
  PROVE  /\ NodesOK' /\ Settled' /\ Acyclic'
         /\ Ids \subseteq Ids' /\ c[2] \in Seq(Ids') /\ Len(c[2]) <= MaxMorph
         /\ \A i \in Ids : nodes'[i].state = nodes[i].state
         /\ \A i \in Ids \ {0} : nodes'[i] = nodes[i]
<1>1. PICK n \in ChartEnd .. MaxChart : c[1] \in [0 .. (n - 1) -> Nodes]
  BY DEF Charts, Grown
<1>2. n \in 1 .. MaxChart /\ ChartEnd <= n /\ n \in Nat /\ ChartEnd \in Nat
  BY <1>1, CapsAreNumbers DEF TypeOK
<1>3. \A i \in Ids : c[1][i] = nodes[i]
  BY DEF Charts, Grown
<1>4. \A i \in 0 .. (n - 1) : i \notin Ids => c[1][i].state = "INCOMPLETE" /\ c[1][i].conn = <<>>
  BY <1>1 DEF Charts, Grown
<1>5. Ids \subseteq 0 .. (n - 1) /\ 0 \in Ids
  BY <1>2, StartNode
<1>6. nodes' \in [0 .. (n - 1) -> Nodes]
  <2>1. CASE nodes' = c[1]
    BY <1>1, <2>1
  <2>2. CASE nodes' = [c[1] EXCEPT ![0].conn = <<>>]
    <3>1. c[1][0] \in Nodes /\ <<>> \in Seq(Nat)
      BY <1>1, <1>5
    <3>2. [c[1][0] EXCEPT !.conn = <<>>] \in Nodes
      BY <3>1 DEF Nodes
    <3>. QED
      BY <1>1, <2>2, <3>2
  <2>. QED
    BY <2>1, <2>2
<1>7. Ids' = 0 .. (n - 1) /\ ChartEnd' = n
  <2>1. Ids' = DOMAIN nodes' /\ ChartEnd' = Cardinality(DOMAIN nodes')
    BY DEF Ids, ChartEnd
  <2>. QED
    BY <1>2, <1>6, <2>1, EndOfChart
<1>8. \A i \in Ids' \ {0} : nodes'[i] = c[1][i]
  BY <1>1, <1>7
<1>9. nodes'[0].state = nodes[0].state /\ nodes'[0].conn \in {nodes[0].conn, <<>>}
  <2>1. c[1][0] = nodes[0] /\ nodes[0] \in Nodes
    BY <1>3, <1>5, StartNode DEF TypeOK
  <2>. QED
    BY <1>1, <1>5, <2>1 DEF Nodes
<1>10. \A i \in Ids : nodes'[i].state = nodes[i].state /\ nodes'[i].conn \in {nodes[i].conn, <<>>}
  BY <1>3, <1>5, <1>7, <1>8, <1>9
<1>11. \A i \in Ids' : i \notin Ids => nodes'[i].state = "INCOMPLETE" /\ nodes'[i].conn = <<>>
  BY <1>4, <1>5, <1>7, <1>8
<1>12. NodesOK'
  <2>1. ASSUME NEW i \in Ids'
        PROVE  nodes'[i].conn \in Seq(Ids') /\ Len(nodes'[i].conn) <= MaxConn
    <3>1. CASE nodes'[i].conn = <<>>
      BY <3>1, CapsAreNumbers
    <3>2. CASE i \in Ids /\ nodes'[i].conn = nodes[i].conn
      <4>1. nodes[i].conn \in Seq(Ids) /\ Len(nodes[i].conn) <= MaxConn
        BY <3>2 DEF TypeOK
      <4>2. nodes[i].conn \in Seq(Ids')
        BY <1>5, <1>7, <4>1
      <4>. QED
        BY <3>2, <4>1, <4>2
    <3>. QED
      BY <1>10, <1>11, <3>1, <3>2
  <2>. QED
    BY <1>2, <1>6, <1>7, <2>1 DEF NodesOK
<1>13. Settled'
  <2>1. nodes'[0].state = "SUCCESS"
    BY <1>9 DEF Settled
  <2>2. ASSUME NEW i \in Ids' \ {0}
        PROVE  nodes'[i].conn # <<>> <=> nodes'[i].state = "SUCCESS"
    <3>1. CASE i \in Ids
      BY <1>3, <1>8, <2>2, <3>1 DEF Settled
    <3>2. CASE i \notin Ids
      BY <1>11, <3>2
    <3>. QED
      BY <3>1, <3>2
  <2>3. ASSUME NEW i \in Ids', NEW k \in 1 .. Len(nodes'[i].conn)
        PROVE  nodes'[nodes'[i].conn[k]].state = "SUCCESS"
    <3>1. i \in Ids /\ nodes'[i].conn = nodes[i].conn
      BY <1>10, <1>11, <2>3
    <3>2. nodes[i].conn[k] \in Ids /\ nodes[nodes[i].conn[k]].state = "SUCCESS"
      BY <2>3, <3>1 DEF TypeOK, Settled
    <3>. QED
      BY <1>10, <3>1, <3>2
  <2>. QED
    BY <2>1, <2>2, <2>3 DEF Settled
<1>14. Acyclic'
  <2>. SUFFICES ASSUME NEW S \in SUBSET (Ids' \ {0}), Closed(S)'
                PROVE  S = {}
    BY DEF Acyclic
  <2>1. S \subseteq Ids \ {0}
    BY <1>11 DEF Closed
  <2>2. \A i \in S : nodes'[i].conn = nodes[i].conn
    BY <1>3, <1>7, <1>8, <2>1
  <2>3. Closed(S)
    BY <2>2 DEF Closed
  <2>. QED
    BY <2>1, <2>3 DEF Acyclic
<1>15. c[2] \in Seq(Ids') /\ Len(c[2]) <= MaxMorph
  BY <1>1, <1>7 DEF Charts, Grown
<1>16. \A i \in Ids \ {0} : nodes'[i] = nodes[i]
  BY <1>3, <1>5, <1>7, <1>8
<1>. QED
  BY <1>5, <1>7, <1>10, <1>12, <1>13, <1>14, <1>15, <1>16

\* A node no other is connected to gets a new state and new connections.
\* If a cycle without the start node went through it, another of the cycle's
\* nodes would be connected to it.
LEMMA Settles ==
  ASSUME TypeOK, Settled, Acyclic, NEW i \in Ids, NEW m \in Nodes,
         nodes' = [nodes EXCEPT ![i] = m], m.conn \in Conns,
         IF i = 0 THEN m.state = "SUCCESS"
         ELSE nodes[i].state # "SUCCESS" /\ (m.conn # <<>> <=> m.state = "SUCCESS")
  PROVE  /\ NodesOK' /\ Settled' /\ Acyclic' /\ Ids' = Ids
         /\ \A j \in Ids \ {i} : nodes'[j] = nodes[j]
<1>1. nodes \in [0 .. (ChartEnd - 1) -> Nodes] /\ ChartEnd \in 1 .. MaxChart
  BY DEF TypeOK
<1>2. i \in 0 .. (ChartEnd - 1) /\ Ids = 0 .. (ChartEnd - 1) /\ 0 \in Ids
  BY StartNode
<1>3. DOMAIN nodes' = DOMAIN nodes /\ nodes' \in [0 .. (ChartEnd - 1) -> Nodes]
  BY <1>1, <1>2
<1>4. Ids' = Ids /\ ChartEnd' = ChartEnd
  BY <1>3 DEF Ids, ChartEnd
<1>5. \A j \in Ids \ {i} : nodes'[j] = nodes[j]
  BY <1>1, <1>2
<1>6. nodes'[i] = m
  BY <1>1, <1>2
<1>7. m.conn \in Seq(Ids) /\ Len(m.conn) <= MaxConn
      /\ \A k \in 1 .. Len(m.conn) : nodes[m.conn[k]].state = "SUCCESS"
  BY DEF Conns
<1>8. NodesOK'
  <2>1. \A j \in Ids : nodes'[j].conn \in Seq(Ids) /\ Len(nodes'[j].conn) <= MaxConn
    BY <1>5, <1>6, <1>7 DEF TypeOK
  <2>. QED
    BY <1>1, <1>3, <1>4, <2>1 DEF NodesOK
<1>9. \A j \in Ids : nodes[j].state = "SUCCESS" => nodes'[j].state = "SUCCESS"
  BY <1>5, <1>6
<1>10. Settled'
  <2>1. nodes'[0].state = "SUCCESS"
    BY <1>2, <1>9 DEF Settled
  <2>2. \A j \in Ids \ {0} : nodes'[j].conn # <<>> <=> nodes'[j].state = "SUCCESS"
    BY <1>5, <1>6 DEF Settled
  <2>3. ASSUME NEW j \in Ids, NEW k \in 1 .. Len(nodes'[j].conn)
        PROVE  nodes'[nodes'[j].conn[k]].state = "SUCCESS"
    <3>1. CASE j = i
      <4>1. m.conn[k] \in Ids /\ nodes[m.conn[k]].state = "SUCCESS"
        BY <1>6, <1>7, <2>3, <3>1
      <4>. QED
        BY <1>6, <1>9, <3>1, <4>1
    <3>2. CASE j # i
      <4>1. nodes[j].conn[k] \in Ids /\ nodes[nodes[j].conn[k]].state = "SUCCESS"
        BY <1>5, <2>3, <3>2 DEF TypeOK, Settled
      <4>. QED
        BY <1>5, <1>9, <3>2, <4>1
    <3>. QED
      BY <3>1, <3>2
  <2>. QED
    BY <1>4, <2>1, <2>2, <2>3 DEF Settled
<1>11. Acyclic'
  <2>. SUFFICES ASSUME NEW S \in SUBSET (Ids \ {0}), Closed(S)'
                PROVE  S = {}
    BY <1>4 DEF Acyclic
  <2>1. ASSUME NEW j \in S, NEW k \in 1 .. Len(nodes'[j].conn), nodes'[j].conn[k] \in S
        PROVE  nodes'[j].conn[k] # i
    <3>1. CASE i = 0
      BY <2>1, <3>1
    <3>2. CASE i # 0
      <4>1. nodes[i].state # "SUCCESS"
        BY <3>2
      <4>2. CASE j = i
        <5>1. nodes'[j].conn = m.conn
          BY <1>6, <4>2
        <5>. QED
          BY <1>7, <2>1, <4>1, <5>1
      <4>3. CASE j # i
        <5>1. nodes'[j].conn = nodes[j].conn /\ j \in Ids
          BY <1>5, <4>3
        <5>. QED
          BY <2>1, <4>1, <5>1 DEF Settled
      <4>. QED
        BY <4>2, <4>3
    <3>. QED
      BY <3>1, <3>2
  <2>2. ASSUME NEW j \in S \ {i}
        PROVE  \E k \in 1 .. Len(nodes[j].conn) : nodes[j].conn[k] \in S \ {i}
    <3>1. nodes'[j] = nodes[j]
      BY <1>5, <2>2
    <3>2. PICK k \in 1 .. Len(nodes'[j].conn) : nodes'[j].conn[k] \in S
      BY <2>2 DEF Closed
    <3>3. nodes'[j].conn[k] \in S \ {i}
      BY <2>1, <3>2
    <3>. QED
      BY <3>1, <3>2, <3>3
  <2>3. S \ {i} = {}
    <3>1. Closed(S \ {i}) /\ S \ {i} \in SUBSET (Ids \ {0})
      BY <2>2 DEF Closed
    <3>. QED
      BY <3>1 DEF Acyclic
  <2>4. ASSUME i \in S
        PROVE  FALSE
    <3>1. \E k \in 1 .. Len(nodes'[i].conn) : nodes'[i].conn[k] \in S
      BY <2>4 DEF Closed
    <3>. QED
      BY <2>1, <2>3, <2>4, <3>1
  <2>. QED
    BY <2>3, <2>4
<1>. QED
  BY <1>4, <1>5, <1>8, <1>10, <1>11

-----------------------------------------------------------------------------
(* What the steps do to the rest *)

\* The rest of TypeOK.
MorphsOK == morphs \in [Positions -> Seq(Ids)] /\ \A p \in Positions : Len(morphs[p]) <= MaxMorph
StackOK == stack \in Seq(Frames) /\ \A k \in 1 .. Len(stack) : stack[k].node \in Ids
PosOK == posState \in [Positions -> {"N", "D", "R", "M", "F"}]
DriverOK ==
  /\ lexicon \in Lexicons /\ rules \in RuleSets /\ PosOK
  /\ phase \in {"prefix", "pass", "visit", "unknown", "collect", "done"}
  /\ pass \in 0 .. MaxPass /\ resultCount \in Nat /\ fellBack \in BOOLEAN

\* The parts make the type invariant.
LEMMA TypeParts ==
  /\ TypeOK <=> NodesOK /\ MorphsOK /\ StackOK /\ DriverOK
  /\ TypeOK' <=> NodesOK' /\ MorphsOK' /\ StackOK' /\ DriverOK'
  BY DEF TypeOK, NodesOK, MorphsOK, StackOK, DriverOK, PosOK

\* The visit on top of the stack is a frame, of a node and a position.
LEMMA TopFrame ==
  ASSUME TypeOK, stack # <<>>
  PROVE  /\ Top \in Frames /\ Top.node \in Ids /\ Len(stack) \in Nat /\ Len(stack) >= 1
         /\ nodes[Top.node] \in Nodes /\ Here \in Positions
<1>1. stack \in Seq(Frames) /\ \A k \in 1 .. Len(stack) : stack[k].node \in Ids
  BY DEF TypeOK
<1>2. Len(stack) \in Nat /\ Len(stack) >= 1
  BY <1>1
<1>3. stack[Len(stack)] \in Frames /\ stack[Len(stack)].node \in Ids
  BY <1>1, <1>2
<1>4. nodes[Top.node] \in Nodes
  BY <1>3, StartNode DEF TypeOK, Top
<1>. QED
  BY <1>2, <1>3, <1>4 DEF Top, Here, Nodes

\* A position gets the nodes that were added for it.
LEMMA Fills ==
  ASSUME IInv, NEW p \in Positions, NEW c \in ChartsAt(p),
         nodes' = c[1] \/ nodes' = [c[1] EXCEPT ![0].conn = <<>>],
         morphs' = [morphs EXCEPT ![p] = c[2]], stack' = stack
  PROVE  NodesOK' /\ MorphsOK' /\ StackOK' /\ Stacked' /\ Settled' /\ Acyclic'
<1>1. /\ NodesOK' /\ Settled' /\ Acyclic'
      /\ Ids \subseteq Ids' /\ c[2] \in Seq(Ids') /\ Len(c[2]) <= MaxMorph
      /\ \A i \in Ids : nodes'[i].state = nodes[i].state
  BY Grows DEF IInv, ChartsAt
<1>2. MorphsOK'
  <2>1. \A q \in Positions : morphs[q] \in Seq(Ids) /\ Len(morphs[q]) <= MaxMorph
    BY DEF IInv, TypeOK
  <2>2. \A q \in Positions : morphs[q] \in Seq(Ids')
    BY <1>1, <2>1
  <2>3. morphs \in [Positions -> Seq(Ids)]
    BY DEF IInv, TypeOK
  <2>. QED
    BY <1>1, <2>1, <2>2, <2>3 DEF MorphsOK
<1>3. StackOK /\ Stacked
  BY TypeParts DEF IInv
<1>4. StackOK' /\ Stacked'
  BY <1>1, <1>3 DEF StackOK, Stacked
<1>. QED
  BY <1>1, <1>2, <1>4

\* The frame on top changes, and nothing that is on the stack does.
LEMMA TopChanges ==
  ASSUME TypeOK, Stacked, stack # <<>>, NEW f \in Frames, f.node = Top.node,
         stack' = SetTop(f), Ids \subseteq Ids',
         \A k \in 1 .. Len(stack) : nodes'[stack[k].node].state = nodes[stack[k].node].state
  PROVE  StackOK' /\ Stacked' /\ Len(stack') = Len(stack)
<1>1. stack \in Seq(Frames) /\ Len(stack) \in Nat /\ Len(stack) >= 1
  BY TopFrame DEF TypeOK
<1>2. stack' \in Seq(Frames) /\ Len(stack') = Len(stack)
  BY <1>1 DEF SetTop
<1>3. \A k \in 1 .. Len(stack) : stack'[k].node = stack[k].node
  BY <1>1 DEF SetTop, Top
<1>4. \A k \in 1 .. Len(stack) : stack[k].node \in Ids
  BY DEF TypeOK
<1>5. StackOK'
  BY <1>2, <1>3, <1>4 DEF StackOK
<1>6. Stacked'
  BY <1>2, <1>3 DEF Stacked
<1>. QED
  BY <1>2, <1>5, <1>6

\* A visit further down has counted y more connections.
LEMMA CountedFrame ==
  ASSUME NEW f \in Frames, NEW y \in Nat
  PROVE  Counted(f, y) \in Frames /\ Counted(f, y).node = f.node
<1>1. f.i + 1 \in Nat \ {0} /\ f.x + y \in Nat
  BY DEF Frames
<1>. QED
  BY <1>1 DEF Frames, Counted

\* The stack loses its top, of which the frame below takes note.
LEMMA TopReturns ==
  ASSUME TypeOK, Stacked, NEW below \in Nat, below >= 1, Len(stack) = below + 1,
         NEW y \in Nat, Ids' = Ids,
         stack' = [SubSeq(stack, 1, below) EXCEPT ![below] = Counted(@, y)],
         \A i \in Ids \ {Top.node} : nodes'[i] = nodes[i]
  PROVE  StackOK' /\ Stacked'
<1> DEFINE rest == SubSeq(stack, 1, below)
           f == Counted(stack[below], y)
<1>1. stack \in Seq(Frames)
  BY DEF TypeOK
<1>2. rest \in Seq(Frames) /\ Len(rest) = below /\ \A k \in 1 .. below : rest[k] = stack[k]
  BY <1>1
<1>3. below \in 1 .. below /\ below \in 1 .. Len(stack) /\ stack[below] \in Frames
  BY <1>1
<1>4. f \in Frames /\ f.node = stack[below].node
  BY <1>3, CountedFrame
<1>5. stack' = [rest EXCEPT ![below] = f]
  <2>1. rest[below] = stack[below]
    BY <1>2, <1>3
  <2>. QED
    BY <2>1
<1> HIDE DEF f, rest
<1>6. stack' \in Seq(Frames) /\ Len(stack') = below
  BY <1>2, <1>3, <1>4, <1>5
<1>7. \A k \in 1 .. below : stack'[k].node = stack[k].node
  BY <1>2, <1>3, <1>4, <1>5
<1>8. \A k \in 1 .. below : k \in 1 .. Len(stack) /\ k # Len(stack)
  OBVIOUS
<1>9. \A k \in 1 .. below : stack[k].node \in Ids
  BY <1>8 DEF TypeOK
<1>10. \A k, l \in 1 .. Len(stack) : stack[k].node = stack[l].node => k = l
  BY DEF Stacked
<1>11. \A k \in 1 .. below : stack[k].node # Top.node
  <2>1. Len(stack) \in 1 .. Len(stack) /\ Top = stack[Len(stack)]
    BY DEF Top
  <2>. QED
    BY <1>8, <1>10, <2>1
<1>12. StackOK'
  BY <1>6, <1>7, <1>9 DEF StackOK
<1>13. Stacked'
  <2>1. \A k \in 1 .. below : nodes'[stack[k].node] = nodes[stack[k].node]
    BY <1>9, <1>11
  <2>2. \A k \in 1 .. below :
          IF k = 1 THEN stack[k].node = 0
          ELSE stack[k].node # 0 /\ nodes[stack[k].node].state = "FAIL"
    BY <1>8 DEF Stacked
  <2>. QED
    BY <1>6, <1>7, <1>8, <1>10, <2>1, <2>2 DEF Stacked
<1>. QED
  BY <1>12, <1>13

\* A list of nodes is a list of numbers.
LEMMA ListOfNodes ==
  ASSUME NEW S \in SUBSET Nat, NEW list \in Seq(S)
  PROVE  list \in Seq(Nat) /\ Len(list) \in Nat /\ (Len(list) # 0 <=> list # <<>>)
<1>1. Len(list) \in Nat /\ (Len(list) # 0 <=> list # <<>>)
  OBVIOUS
<1>2. list \in Seq(Nat)
  <2>1. ASSUME NEW k \in 1 .. Len(list)
        PROVE  list[k] \in Nat
    <3>1. list[k] \in S
      OBVIOUS
    <3>. QED
      BY <3>1
  <2>2. list = [k \in 1 .. Len(list) |-> list[k]]
    OBVIOUS
  <2>. QED
    BY <1>1, <2>1, <2>2
<1>. QED
  BY <1>1, <1>2

\* The visit on top of the stack has connected its node or left it as it was.
OwnConns(ns) == ns = nodes \/ \E c \in Conns : ns = [nodes EXCEPT ![Top.node].conn = c]

\* A visit returns.
LEMMA Returns ==
  ASSUME IInv, stack # <<>>, NEW ns,
         OwnConns(ns),
         Return(ns), PosOK'
  PROVE  IInv'
<1> DEFINE n == Top.node
           y == Len(ns[n].conn)
<1>1. TypeOK /\ Stacked /\ Settled /\ Acyclic /\ Passes
  BY DEF IInv
<1>2. n \in Ids /\ nodes[n] \in Nodes
  BY <1>1, TopFrame
<1> PICK below \in Nat : Len(stack) = below + 1
  BY <1>1, TopFrame
<1>3. nodes[n].conn \in Conns
  BY <1>1, <1>2 DEF TypeOK, Settled, Conns
<1>4. PICK c \in Conns : ns[n] = [nodes[n] EXCEPT !.conn = c] /\ ns = [nodes EXCEPT ![n] = ns[n]]
  <2>1. nodes = [nodes EXCEPT ![n] = nodes[n]] /\ nodes[n] = [nodes[n] EXCEPT !.conn = nodes[n].conn]
    BY <1>1, <1>2 DEF TypeOK, Nodes
  <2>2. CASE ns = nodes
    BY <1>3, <2>1, <2>2
  <2>3. CASE \E c \in Conns : ns = [nodes EXCEPT ![n].conn = c]
    <3>1. PICK c \in Conns : ns = [nodes EXCEPT ![n].conn = c]
      BY <2>3
    <3>2. n \in DOMAIN nodes
      BY <1>2 DEF Ids
    <3>3. ns[n] = [nodes[n] EXCEPT !.conn = c]
      BY <3>1, <3>2
    <3>4. ns = [nodes EXCEPT ![n] = ns[n]]
      BY <3>1, <3>2, <3>3
    <3>. QED
      BY <3>3, <3>4
  <2>. QED
    BY <2>2, <2>3 DEF OwnConns
<1>5. c \in Seq(Nat) /\ y = Len(c) /\ y \in Nat /\ (y # 0 <=> c # <<>>)
  <2>1. c \in Seq(Ids) /\ Ids \subseteq Nat
    BY <1>1, StartNode DEF Conns
  <2>2. c \in Seq(Nat) /\ Len(c) \in Nat /\ (Len(c) # 0 <=> c # <<>>)
    BY <2>1, ListOfNodes
  <2>. QED
    BY <1>2, <1>4, <2>2 DEF Nodes
<1>6. stack[1].node = 0 /\ (below # 0 => n # 0 /\ nodes[n].state = "FAIL")
  BY <1>1 DEF Stacked, Top
<1> DEFINE m == IF below = 0 THEN ns[n]
                ELSE [ns[n] EXCEPT !.state = IF y # 0 THEN "SUCCESS" ELSE "FAIL"]
<1>7. nodes' = [nodes EXCEPT ![n] = m]
  <2>1. n \in DOMAIN nodes
    BY <1>2 DEF Ids
  <2>2. nodes' = IF below = 0 THEN ns
                 ELSE [ns EXCEPT ![n].state = IF y # 0 THEN "SUCCESS" ELSE "FAIL"]
    BY DEF Return
  <2>3. CASE below = 0
    BY <1>4, <2>2, <2>3
  <2>4. CASE below # 0
    <3> DEFINE s == IF y # 0 THEN "SUCCESS" ELSE "FAIL"
               old == ns[n]
    <3>1. nodes' = [ns EXCEPT ![n].state = s]
      BY <1>2, <2>2, <2>4
    <3>2. ns = [nodes EXCEPT ![n] = old] /\ m = [old EXCEPT !.state = s] /\ ns[n] = old
      BY <1>4, <2>4
    <3> HIDE DEF s, old, m
    <3>. QED
      BY <2>1, <3>1, <3>2
  <2>. QED
    BY <2>3, <2>4
<1>8. m \in Nodes /\ m.conn = c /\ (below = 0 => m.state = nodes[n].state)
      /\ (below # 0 => m.state = IF y # 0 THEN "SUCCESS" ELSE "FAIL")
  BY <1>2, <1>4, <1>5 DEF Nodes, States
<1>9. IF n = 0 THEN m.state = "SUCCESS"
      ELSE nodes[n].state # "SUCCESS" /\ (m.conn # <<>> <=> m.state = "SUCCESS")
  <2>1. CASE below = 0
    <3>1. n = 0
      BY <1>6, <2>1 DEF Top
    <3>. QED
      BY <1>1, <1>8, <2>1, <3>1 DEF Settled
  <2>2. CASE below # 0
    <3>1. n # 0 /\ nodes[n].state = "FAIL"
      BY <1>2, <1>6, <2>2
    <3>2. m.conn = c /\ m.state = IF y # 0 THEN "SUCCESS" ELSE "FAIL"
      BY <1>8, <2>2
    <3> HIDE DEF m, y, n
    <3>. QED
      BY <1>5, <3>1, <3>2
  <2>. QED
    BY <2>1, <2>2
<1>10. /\ NodesOK' /\ Settled' /\ Acyclic' /\ Ids' = Ids
       /\ \A j \in Ids \ {n} : nodes'[j] = nodes[j]
  <2> HIDE DEF m, n
  <2>. QED
    BY <1>1, <1>2, <1>4, <1>7, <1>8, <1>9, Settles
<1>11. MorphsOK'
  BY <1>1, <1>10, TypeParts DEF MorphsOK, Return
<1>12. StackOK' /\ Stacked'
  <2>1. CASE below = 0
    <3>1. stack' = <<>>
      BY <2>1 DEF Return
    <3>. QED
      BY <3>1 DEF StackOK, Stacked
  <2>2. CASE below # 0
    <3>1. below >= 1 /\ Len(stack) - 1 = below
      BY <2>2
    <3>2. stack' = [SubSeq(stack, 1, below) EXCEPT ![below] = Counted(@, y)]
      <4>1. stack' = IF Len(stack) - 1 = 0 THEN <<>>
                     ELSE [SubSeq(stack, 1, Len(stack) - 1) EXCEPT ![Len(stack) - 1] = Counted(@, y)]
        BY DEF Return
      <4> HIDE DEF y
      <4>2. Len(stack) - 1 = below /\ below # 0
        BY <2>2, <3>1
      <4>. QED
        BY <4>1, <4>2
    <3> HIDE DEF y
    <3>. QED
      BY <1>1, <1>5, <1>10, <3>1, <3>2, TopReturns
  <2>. QED
    BY <2>1, <2>2
<1>13. DriverOK' /\ Passes'
  <2>1. UNCHANGED <<lexicon, rules, pass, fellBack>>
    BY DEF Return
  <2>2. resultCount' \in {y, resultCount}
    BY DEF Return
  <2>3. phase' = phase \/ (phase' \in {"unknown", "collect"}) \/ (phase' = "pass" /\ pass # MaxPass)
    BY DEF Return
  <2>4. DriverOK
    BY <1>1, TypeParts
  <2> HIDE DEF y
  <2>5. DriverOK'
    BY <1>5, <2>1, <2>2, <2>3, <2>4 DEF DriverOK
  <2>6. Passes'
    BY <1>1, <2>1, <2>3, <2>4, CapsAreNumbers DEF DriverOK, Passes
  <2>. QED
    BY <2>5, <2>6
<1>. QED
  BY <1>10, <1>11, <1>12, <1>13, TypeParts DEF IInv

-----------------------------------------------------------------------------
(* The invariant is inductive *)

\* The chart a word starts with.
LEMMA InitHolds == Init => IInv
<1>. SUFFICES ASSUME Init PROVE IInv
  OBVIOUS
<1> DEFINE start == [tag |-> IwgTag, next |-> 1, type |-> All, state |-> "SUCCESS", conn |-> <<>>]
<1>1. start \in Nodes /\ start.state = "SUCCESS" /\ start.conn = <<>>
  BY ChartAssumption DEF Nodes, Types, States
<1>2. nodes = [i \in {0} |-> start]
  BY DEF Init
<1> HIDE DEF start
<1>3. nodes \in [0 .. 0 -> Nodes] /\ Ids = {0} /\ nodes[0] = start
  <2>1. {0} = 0 .. 0
    OBVIOUS
  <2>. QED
    BY <1>1, <1>2, <2>1 DEF Ids
<1>4. ChartEnd = 1
  BY <1>3, FS_Singleton DEF ChartEnd, Ids
<1>5. NodesOK
  <2>1. 1 \in 1 .. MaxChart /\ 0 .. (ChartEnd - 1) = 0 .. 0
    BY <1>4, CapsAreNumbers
  <2>2. <<>> \in Seq(Ids) /\ Len(<<>>) <= MaxConn
    BY CapsAreNumbers
  <2>3. \A i \in Ids : nodes[i].conn = <<>>
    BY <1>1, <1>3
  <2>. QED
    BY <1>3, <1>4, <2>1, <2>2, <2>3 DEF NodesOK
<1>6. MorphsOK
  <2>1. <<0>> \in Seq(Ids) /\ <<>> \in Seq(Ids) /\ Len(<<0>>) = 1 /\ Len(<<>>) = 0
    BY <1>3
  <2>2. \A p \in Positions : morphs[p] = IF p = 0 THEN <<0>> ELSE <<>>
    BY DEF Init
  <2>3. ASSUME NEW p \in Positions
        PROVE  morphs[p] \in Seq(Ids) /\ Len(morphs[p]) <= MaxMorph
    <3>1. morphs[p] = <<0>> \/ morphs[p] = <<>>
      BY <2>2
    <3>2. 0 <= MaxMorph /\ 1 <= MaxMorph
      BY CapsAreNumbers
    <3>. QED
      BY <2>1, <3>1, <3>2
  <2>4. morphs = [p \in Positions |-> morphs[p]]
    BY DEF Init
  <2>. QED
    BY <2>3, <2>4 DEF MorphsOK
<1>7. StackOK /\ Stacked
  BY DEF Init, StackOK, Stacked
<1>8. DriverOK
  BY CapsAreNumbers DEF Init, DriverOK, PosOK
<1>9. Settled /\ Acyclic
  BY <1>1, <1>3 DEF Settled, Acyclic
<1>10. Passes
  BY CapsAreNumbers DEF Init, Passes
<1>. QED
  BY <1>5, <1>6, <1>7, <1>8, <1>9, <1>10, TypeParts DEF IInv

\* What a dictionary scan or the rules find are readings.
LEMMA FoundReadings ==
  ASSUME DriverOK, NEW p \in Positions, NEW t \in Tags
  PROVE  lexicon[p] \in Seq(Readings) /\ rules[p][t] \in Seq(Readings)
  BY ChartAssumption DEF DriverOK

\* What the steps that fill a position do.
Filled ==
  \E p \in Positions : \E c \in ChartsAt(p) :
    /\ nodes' = c[1] \/ nodes' = [c[1] EXCEPT ![0].conn = <<>>]
    /\ morphs' = [morphs EXCEPT ![p] = c[2]]
    /\ stack' = stack

\* They fill the first position or the one the visit is about.
LEMMA FillStepsFill ==
  ASSUME TypeOK,
         (\E prefix \in Parens : ParenthesizedPrefix(prefix)) \/ ScanDictionaries \/ ExpandRules
  PROVE  Filled
<1>1. DriverOK
  BY TypeParts
<1>2. ASSUME NEW prefix \in Parens, ParenthesizedPrefix(prefix)
      PROVE  Filled
  <2>1. prefix \in Seq(Readings) /\ 1 \in Positions
    BY ChartAssumption
  <2>2. Fill(1, prefix) \in ChartsAt(1)
    BY <2>1, FillStays
  <2>3. /\ nodes' = Fill(1, prefix)[1] /\ morphs' = [morphs EXCEPT ![1] = Fill(1, prefix)[2]]
        /\ stack' = stack
    BY <1>2 DEF ParenthesizedPrefix
  <2>. QED
    BY <2>1, <2>2, <2>3 DEF Filled
<1>3. ASSUME At("enter"), NEW readings \in Seq(Readings),
             nodes' = Fill(Here, readings)[1],
             morphs' = [morphs EXCEPT ![Here] = Fill(Here, readings)[2]],
             stack' = stack
      PROVE  Filled
  <2>1. Here \in Positions
    BY <1>3, TopFrame DEF At
  <2>2. Fill(Here, readings) \in ChartsAt(Here)
    BY <2>1, FillStays
  <2>. QED
    BY <1>3, <2>1, <2>2 DEF Filled
<1>4. CASE ScanDictionaries \/ ExpandRules
  <2>1. At("enter") /\ Here \in Positions /\ nodes[Top.node].tag \in Tags
    BY <1>4, TopFrame DEF ScanDictionaries, ExpandRules, At, Nodes
  <2>2. lexicon[Here] \in Seq(Readings) /\ rules[Here][nodes[Top.node].tag] \in Seq(Readings)
    BY <1>1, <2>1, FoundReadings
  <2>3. CASE ScanDictionaries
    BY <1>3, <2>1, <2>2, <2>3 DEF ScanDictionaries
  <2>4. CASE ExpandRules
    BY <1>3, <2>1, <2>2, <2>4 DEF ExpandRules
  <2>. QED
    BY <1>4, <2>3, <2>4
<1>. QED
  BY <1>2, <1>4

\* The fallback fills the first position.
LEMMA UnknownStepFills ==
  ASSUME TypeOK, AnalyzeUnknown
  PROVE  Filled
<1>1. Unknowns \in ChartsAt(1) /\ 1 \in Positions
  BY UnknownsStay, ChartAssumption
<1>2. /\ nodes' = [Unknowns[1] EXCEPT ![0].conn = <<>>]
      /\ morphs' = [morphs EXCEPT ![1] = Unknowns[2]] /\ stack' = stack
  BY DEF AnalyzeUnknown
<1>. QED
  BY <1>1, <1>2 DEF Filled

\* They keep the invariant.
LEMMA FillSteps ==
  ASSUME IInv,
         \/ (\E prefix \in Parens : ParenthesizedPrefix(prefix)) \/ ScanDictionaries \/ ExpandRules
         \/ AnalyzeUnknown
  PROVE  IInv'
<1>1. TypeOK /\ Passes /\ DriverOK
  BY TypeParts DEF IInv
<1>2. Filled
  BY <1>1, FillStepsFill, UnknownStepFills
<1>3. NodesOK' /\ MorphsOK' /\ StackOK' /\ Stacked' /\ Settled' /\ Acyclic'
  BY <1>2, Fills DEF Filled
<1>4. PosOK'
  BY <1>1 DEF ParenthesizedPrefix, ScanDictionaries, ExpandRules, AnalyzeUnknown, DriverOK, PosOK
<1>5. DriverOK' /\ Passes'
  <2>1. CASE \E prefix \in Parens : ParenthesizedPrefix(prefix)
    BY <1>1, <1>4, <2>1, CapsAreNumbers DEF ParenthesizedPrefix, DriverOK, Passes
  <2>2. CASE ScanDictionaries \/ ExpandRules
    BY <1>1, <1>4, <2>2 DEF ScanDictionaries, ExpandRules, DriverOK, Passes
  <2>3. CASE AnalyzeUnknown
    <3>1. phase' \in {"pass", "collect"} /\ pass' = 0 /\ fellBack' = TRUE
          /\ UNCHANGED <<lexicon, rules, resultCount>>
      BY <2>3 DEF AnalyzeUnknown
    <3>. QED
      BY <1>1, <1>4, <3>1, CapsAreNumbers DEF DriverOK, Passes
  <2>. QED
    BY <2>1, <2>2, <2>3
<1>. QED
  BY <1>3, <1>5, TypeParts DEF IInv

\* The steps that change the frame on top, and nothing else.
LEMMA FrameSteps ==
  ASSUME IInv, EnterR \/ PassOver
  PROVE  IInv'
<1>1. TypeOK /\ Stacked /\ stack # <<>>
  BY DEF IInv, EnterR, PassOver, InLoop, At
<1>2. Top \in Frames
  BY <1>1, TopFrame
<1>3. PICK f \in Frames : f.node = Top.node /\ stack' = SetTop(f)
  <2>1. CASE EnterR
    <3>1. [Top EXCEPT !.at = "loop"] \in Frames /\ [Top EXCEPT !.at = "loop"].node = Top.node
      BY <1>2 DEF Frames
    <3>. QED
      BY <2>1, <3>1 DEF EnterR
  <2>2. CASE PassOver
    <3> DEFINE y == IF TagTypeOK(Top.type, nodes[Current].tag) THEN Len(nodes[Current].conn) ELSE 0
               f == [Top EXCEPT !.i = @ + 1, !.x = @ + y]
    <3>1. Current \in Ids
      <4>1. morphs[Here] \in Seq(Ids) /\ Top.i \in Nat \ {0} /\ Top.i <= Len(morphs[Here])
        BY <1>1, <1>2, <2>2, TopFrame DEF PassOver, InLoop, TypeOK, Frames
      <4>. QED
        BY <4>1 DEF Current
    <3>2. y \in Nat
      <4>1. nodes[Current].conn \in Seq(Ids)
        BY <1>1, <3>1 DEF TypeOK
      <4>2. Len(nodes[Current].conn) \in Nat
        BY <4>1
      <4>. QED
        BY <4>2
    <3>3. stack' = SetTop(f)
      BY <2>2 DEF PassOver
    <3> HIDE DEF y
    <3>4. f \in Frames /\ f.node = Top.node
      <4>1. Top.i + 1 \in Nat \ {0} /\ Top.x + y \in Nat
        BY <1>2, <3>2 DEF Frames
      <4>. QED
        BY <1>2, <4>1 DEF Frames
    <3> HIDE DEF f
    <3>. QED
      BY <3>3, <3>4
  <2>. QED
    BY <2>1, <2>2
<1>4. UNCHANGED <<lexicon, rules, nodes, posState, morphs, phase, pass, resultCount, fellBack>>
  BY DEF EnterR, PassOver
<1>5. Ids' = Ids
  BY <1>4 DEF Ids
<1>6. StackOK' /\ Stacked'
  BY <1>1, <1>3, <1>4, <1>5, TopChanges
<1>7. NodesOK /\ MorphsOK /\ DriverOK /\ Settled /\ Acyclic /\ Passes
  BY TypeParts DEF IInv
<1>8. NodesOK' /\ Settled' /\ Acyclic'
  BY <1>4, <1>5, <1>7 DEF NodesOK, ChartEnd, Settled, Acyclic, Closed
<1>9. MorphsOK' /\ DriverOK' /\ Passes'
  BY <1>4, <1>5, <1>7 DEF MorphsOK, DriverOK, PosOK, Passes
<1>. QED
  BY <1>6, <1>8, <1>9, TypeParts DEF IInv

\* The node the loop looks at is a node.
LEMMA CurrentNode ==
  ASSUME TypeOK, InLoop
  PROVE  stack # <<>> /\ Current \in Ids
<1>1. stack # <<>> /\ Top.i <= Len(morphs[Here])
  BY DEF InLoop, At
<1>2. morphs[Here] \in Seq(Ids) /\ Top.i \in Nat \ {0}
  BY <1>1, TopFrame DEF TypeOK, Frames
<1>. QED
  BY <1>1, <1>2 DEF Current

\* A node that is about to be visited is on the stack nowhere.
LEMMA UnvisitedNode ==
  ASSUME TypeOK, Stacked, Settled, Unvisited
  PROVE  /\ Current \in Ids \ {0} /\ nodes[Current].state = "INCOMPLETE"
         /\ \A k \in 1 .. Len(stack) : stack[k].node # Current
<1>1. Current \in Ids /\ nodes[Current].state = "INCOMPLETE"
  BY CurrentNode DEF Unvisited
<1>2. Current # 0
  BY <1>1 DEF Settled
<1>. QED
  BY <1>1, <1>2 DEF Stacked

\* It is marked FAIL, which changes nothing for anybody else.
LEMMA MarksFail ==
  ASSUME IInv, Unvisited, nodes' = [nodes EXCEPT ![Current].state = "FAIL"]
  PROVE  /\ NodesOK' /\ Settled' /\ Acyclic' /\ Ids' = Ids
         /\ nodes'[Current].state = "FAIL"
         /\ \A j \in Ids \ {Current} : nodes'[j] = nodes[j]
<1> DEFINE i == Current
           m == [nodes[i] EXCEPT !.state = "FAIL"]
<1>1. TypeOK /\ Stacked /\ Settled /\ Acyclic
  BY DEF IInv
<1>2. i \in Ids \ {0} /\ nodes[i].state = "INCOMPLETE"
  BY <1>1, UnvisitedNode
<1>3. nodes[i] \in Nodes
  BY <1>1, <1>2, StartNode DEF TypeOK
<1>4. nodes[i].conn = <<>>
  BY <1>1, <1>2 DEF Settled
<1>5. m \in Nodes /\ m.conn = <<>> /\ m.state = "FAIL"
  BY <1>3, <1>4 DEF Nodes, States
<1>6. <<>> \in Conns
  BY CapsAreNumbers DEF Conns
<1>7. nodes' = [nodes EXCEPT ![i] = m]
  OBVIOUS
<1> HIDE DEF i, m
<1>8. /\ NodesOK' /\ Settled' /\ Acyclic' /\ Ids' = Ids
      /\ \A j \in Ids \ {i} : nodes'[j] = nodes[j]
  <2>1. m.conn \in Conns
    BY <1>5, <1>6
  <2>2. IF i = 0 THEN m.state = "SUCCESS"
        ELSE nodes[i].state # "SUCCESS" /\ (m.conn # <<>> <=> m.state = "SUCCESS")
    BY <1>2, <1>5
  <2>. QED
    BY <1>1, <1>2, <1>5, <1>7, <2>1, <2>2, Settles
<1>9. nodes'[i] = m
  BY <1>1, <1>2, <1>7 DEF Ids
<1>. QED
  BY <1>5, <1>8, <1>9 DEF i

\* The visit descends into a node: one more frame, of a node marked FAIL.
LEMMA DescendStep ==
  ASSUME IInv, Descend
  PROVE  IInv'
<1>1. TypeOK /\ Stacked /\ Settled /\ Passes /\ MorphsOK /\ DriverOK
  BY TypeParts DEF IInv
<1>2. Unvisited /\ nodes' = [nodes EXCEPT ![Current].state = "FAIL"]
      /\ stack' = Append(SetTop([Top EXCEPT !.at = "await"]), Frame(Current, nodes[Current].type))
      /\ UNCHANGED <<lexicon, rules, posState, morphs, phase, pass, resultCount, fellBack>>
  BY DEF Descend
<1>3. /\ NodesOK' /\ Settled' /\ Acyclic' /\ Ids' = Ids
      /\ nodes'[Current].state = "FAIL"
      /\ \A j \in Ids \ {Current} : nodes'[j] = nodes[j]
  BY <1>2, MarksFail
<1>4. Current \in Ids \ {0} /\ \A k \in 1 .. Len(stack) : stack[k].node # Current
  BY <1>1, <1>2, UnvisitedNode
<1>5. stack # <<>> /\ Top \in Frames
  BY <1>1, <1>2, CurrentNode, TopFrame DEF Unvisited
<1> PICK len \in Nat : Len(stack) = len + 1
  BY <1>1, <1>5, TopFrame
<1> DEFINE f == [Top EXCEPT !.at = "await"]
           g == Frame(Current, nodes[Current].type)
           s == SetTop(f)
<1>6. f \in Frames /\ f.node = Top.node
  BY <1>5 DEF Frames
<1>7. g \in Frames /\ g.node = Current
  <2>1. nodes[Current] \in Nodes /\ Current \in Nat
    BY <1>1, <1>4, StartNode DEF TypeOK
  <2>. QED
    BY <2>1 DEF Frame, Frames, Nodes
<1>8. s \in Seq(Frames) /\ Len(s) = len + 1 /\ \A k \in 1 .. (len + 1) : s[k].node = stack[k].node
  <2>1. stack \in Seq(Frames) /\ s = [stack EXCEPT ![Len(stack)] = f] /\ Top = stack[Len(stack)]
    BY <1>1 DEF TypeOK, SetTop, Top
  <2> HIDE DEF f, s
  <2>. QED
    BY <1>6, <2>1
<1>9. stack' = Append(s, g)
  BY <1>2
<1> HIDE DEF f, g, s
<1>10. stack' \in Seq(Frames) /\ Len(stack') = len + 2
  BY <1>7, <1>8, <1>9
<1>11. \A k \in 1 .. (len + 1) : stack'[k].node = stack[k].node
  BY <1>7, <1>8, <1>9
<1>12. stack'[len + 2].node = Current
  BY <1>7, <1>8, <1>9
<1>13. \A k \in 1 .. (len + 2) : k \in 1 .. (len + 1) \/ k = len + 2
  OBVIOUS
<1>14. \A k \in 1 .. (len + 1) : stack[k].node \in Ids \ {Current}
  BY <1>1, <1>4 DEF TypeOK
<1>15. StackOK'
  BY <1>3, <1>4, <1>10, <1>11, <1>12, <1>13, <1>14 DEF StackOK
<1>16. Stacked'
  <2>1. ASSUME NEW k \in 1 .. (len + 2)
        PROVE  IF k = 1 THEN stack'[k].node = 0
               ELSE stack'[k].node # 0 /\ nodes'[stack'[k].node].state = "FAIL"
    <3>1. CASE k = len + 2
      <4>1. k # 1
        BY <3>1
      <4>. QED
        BY <1>3, <1>4, <1>12, <3>1, <4>1
    <3>2. CASE k \in 1 .. (len + 1)
      <4>1. stack'[k].node = stack[k].node /\ nodes'[stack[k].node] = nodes[stack[k].node]
        BY <1>3, <1>11, <1>14, <3>2
      <4>2. k \in 1 .. Len(stack)
        BY <3>2
      <4>. QED
        BY <1>1, <4>1, <4>2 DEF Stacked
    <3>. QED
      BY <1>13, <3>1, <3>2
  <2>2. \A k, l \in 1 .. (len + 1) : stack[k].node = stack[l].node => k = l
    BY <1>1 DEF Stacked
  <2>3. \A k, l \in 1 .. (len + 2) : stack'[k].node = stack'[l].node => k = l
    BY <1>11, <1>12, <1>13, <1>14, <2>2
  <2>. QED
    BY <1>10, <2>1, <2>3 DEF Stacked
<1>17. MorphsOK' /\ DriverOK' /\ Passes'
  BY <1>1, <1>2, <1>3 DEF MorphsOK, DriverOK, PosOK, Passes
<1>. QED
  BY <1>3, <1>15, <1>16, <1>17, TypeParts DEF IInv

\* A visit too deep only marks the node.
LEMMA RefuseStep ==
  ASSUME IInv, RefuseDepth
  PROVE  IInv'
<1>1. TypeOK /\ Stacked /\ Settled /\ Passes /\ MorphsOK /\ DriverOK
  BY TypeParts DEF IInv
<1>2. Unvisited /\ nodes' = [nodes EXCEPT ![Current].state = "FAIL"]
      /\ stack' = SetTop([Top EXCEPT !.i = @ + 1])
      /\ UNCHANGED <<lexicon, rules, posState, morphs, phase, pass, resultCount, fellBack>>
  BY DEF RefuseDepth
<1>3. /\ NodesOK' /\ Settled' /\ Acyclic' /\ Ids' = Ids
      /\ \A j \in Ids \ {Current} : nodes'[j] = nodes[j]
  BY <1>2, MarksFail
<1>4. stack # <<>> /\ Top \in Frames
  BY <1>1, <1>2, CurrentNode, TopFrame DEF Unvisited
<1>5. \A k \in 1 .. Len(stack) : nodes'[stack[k].node].state = nodes[stack[k].node].state
  BY <1>1, <1>2, <1>3, UnvisitedNode DEF TypeOK
<1> DEFINE f == [Top EXCEPT !.i = @ + 1]
<1>6. f \in Frames /\ f.node = Top.node
  <2>1. Top.i + 1 \in Nat \ {0}
    BY <1>4 DEF Frames
  <2>. QED
    BY <1>4, <2>1 DEF Frames
<1>7. stack' = SetTop(f)
  BY <1>2
<1> HIDE DEF f
<1>8. StackOK' /\ Stacked'
  BY <1>1, <1>3, <1>4, <1>5, <1>6, <1>7, TopChanges
<1>9. MorphsOK' /\ DriverOK' /\ Passes'
  BY <1>1, <1>2, <1>3 DEF MorphsOK, DriverOK, PosOK, Passes
<1>. QED
  BY <1>3, <1>8, <1>9, TypeParts DEF IInv

\* The steps with which a visit returns.
LEMMA ReturnSteps ==
  ASSUME IInv, EnterM \/ EnterF \/ EndLoop
  PROVE  IInv'
<1>1. TypeOK /\ Settled /\ PosOK /\ stack # <<>>
  BY TypeParts DEF IInv, EnterM, EnterF, EndLoop, At, DriverOK
<1>2. Top.node \in Ids /\ Here \in Positions
  BY <1>1, TopFrame
<1>3. OwnConns(nodes) /\ OwnConns(Connected(Top.node, Here))
  BY <1>1, <1>2, ConnectedStays DEF OwnConns, ConnsOf
<1>4. CASE EnterM
  BY <1>1, <1>3, <1>4, Returns DEF EnterM, PosOK
<1>5. CASE EnterF
  BY <1>1, <1>3, <1>5, Returns DEF EnterF, PosOK
<1>6. CASE EndLoop
  <2> DEFINE settled == IF Top.type # All THEN posState[Here] ELSE IF Top.x = 0 THEN "F" ELSE "M"
             ns == IF settled = "F" THEN nodes ELSE Connected(Top.node, Here)
  <2>1. posState' = [posState EXCEPT ![Here] = settled] /\ Return(ns)
    BY <1>6 DEF EndLoop
  <2>2. settled \in {"N", "D", "R", "M", "F"}
    BY <1>1, <1>2 DEF PosOK
  <2>3. OwnConns(ns)
    BY <1>3
  <2> HIDE DEF settled, ns
  <2>4. PosOK'
    BY <1>1, <2>1, <2>2 DEF PosOK
  <2>. QED
    BY <1>1, <2>1, <2>3, <2>4, Returns
<1>. QED
  BY <1>4, <1>5, <1>6

\* The driver's own steps, and no step at all.
LEMMA DriverSteps ==
  ASSUME IInv, StartPass \/ CollectResults \/ UNCHANGED vars
  PROVE  IInv'
<1>1. NodesOK /\ MorphsOK /\ StackOK /\ DriverOK /\ Stacked /\ Settled /\ Acyclic /\ Passes /\ TypeOK
  BY TypeParts DEF IInv
<1>2. UNCHANGED <<lexicon, rules, nodes, posState, morphs, resultCount, fellBack>>
  BY DEF StartPass, CollectResults, vars
<1>3. Ids' = Ids
  BY <1>2 DEF Ids
<1>4. NodesOK' /\ Settled' /\ Acyclic' /\ MorphsOK' /\ PosOK'
  BY <1>1, <1>2, <1>3
     DEF NodesOK, ChartEnd, Settled, Acyclic, Closed, MorphsOK, DriverOK, PosOK
<1>5. CASE StartPass
  <2>1. stack' = <<Frame(0, All)>> /\ pass' = pass + 1 /\ phase' = "visit" /\ phase = "pass"
    BY <1>5 DEF StartPass
  <2>2. Frame(0, All) \in Frames /\ Frame(0, All).node = 0
    BY DEF Frame, Frames, Types
  <2>3. StackOK' /\ Stacked'
    <3>1. stack' \in Seq(Frames) /\ Len(stack') = 1 /\ stack'[1].node = 0
      BY <2>1, <2>2
    <3>2. \A k \in 1 .. Len(stack') : k = 1
      BY <3>1
    <3>. QED
      BY <1>1, <1>3, <3>1, <3>2, StartNode DEF StackOK, Stacked
  <2>4. pass + 1 \in 0 .. MaxPass
    BY <1>1, <2>1, CapsAreNumbers DEF DriverOK, Passes
  <2>5. DriverOK' /\ Passes'
    BY <1>1, <1>2, <1>4, <2>1, <2>4 DEF DriverOK, Passes
  <2>. QED
    BY <1>4, <2>3, <2>5, TypeParts DEF IInv
<1>6. CASE CollectResults \/ UNCHANGED vars
  <2>1. UNCHANGED <<stack, pass>> /\ phase' \in {phase, "done"}
    BY <1>6 DEF CollectResults, vars
  <2>2. StackOK' /\ Stacked'
    BY <1>1, <1>2, <1>3, <2>1 DEF StackOK, Stacked
  <2>3. DriverOK' /\ Passes'
    BY <1>1, <1>2, <1>4, <2>1 DEF DriverOK, Passes
  <2>. QED
    BY <1>4, <2>2, <2>3, TypeParts DEF IInv
<1>. QED
  BY <1>5, <1>6

\* Every step keeps the invariant.
LEMMA NextHolds == IInv /\ [Next]_vars => IInv'
<1>. SUFFICES ASSUME IInv, [Next]_vars PROVE IInv'
  OBVIOUS
<1>1. CASE (\E prefix \in Parens : ParenthesizedPrefix(prefix)) \/ ScanDictionaries \/ ExpandRules
  BY <1>1, FillSteps
<1>2. CASE EnterR \/ PassOver
  BY <1>2, FrameSteps
<1>3. CASE EnterM \/ EnterF \/ EndLoop
  BY <1>3, ReturnSteps
<1>4. CASE Descend
  BY <1>4, DescendStep
<1>5. CASE RefuseDepth
  BY <1>5, RefuseStep
<1>6. CASE AnalyzeUnknown
  BY <1>6, FillSteps
<1>7. CASE StartPass \/ CollectResults \/ UNCHANGED vars
  BY <1>7, DriverSteps
<1>. QED
  BY <1>1, <1>2, <1>3, <1>4, <1>5, <1>6, <1>7 DEF Next

\* The invariant of the analysis.
LEMMA Invariant == Spec => []IInv
  BY InitHolds, NextHolds, PTL DEF Spec

-----------------------------------------------------------------------------
(* What it says *)

\* The chart, the lists of the positions and the stack keep to their types
\* and their caps (MAX_MORPHEME_CHART, _CONNECTION, _COUNT), whatever the
\* dictionaries and the rules hold.
THEOREM TypeCorrect == Spec => []TypeOK
<1>1. IInv => TypeOK
  BY DEF IInv
<1>. QED
  BY <1>1, Invariant, PTL

\* morpheme_chart_connect_m_state only ever connects a node to one that has
\* succeeded and stays so.
THEOREM OnlySucceeded == Spec => []ConnectedSucceeded
<1>1. ASSUME IInv
      PROVE  ConnectedSucceeded
  <2>. SUFFICES ASSUME NEW i \in Ids, NEW j \in ToSet(nodes[i].conn)
                PROVE  nodes[j].state = "SUCCESS" /\ (j # 0 => nodes[j].conn # <<>>)
    BY DEF ConnectedSucceeded
  <2>1. nodes[i].conn \in Seq(Ids)
    BY <1>1 DEF IInv, TypeOK
  <2>2. PICK k \in 1 .. Len(nodes[i].conn) : j = nodes[i].conn[k]
    BY <2>1 DEF ToSet
  <2>3. j \in Ids /\ nodes[j].state = "SUCCESS"
    BY <1>1, <2>1, <2>2 DEF IInv, Settled
  <2>. QED
    BY <1>1, <2>3 DEF IInv, Settled
<1>2. IInv => ConnectedSucceeded
  BY <1>1
<1>. QED
  BY <1>2, Invariant, PTL

\* The stack is as long as the visits on it are of different nodes.
LEMMA StackOfNodes ==
  ASSUME IInv
  PROVE  RecursionWithinChart
<1> DEFINE N == Len(stack)
           f == [k \in 1 .. N |-> stack[k].node]
<1>1. N \in Nat /\ \A k \in 1 .. N : stack[k].node \in Ids
  BY DEF IInv, TypeOK
<1>2. \A k, l \in 1 .. N : stack[k].node = stack[l].node => k = l
  BY DEF IInv, Stacked
<1>3. OnStack = { stack[k].node : k \in 1 .. N } /\ OnStack \subseteq Ids
  BY <1>1 DEF OnStack
<1> HIDE DEF N
<1>4. f \in Bijection(1 .. N, OnStack)
  <2>1. f \in [1 .. N -> OnStack]
    BY <1>3
  <2>2. \A x \in OnStack : \E k \in 1 .. N : f[k] = x
    BY <1>3
  <2>3. \A k, l \in 1 .. N : f[k] = f[l] => k = l
    BY <1>2
  <2>. QED
    BY <2>1, <2>2, <2>3 DEF Bijection, Injection, Surjection, IsInjective
<1>5. IsFiniteSet(1 .. N) /\ Cardinality(1 .. N) = N
  BY <1>1, FS_Interval
<1>6. Cardinality(OnStack) = N
  BY <1>4, <1>5, FS_Bijection DEF ExistsBijection
<1>7. IsFiniteSet(Ids) /\ Cardinality(Ids) = ChartEnd
  <2>1. ChartEnd \in Nat /\ Ids = 0 .. (ChartEnd - 1)
    BY StartNode, CapsAreNumbers DEF IInv, TypeOK
  <2>2. IsFiniteSet(0 .. (ChartEnd - 1))
    BY <2>1, FS_Interval
  <2>. QED
    BY <2>1, <2>2 DEF ChartEnd, Ids
<1>8. Cardinality(OnStack) <= ChartEnd
  BY <1>3, <1>7, FS_Subset
<1>. QED
  BY <1>6, <1>8 DEF RecursionWithinChart, N

\* The marking of nodes bounds the recursion by the chart, whatever links,
\* lexicon and rules the word has.
THEOREM RecursionBounded == Spec => []RecursionWithinChart
<1>1. IInv => RecursionWithinChart
  BY StackOfNodes
<1>. QED
  BY <1>1, Invariant, PTL

\* Taking away nodes until none can be taken away leaves a closed set, for
\* which there are not enough nodes to go on for as many turns as there are.
LEMMA NothingLeft ==
  ASSUME IInv
  PROVE  ConnectionsAcyclic
<1> DEFINE N == ChartEnd
           V == SUBSET (Ids \ {0})
           base == Ids \ {0}
           next(rest) == { i \in rest : ToSet(nodes[i].conn) \cap rest # {} }
           step == [x \in V \X (1 .. N) |-> next(x[1])]
           f == CHOOSE f : f = [k \in 0 .. N |-> IF k = 0 THEN base ELSE next(f[k - 1])]
<1>1. N \in Nat /\ base \in V /\ IsFiniteSet(base) /\ Cardinality(base) < N
  <2>1. ChartEnd \in Nat /\ Ids = 0 .. (ChartEnd - 1) /\ 0 \in Ids
    BY StartNode, CapsAreNumbers DEF IInv, TypeOK
  <2>2. IsFiniteSet(Ids) /\ Cardinality(Ids) = ChartEnd
    <3>1. IsFiniteSet(0 .. (ChartEnd - 1))
      BY <2>1, FS_Interval
    <3>. QED
      BY <2>1, <3>1 DEF ChartEnd, Ids
  <2>3. IsFiniteSet(Ids \ {0}) /\ Cardinality(Ids \ {0}) = ChartEnd - 1
    <3>1. IsFiniteSet(Ids \ {0})
          /\ Cardinality(Ids \ {0}) = IF 0 \in Ids THEN Cardinality(Ids) - 1 ELSE Cardinality(Ids)
      BY <2>2, FS_RemoveElement
    <3>. QED
      BY <2>1, <2>2, <3>1
  <2>. QED
    BY <2>1, <2>3
<1>2. \A rest \in V : next(rest) \in V
  OBVIOUS
<1>3. IsStep(step, N, V)
  <2> HIDE DEF V, next
  <2>. QED
    BY <1>2 DEF IsStep
<1>4. \A rest \in V, k \in 1 .. N : step[<<rest, k>>] = next(rest)
  <2> HIDE DEF V, next
  <2>. QED
    OBVIOUS
<1>5. \A rest \in V : next(rest) = rest => rest = {}
  <2>. SUFFICES ASSUME NEW rest \in V, next(rest) = rest
                PROVE  Closed(rest)
    BY DEF IInv, Acyclic
  <2>. SUFFICES ASSUME NEW i \in rest
                PROVE  \E k \in 1 .. Len(nodes[i].conn) : nodes[i].conn[k] \in rest
    BY DEF Closed
  <2>1. nodes[i].conn \in Seq(Ids)
    BY DEF IInv, TypeOK
  <2>2. PICK j \in ToSet(nodes[i].conn) : j \in rest
    OBVIOUS
  <2>. QED
    BY <2>1, <2>2 DEF ToSet
<1>6. \A rest \in V : IsFiniteSet(rest) =>
        /\ IsFiniteSet(next(rest)) /\ Cardinality(rest) \in Nat /\ Cardinality(next(rest)) \in Nat
        /\ rest = {} \/ Cardinality(next(rest)) < Cardinality(rest)
  <2>. SUFFICES ASSUME NEW rest \in V, IsFiniteSet(rest)
                PROVE  /\ IsFiniteSet(next(rest)) /\ Cardinality(rest) \in Nat
                       /\ Cardinality(next(rest)) \in Nat
                       /\ rest = {} \/ Cardinality(next(rest)) < Cardinality(rest)
    OBVIOUS
  <2>1. next(rest) \in SUBSET rest
    OBVIOUS
  <2> HIDE DEF next
  <2>2. /\ IsFiniteSet(next(rest)) /\ Cardinality(next(rest)) <= Cardinality(rest)
        /\ Cardinality(rest) = Cardinality(next(rest)) => rest = next(rest)
    BY <2>1, FS_Subset
  <2>3. Cardinality(rest) \in Nat /\ Cardinality(next(rest)) \in Nat
    BY <2>2, FS_CardinalityType
  <2>. QED
    BY <1>5, <2>2, <2>3
<1>7. next({}) = {}
  OBVIOUS
<1> HIDE DEF N, V, base, step, next
<1>8. PICK g : IsRun(g, N, V, base, step)
  BY <1>1, <1>3, Recursion
<1>9. \A k \in 1 .. N : g[k] = next(g[k - 1])
  <2>. SUFFICES ASSUME NEW k \in 1 .. N
                PROVE  g[k] = next(g[k - 1])
    OBVIOUS
  <2>1. k - 1 \in 0 .. N
    BY <1>1
  <2>2. g[k - 1] \in V
    BY <1>8, <2>1 DEF IsRun
  <2>. QED
    BY <1>4, <1>8, <2>2 DEF IsRun
<1>10. g = [k \in 0 .. N |-> IF k = 0 THEN base ELSE next(g[k - 1])]
  <2> DEFINE h == [k \in 0 .. N |-> IF k = 0 THEN base ELSE next(g[k - 1])]
  <2>1. \A k \in 0 .. N : k # 0 => k \in 1 .. N
    BY <1>1
  <2>2. \A k \in 0 .. N : g[k] = h[k]
    BY <1>8, <1>9, <2>1 DEF IsRun
  <2>3. DOMAIN g = 0 .. N /\ DOMAIN h = 0 .. N /\ g = [k \in 0 .. N |-> g[k]]
    BY <1>8 DEF IsRun
  <2>. QED
    BY <2>2, <2>3
<1>11. f = [k \in 0 .. N |-> IF k = 0 THEN base ELSE next(f[k - 1])]
  BY <1>10
<1> HIDE DEF f
<1> DEFINE S == { k \in 0 .. N : /\ f[k] \in V /\ IsFiniteSet(f[k])
                                 /\ f[k] = {} \/ Cardinality(f[k]) + k < N }
<1>12. 0 \in S
  <2>1. f[0] = base /\ 0 \in 0 .. N
    BY <1>1, <1>11
  <2>2. Cardinality(base) \in Nat
    BY <1>1, FS_CardinalityType
  <2>. QED
    BY <1>1, <2>1, <2>2
<1>13. ASSUME NEW k \in 1 .. N, k - 1 \in S
       PROVE  k \in S
  <2>1. k \in 0 .. N /\ k # 0 /\ k \in Nat /\ k - 1 \in Nat
    BY <1>1
  <2>2. f[k] = next(f[k - 1])
    BY <1>11, <2>1
  <2> DEFINE rest == f[k - 1]
  <2>3. rest \in V /\ IsFiniteSet(rest) /\ (rest = {} \/ Cardinality(rest) + (k - 1) < N)
    BY <1>13
  <2> HIDE DEF rest
  <2>4. next(rest) \in V /\ IsFiniteSet(next(rest))
    BY <1>2, <1>6, <2>3
  <2>5. next(rest) = {} \/ Cardinality(next(rest)) + k < N
    <3>1. CASE rest = {}
      BY <1>7, <3>1
    <3>2. CASE rest # {}
      <4>1. /\ Cardinality(rest) \in Nat /\ Cardinality(next(rest)) \in Nat
            /\ Cardinality(next(rest)) < Cardinality(rest)
        BY <1>6, <2>3, <3>2
      <4>2. Cardinality(rest) + (k - 1) < N
        BY <2>3, <3>2
      <4>. QED
        BY <1>1, <2>1, <4>1, <4>2
    <3>. QED
      BY <3>1, <3>2
  <2>6. f[k] = next(rest)
    BY <2>2 DEF rest
  <2>. QED
    BY <2>1, <2>4, <2>5, <2>6
<1>14. 0 .. N \subseteq S
  <2> HIDE DEF S
  <2>. QED
    BY <1>1, <1>12, <1>13, Induction
<1>15. f[N] = {}
  <2>1. IsFiniteSet(f[N]) /\ (f[N] = {} \/ Cardinality(f[N]) + N < N)
    BY <1>1, <1>14
  <2>2. Cardinality(f[N]) \in Nat
    BY <2>1, FS_CardinalityType
  <2>. QED
    BY <1>1, <2>1, <2>2
<1>. QED
  BY <1>15 DEF ConnectionsAcyclic, f, N, base, next

\* "The connection graph is acyclic", also where the rules lead back to the
\* position they started from.
THEOREM Acyclicity == Spec => []ConnectionsAcyclic
<1>1. IInv => ConnectionsAcyclic
  BY NothingLeft
<1>. QED
  BY <1>1, Invariant, PTL

\* The nodes a step may change are the one being visited, one that was never
\* visited, and the start node.
LEMMA StepsSettle ==
  ASSUME IInv, [Next]_vars
  PROVE  \A i \in Ids \ {0} :
           nodes[i].state # "INCOMPLETE" /\ i \notin OnStack => nodes'[i] = nodes[i]
<1>1. TypeOK /\ Stacked /\ Settled /\ Acyclic
  BY DEF IInv
<1>2. CASE Filled
  BY <1>1, <1>2, Grows DEF Filled, ChartsAt
<1>3. CASE (\E prefix \in Parens : ParenthesizedPrefix(prefix)) \/ ScanDictionaries \/ ExpandRules
  BY <1>1, <1>2, <1>3, FillStepsFill
<1>4. CASE AnalyzeUnknown
  BY <1>1, <1>2, <1>4, UnknownStepFills
<1>5. CASE EnterM \/ EnterF \/ EndLoop
  <2>1. stack # <<>>
    BY <1>5 DEF EnterM, EnterF, EndLoop, At
  <2>2. Top.node \in Ids /\ Here \in Positions
    BY <1>1, <2>1, TopFrame
  <2>3. Top.node \in OnStack
    BY <1>1, <2>1, TopFrame DEF OnStack, Top
  <2>4. PICK ns : Return(ns) /\ (ns = nodes \/ ns = Connected(Top.node, Here))
    BY <1>5 DEF EnterM, EnterF, EndLoop
  <2>5. \A i \in Ids \ {Top.node} : ns[i] = nodes[i]
    <3>1. PICK c \in Conns : Connected(Top.node, Here) = [nodes EXCEPT ![Top.node].conn = c]
      BY <1>1, <2>2, ConnectedStays DEF ConnsOf
    <3>. QED
      BY <2>4, <3>1 DEF Ids
  <2>6. DOMAIN ns = Ids
    <3>1. PICK c \in Conns : Connected(Top.node, Here) = [nodes EXCEPT ![Top.node].conn = c]
      BY <1>1, <2>2, ConnectedStays DEF ConnsOf
    <3>. QED
      BY <2>4, <3>1 DEF Ids
  <2>7. nodes' = ns \/ \E s : nodes' = [ns EXCEPT ![Top.node].state = s]
    BY <2>4 DEF Return
  <2>8. \A i \in Ids \ {Top.node} : nodes'[i] = nodes[i]
    BY <2>5, <2>6, <2>7
  <2>. QED
    BY <2>3, <2>8
<1>6. CASE Descend \/ RefuseDepth
  <2>1. Unvisited /\ nodes' = [nodes EXCEPT ![Current].state = "FAIL"]
    BY <1>6 DEF Descend, RefuseDepth
  <2>2. nodes[Current].state = "INCOMPLETE" /\ \A i \in Ids \ {Current} : nodes'[i] = nodes[i]
    BY <1>1, <2>1, UnvisitedNode, MarksFail
  <2>. QED
    BY <2>2
<1>7. CASE EnterR \/ PassOver \/ StartPass \/ CollectResults \/ UNCHANGED vars
  BY <1>7 DEF EnterR, PassOver, StartPass, CollectResults, vars
<1>. QED
  BY <1>3, <1>4, <1>5, <1>6, <1>7 DEF Next

\* What has been counted or connected to is never changed under its users.
THEOREM NothingSettledChanges == Spec => SettledStays
<1>1. IInv /\ [Next]_vars =>
        [\A i \in Ids \ {0} :
           nodes[i].state # "INCOMPLETE" /\ i \notin OnStack => nodes'[i] = nodes[i]]_vars
  BY StepsSettle
<1>. QED
  BY <1>1, Invariant, PTL DEF Spec, SettledStays

-----------------------------------------------------------------------------
(* The paths through the connections *)

\* A path from the start node along connections, and one that may end there:
\* a candidate.
Walk(path) ==
  /\ path \in Seq(Ids) \ {<<>>}
  /\ path[1] = 0
  /\ \A k \in 2 .. Len(path) : path[k] # 0 /\ path[k] \in ToSet(nodes[path[k - 1]].conn)
Candidate(path) == Walk(path) /\ 0 \in ToSet(nodes[path[Len(path)]].conn)

\* A walk comes to no node twice.
LEMMA WalkOnce ==
  ASSUME TypeOK, Acyclic, NEW path, Walk(path)
  PROVE  \A a, b \in 1 .. Len(path) : path[a] = path[b] => a = b
<1>1. path \in Seq(Ids) /\ Len(path) \in Nat /\ Len(path) >= 1
  BY DEF Walk
<1>2. ASSUME NEW a \in 1 .. Len(path), NEW b \in 1 .. Len(path), a < b, path[a] = path[b]
      PROVE  FALSE
  <2> DEFINE S == { path[k] : k \in (a + 1) .. b }
  <2>1. \A k \in (a + 1) .. b : k \in 2 .. Len(path) /\ path[k] \in Ids /\ path[k] # 0
    <3>1. \A k \in (a + 1) .. b : k \in 2 .. Len(path)
      BY <1>1
    <3>. QED
      BY <1>1, <3>1 DEF Walk
  <2>2. S \in SUBSET (Ids \ {0})
    BY <2>1
  <2>3. path[b] \in S
    BY <1>1, <1>2
  <2>4. ASSUME NEW i \in S
        PROVE  \E k \in 1 .. Len(nodes[i].conn) : nodes[i].conn[k] \in S
    <3>1. PICK k \in (a + 1) .. b : path[k] = i
      BY <2>4
    <3>2. PICK m \in (a + 1) .. b : path[m] \in ToSet(nodes[i].conn)
      <4>1. CASE k = b
        <5>1. a + 1 \in 2 .. Len(path) /\ a + 1 \in (a + 1) .. b /\ (a + 1) - 1 = a
          BY <1>1, <1>2
        <5>2. path[a + 1] \in ToSet(nodes[path[a]].conn)
          BY <5>1 DEF Walk
        <5>. QED
          BY <1>2, <3>1, <4>1, <5>1, <5>2
      <4>2. CASE k # b
        <5>1. k + 1 \in 2 .. Len(path) /\ k + 1 \in (a + 1) .. b /\ (k + 1) - 1 = k
          BY <1>1, <1>2, <4>2
        <5>2. path[k + 1] \in ToSet(nodes[path[k]].conn)
          BY <5>1 DEF Walk
        <5>. QED
          BY <3>1, <5>1, <5>2
      <4>. QED
        BY <4>1, <4>2
    <3>3. i \in Ids /\ nodes[i].conn \in Seq(Ids)
      BY <2>2 DEF TypeOK
    <3>4. path[m] \in S
      OBVIOUS
    <3> DEFINE list == nodes[i].conn
    <3> HIDE DEF list, S
    <3>5. PICK l \in 1 .. Len(list) : list[l] = path[m]
      <4>1. list \in Seq(Ids) /\ path[m] \in ToSet(list)
        BY <3>2, <3>3 DEF list
      <4>. QED
        BY <4>1, SMTT(30) DEF ToSet
    <3>. QED
      BY <3>4, <3>5 DEF list
  <2>. QED
    BY <2>2, <2>3, <2>4 DEF Acyclic, Closed
<1>3. ASSUME NEW a \in 1 .. Len(path), NEW b \in 1 .. Len(path), path[a] = path[b]
      PROVE  a = b
  <2>1. a < b \/ b < a \/ a = b
    BY <1>1
  <2>. QED
    BY <1>2, <1>3, <2>1
<1>. QED
  BY <1>3

\* So it is no longer than the chart.
LEMMA WalkFits ==
  ASSUME TypeOK, Acyclic, NEW path, Walk(path)
  PROVE  Len(path) <= ChartEnd
<1> DEFINE N == Len(path)
           f == [k \in 1 .. N |-> path[k]]
           T == { path[k] : k \in 1 .. N }
<1>1. path \in Seq(Ids) /\ N \in Nat
  BY DEF Walk
<1>2. \A k, l \in 1 .. N : path[k] = path[l] => k = l
  BY WalkOnce
<1>3. T \subseteq Ids
  BY <1>1
<1>4. f \in Bijection(1 .. N, T)
  <2> HIDE DEF N
  <2>1. f \in [1 .. N -> T]
    OBVIOUS
  <2>2. \A x \in T : \E k \in 1 .. N : f[k] = x
    OBVIOUS
  <2>3. \A k, l \in 1 .. N : f[k] = f[l] => k = l
    BY <1>2
  <2>. QED
    BY <2>1, <2>2, <2>3 DEF Bijection, Injection, Surjection, IsInjective
<1> HIDE DEF N, f, T
<1>5. IsFiniteSet(1 .. N) /\ Cardinality(1 .. N) = N
  BY <1>1, FS_Interval
<1>6. Cardinality(T) = N
  BY <1>4, <1>5, FS_Bijection DEF ExistsBijection
<1>7. IsFiniteSet(Ids) /\ Cardinality(Ids) = ChartEnd
  <2>1. ChartEnd \in Nat /\ Ids = 0 .. (ChartEnd - 1)
    BY StartNode, CapsAreNumbers DEF TypeOK
  <2>2. IsFiniteSet(0 .. (ChartEnd - 1))
    BY <2>1, FS_Interval
  <2>. QED
    BY <2>1, <2>2 DEF ChartEnd, Ids
<1>8. Cardinality(T) <= ChartEnd
  BY <1>3, <1>7, FS_Subset
<1>. QED
  BY <1>6, <1>8 DEF N

\* It goes on to whatever its last node is connected to but the start node.
LEMMA WalkOn ==
  ASSUME TypeOK, NEW path, Walk(path), NEW j \in ToSet(nodes[path[Len(path)]].conn), j # 0
  PROVE  Walk(Append(path, j)) /\ Len(Append(path, j)) = Len(path) + 1
<1>1. path \in Seq(Ids) /\ Len(path) \in Nat /\ Len(path) >= 1 /\ path[Len(path)] \in Ids
  BY DEF Walk
<1>2. j \in Ids
  BY <1>1 DEF TypeOK, ToSet
<1> DEFINE more == Append(path, j)
<1>3. /\ more \in Seq(Ids) /\ Len(more) = Len(path) + 1
      /\ \A k \in 1 .. Len(path) : more[k] = path[k]
      /\ more[Len(path) + 1] = j
  BY <1>1, <1>2
<1> HIDE DEF more
<1>4. ASSUME NEW k \in 2 .. Len(more)
      PROVE  more[k] # 0 /\ more[k] \in ToSet(nodes[more[k - 1]].conn)
  <2>1. CASE k = Len(path) + 1
    <3>1. k - 1 = Len(path) /\ Len(path) \in 1 .. Len(path)
      BY <1>1, <2>1
    <3>. QED
      BY <1>3, <2>1, <3>1
  <2>2. CASE k # Len(path) + 1
    <3>1. k \in 2 .. Len(path) /\ k \in 1 .. Len(path) /\ k - 1 \in 1 .. Len(path)
      BY <1>1, <1>3, <2>2
    <3>. QED
      BY <1>3, <3>1 DEF Walk
  <2>. QED
    BY <2>1, <2>2
<1>5. more[1] = 0 /\ more # <<>>
  BY <1>1, <1>3 DEF Walk
<1>. QED
  BY <1>3, <1>4, <1>5 DEF Walk, more

-----------------------------------------------------------------------------
(* Collecting the paths *)

Lists == Seq(Seq(Nat))
Searches == [Seq(Ids) \ {<<>>} -> [Lists -> Lists]]

\* One connection more of the last node of a path.
After(path, deeper, j, found) ==
  IF j = 0 THEN Append(found, path) ELSE deeper[Append(path, j)][found]

\* The loop over the connections of the last node of a path, conn, is loop.
IsLoop(loop, path, conn, deeper) ==
  /\ loop \in [0 .. Len(conn) -> [Lists -> Lists]]
  /\ \A found \in Lists : loop[0][found] = found
  /\ \A left \in 1 .. Len(conn), found \in Lists :
       loop[left][found] =
         IF Len(found) >= MaxCandidates THEN found
         ELSE loop[left - 1][After(path, deeper, conn[Len(conn) - left + 1], found)]

\* What is found after one connection more is a list.
LEMMA AfterIsList ==
  ASSUME TypeOK, NEW path \in Seq(Ids) \ {<<>>}, NEW deeper \in Searches,
         NEW j \in Ids, NEW found \in Lists
  PROVE  After(path, deeper, j, found) \in Lists
<1>1. path \in Seq(Nat)
  <2>1. Ids \subseteq Nat /\ path \in Seq(Ids)
    BY StartNode
  <2>. QED
    BY <2>1, ListOfNodes
<1>2. CASE j = 0
  BY <1>1, <1>2 DEF After, Lists
<1>3. CASE j # 0
  <2>1. Append(path, j) \in Seq(Ids) \ {<<>>}
    OBVIOUS
  <2>2. deeper[Append(path, j)] \in [Lists -> Lists]
    BY <2>1 DEF Searches
  <2>. QED
    BY <1>3, <2>2 DEF After
<1>. QED
  BY <1>2, <1>3

\* There is such a loop, and it is what Collected is defined by.
LEMMA CollectedIsLoop ==
  ASSUME TypeOK, NEW path \in Seq(Ids) \ {<<>>}, NEW deeper \in Searches
  PROVE  \E loop : /\ IsLoop(loop, path, nodes[path[Len(path)]].conn, deeper)
                   /\ Collected(path, deeper) = loop[Len(nodes[path[Len(path)]].conn)]
<1> DEFINE conn == nodes[path[Len(path)]].conn
           N == Len(conn)
           to(left) == conn[N - left + 1]
           V == [Lists -> Lists]
           turn(h, left) ==
             [found \in Lists |-> IF Len(found) >= MaxCandidates THEN found
                                  ELSE h[After(path, deeper, to(left), found)]]
           base == [found \in Lists |-> found]
           step == [x \in V \X (1 .. N) |-> turn(x[1], x[2])]
           f == CHOOSE f : f = [left \in 0 .. N |->
                  [found \in Lists |->
                     IF left = 0 \/ Len(found) >= MaxCandidates THEN found
                     ELSE f[left - 1][After(path, deeper, to(left), found)]]]
<1>1. path[Len(path)] \in Ids
  OBVIOUS
<1>2. conn \in Seq(Ids) /\ N \in Nat
  BY <1>1 DEF TypeOK
<1> HIDE DEF conn, N
<1>3. \A left \in 1 .. N : to(left) \in Ids
  <2>. SUFFICES ASSUME NEW left \in 1 .. N PROVE conn[N - left + 1] \in Ids
    OBVIOUS
  <2>1. N - left + 1 \in 1 .. N
    BY <1>2
  <2>. QED
    BY <1>2, <2>1 DEF N
<1>4. \A left \in 1 .. N, found \in Lists : After(path, deeper, to(left), found) \in Lists
  BY <1>3, AfterIsList
<1>5. base \in V
  OBVIOUS
<1> HIDE DEF to
<1>6. \A h \in V, left \in 1 .. N : turn(h, left) \in V
  BY <1>4
<1>7. IsStep(step, N, V)
  <2> HIDE DEF turn, V
  <2>. QED
    BY <1>6 DEF IsStep
<1>8. \A h \in V, left \in 1 .. N : step[<<h, left>>] = turn(h, left)
  <2> HIDE DEF turn, V
  <2>. QED
    OBVIOUS
<1> HIDE DEF step
<1>9. PICK g : IsRun(g, N, V, base, step)
  <2> HIDE DEF V, base
  <2>. QED
    BY <1>2, <1>5, <1>7, Recursion
<1>10. g \in [0 .. N -> V] /\ g[0] = base
  BY <1>9 DEF IsRun
<1>11. \A left \in 1 .. N : g[left] = turn(g[left - 1], left)
  <2>. SUFFICES ASSUME NEW left \in 1 .. N
                PROVE  g[left] = turn(g[left - 1], left)
    OBVIOUS
  <2>1. left - 1 \in 0 .. N
    BY <1>2
  <2> HIDE DEF V, turn, base
  <2>2. g[left - 1] \in V
    BY <1>10, <2>1
  <2>. QED
    BY <1>8, <1>9, <2>2 DEF IsRun
<1> DEFINE body(e, left) ==
      [found \in Lists |->
         IF left = 0 \/ Len(found) >= MaxCandidates THEN found
         ELSE e[left - 1][After(path, deeper, to(left), found)]]
<1>12. \A e : body(e, 0) = base
  OBVIOUS
<1>13. \A e : \A left \in 1 .. N : body(e, left) = turn(e[left - 1], left)
  BY <1>2
<1>14. g = [left \in 0 .. N |-> body(g, left)]
  <2> HIDE DEF V, turn, base, body
  <2> DEFINE h == [left \in 0 .. N |-> body(g, left)]
  <2>1. \A k \in 0 .. N : k # 0 => k \in 1 .. N
    BY <1>2
  <2>2. \A k \in 0 .. N : g[k] = h[k]
    BY <1>10, <1>11, <1>12, <1>13, <2>1
  <2>3. DOMAIN g = 0 .. N /\ DOMAIN h = 0 .. N /\ g = [k \in 0 .. N |-> g[k]]
    BY <1>10
  <2>. QED
    BY <2>2, <2>3
<1>15. f = [left \in 0 .. N |-> body(f, left)]
  BY <1>14
<1>16. Collected(path, deeper) = f[N]
  BY DEF Collected, f, N, conn, to, After, Lists
<1> HIDE DEF f
<1> DEFINE S == { k \in 0 .. N : f[k] \in V }
<1>17. ASSUME NEW k \in 1 .. N
       PROVE  f[k] = turn(f[k - 1], k)
  <2>1. k \in 0 .. N
    BY <1>2
  <2> HIDE DEF body, turn
  <2>. QED
    BY <1>13, <1>15, <2>1
<1>18. f[0] = base
  <2> HIDE DEF body, base
  <2>. QED
    BY <1>2, <1>12, <1>15
<1>19. 0 .. N \subseteq S
  <2>1. 0 \in S
    BY <1>2, <1>5, <1>18
  <2>2. ASSUME NEW k \in 1 .. N, k - 1 \in S
        PROVE  k \in S
    <3>1. k \in 0 .. N
      BY <1>2
    <3> HIDE DEF turn, V
    <3>. QED
      BY <1>6, <1>17, <2>2, <3>1
  <2> HIDE DEF S
  <2>. QED
    BY <1>2, <2>1, <2>2, Induction
<1>20. f \in [0 .. N -> V]
  <2> HIDE DEF V, body
  <2>1. \A k \in 0 .. N : f[k] \in V
    BY <1>19
  <2>. QED
    BY <1>15, <2>1
<1>21. IsLoop(f, path, conn, deeper)
  <2>1. \A found \in Lists : f[0][found] = found
    BY <1>18
  <2>2. ASSUME NEW left \in 1 .. N, NEW found \in Lists
        PROVE  f[left][found] =
                 IF Len(found) >= MaxCandidates THEN found
                 ELSE f[left - 1][After(path, deeper, conn[Len(conn) - left + 1], found)]
    <3>1. f[left][found] = turn(f[left - 1], left)[found]
      BY <1>17
    <3>2. turn(f[left - 1], left)[found] =
            IF Len(found) >= MaxCandidates THEN found
            ELSE f[left - 1][After(path, deeper, to(left), found)]
      OBVIOUS
    <3>3. to(left) = conn[Len(conn) - left + 1]
      BY DEF to, N
    <3> HIDE DEF turn
    <3>. QED
      BY <3>1, <3>2, <3>3
  <2>. QED
    BY <1>20, <2>1, <2>2 DEF IsLoop, N
<1>. QED
  BY <1>16, <1>21 DEF conn, N

\* So it is a function from the candidates so far to those with its own.
LEMMA CollectedIsFunction ==
  ASSUME TypeOK, NEW path \in Seq(Ids) \ {<<>>}, NEW deeper \in Searches
  PROVE  Collected(path, deeper) \in [Lists -> Lists]
<1> DEFINE conn == nodes[path[Len(path)]].conn
<1>1. PICK loop : IsLoop(loop, path, conn, deeper) /\ Collected(path, deeper) = loop[Len(conn)]
  BY CollectedIsLoop
<1>2. path[Len(path)] \in Ids
  OBVIOUS
<1>3. Len(conn) \in 0 .. Len(conn)
  BY <1>2 DEF TypeOK
<1>. QED
  BY <1>1, <1>3 DEF IsLoop

\* The search by the room that is left.
IsSearch(search) ==
  /\ search \in [0 .. ChartEnd -> Searches]
  /\ \A path \in Seq(Ids) \ {<<>>}, found \in Lists : search[0][path][found] = found
  /\ \A room \in 1 .. ChartEnd, path \in Seq(Ids) \ {<<>>} :
       search[room][path] = Collected(path, search[room - 1])

\* There is such a search, and it is what Paths is defined by.
LEMMA PathsIsSearch ==
  ASSUME TypeOK
  PROVE  \E search : IsSearch(search) /\ Paths = search[ChartEnd][<<0>>][<<>>]
<1> DEFINE N == ChartEnd
           P == Seq(Ids) \ {<<>>}
           turn(h) == [path \in P |-> Collected(path, h)]
           none == [found \in Lists |-> found]
           base == [path \in P |-> none]
           step == [x \in Searches \X (1 .. N) |-> turn(x[1])]
           f == CHOOSE f : f = [room \in 0 .. N |->
                  [path \in P |-> IF room = 0 THEN none ELSE Collected(path, f[room - 1])]]
<1>1. N \in Nat
  BY CapsAreNumbers DEF TypeOK
<1>2. none \in [Lists -> Lists]
  OBVIOUS
<1>3. base \in Searches
  BY <1>2 DEF Searches
<1>4. \A h \in Searches : turn(h) \in Searches
  BY CollectedIsFunction DEF Searches
<1> HIDE DEF N, P, none
<1>5. IsStep(step, N, Searches)
  <2> HIDE DEF turn
  <2>. QED
    BY <1>4 DEF IsStep
<1>6. \A h \in Searches, k \in 1 .. N : step[<<h, k>>] = turn(h)
  <2> HIDE DEF turn
  <2>. QED
    OBVIOUS
<1> HIDE DEF step
<1>7. PICK g : IsRun(g, N, Searches, base, step)
  <2> HIDE DEF base
  <2>. QED
    BY <1>1, <1>3, <1>5, Recursion
<1>8. g \in [0 .. N -> Searches] /\ g[0] = base
  BY <1>7 DEF IsRun
<1>9. \A k \in 1 .. N : g[k] = turn(g[k - 1])
  <2>. SUFFICES ASSUME NEW k \in 1 .. N
                PROVE  g[k] = turn(g[k - 1])
    OBVIOUS
  <2>1. k - 1 \in 0 .. N
    BY <1>1
  <2> HIDE DEF turn, base
  <2>2. g[k - 1] \in Searches
    BY <1>8, <2>1
  <2>. QED
    BY <1>6, <1>7, <2>2 DEF IsRun
<1> DEFINE body(e, room) == [path \in P |-> IF room = 0 THEN none ELSE Collected(path, e[room - 1])]
<1>10. \A e : body(e, 0) = base
  OBVIOUS
<1>11. \A e : \A k \in 1 .. N : body(e, k) = turn(e[k - 1])
  BY <1>1
<1>12. g = [room \in 0 .. N |-> body(g, room)]
  <2> HIDE DEF turn, base, body
  <2> DEFINE h == [room \in 0 .. N |-> body(g, room)]
  <2>1. \A k \in 0 .. N : k # 0 => k \in 1 .. N
    BY <1>1
  <2>2. \A k \in 0 .. N : g[k] = h[k]
    BY <1>8, <1>9, <1>10, <1>11, <2>1
  <2>3. DOMAIN g = 0 .. N /\ DOMAIN h = 0 .. N /\ g = [k \in 0 .. N |-> g[k]]
    BY <1>8
  <2>. QED
    BY <2>2, <2>3
<1>13. f = [room \in 0 .. N |-> body(f, room)]
  BY <1>12
<1>14. Paths = f[N][<<0>>][<<>>]
  BY DEF Paths, f, N, P, none, Lists
<1> HIDE DEF f
<1>15. f[0] = base
  <2> HIDE DEF body, base
  <2>. QED
    BY <1>1, <1>10, <1>13
<1>16. ASSUME NEW k \in 1 .. N
       PROVE  f[k] = turn(f[k - 1])
  <2>1. k \in 0 .. N
    BY <1>1
  <2> HIDE DEF body, turn
  <2>. QED
    BY <1>11, <1>13, <2>1
<1> DEFINE S == { k \in 0 .. N : f[k] \in Searches }
<1>17. 0 .. N \subseteq S
  <2>1. 0 \in S
    BY <1>1, <1>3, <1>15
  <2>2. ASSUME NEW k \in 1 .. N, k - 1 \in S
        PROVE  k \in S
    <3>1. k \in 0 .. N
      BY <1>1
    <3> HIDE DEF turn
    <3>. QED
      BY <1>4, <1>16, <2>2, <3>1
  <2> HIDE DEF S
  <2>. QED
    BY <1>1, <2>1, <2>2, Induction
<1>18. f \in [0 .. N -> Searches]
  <2> HIDE DEF body
  <2>1. \A k \in 0 .. N : f[k] \in Searches
    BY <1>17
  <2>. QED
    BY <1>13, <2>1
<1>19. IsSearch(f)
  <2>1. \A path \in P, found \in Lists : f[0][path][found] = found
    BY <1>15 DEF none
  <2>2. \A k \in 1 .. N, path \in P : f[k][path] = Collected(path, f[k - 1])
    BY <1>16
  <2>. QED
    BY <1>18, <2>1, <2>2 DEF IsSearch, N, P
<1>. QED
  BY <1>14, <1>19 DEF N

\* A list of candidates.
Good(found) == found \in Lists /\ \A k \in 1 .. Len(found) : Candidate(found[k])

\* The result more of going on from the path with found: candidates, no
\* fewer than there were, and some if the path leads anywhere.
Goes(path, found, more) ==
  /\ Good(more)
  /\ Len(found) <= Len(more)
  /\ nodes[path[Len(path)]].conn # <<>> => more # <<>>
Sound(deeper, n) ==
  \A path \in Seq(Ids), found \in Lists :
    Walk(path) /\ Len(path) = n /\ Good(found) => Goes(path, found, deeper[path][found])

\* One element more.
LEMMA OneMoreOf ==
  ASSUME NEW S, NEW list \in Seq(S), NEW x \in S
  PROVE  /\ Append(list, x) \in Seq(S) /\ Len(Append(list, x)) = Len(list) + 1
         /\ Append(list, x) # <<>> /\ Append(list, x)[Len(list) + 1] = x
         /\ \A k \in 1 .. Len(list) : Append(list, x)[k] = list[k]
  OBVIOUS

\* After one connection more there is a candidate.
LEMMA AfterGoes ==
  ASSUME TypeOK, Settled, NEW path, Walk(path), NEW deeper \in Searches, Sound(deeper, Len(path) + 1),
         NEW j \in ToSet(nodes[path[Len(path)]].conn), NEW found, Good(found)
  PROVE  /\ Good(After(path, deeper, j, found)) /\ After(path, deeper, j, found) # <<>>
         /\ Len(found) <= Len(After(path, deeper, j, found))
<1>1. path \in Seq(Ids) \ {<<>>} /\ path[Len(path)] \in Ids
  BY DEF Walk
<1>2. nodes[path[Len(path)]].conn \in Seq(Ids)
  BY <1>1 DEF TypeOK
<1>3. found \in Lists /\ Len(found) \in Nat
  BY DEF Good, Lists
<1>4. CASE j = 0
  <2> DEFINE after == Append(found, path)
  <2>1. After(path, deeper, j, found) = after
    BY <1>4 DEF After
  <2>2. Candidate(path)
    BY <1>4 DEF Candidate
  <2>3. path \in Seq(Nat)
    BY <1>1, StartNode, ListOfNodes
  <2>4. /\ after \in Lists /\ Len(after) = Len(found) + 1 /\ after # <<>>
        /\ \A k \in 1 .. Len(found) : after[k] = found[k]
        /\ after[Len(found) + 1] = path
    <3> DEFINE L == Seq(Nat)
    <3>1. found \in Seq(L) /\ path \in L /\ Lists = Seq(L)
      BY <1>3, <2>3 DEF Lists
    <3> HIDE DEF L
    <3>. QED
      BY <3>1, OneMoreOf
  <2> HIDE DEF after
  <2>5. ASSUME NEW k \in 1 .. Len(after)
        PROVE  Candidate(after[k])
    <3>1. CASE k \in 1 .. Len(found)
      <4>1. after[k] = found[k] /\ Candidate(found[k])
        BY <2>4, <3>1 DEF Good
      <4>. QED
        BY <4>1
    <3>2. CASE k = Len(found) + 1
      <4>1. after[k] = path
        BY <2>4, <3>2
      <4>. QED
        BY <2>2, <4>1
    <3>. QED
      BY <1>3, <2>4, <3>1, <3>2
  <2>6. Good(after)
    BY <2>4, <2>5 DEF Good
  <2>7. Len(found) <= Len(after)
    BY <1>3, <2>4
  <2>. QED
    BY <2>1, <2>4, <2>6, <2>7
<1>5. CASE j # 0
  <2> DEFINE longer == Append(path, j)
  <2>1. After(path, deeper, j, found) = deeper[longer][found]
    BY <1>5 DEF After
  <2>2. Walk(longer) /\ Len(longer) = Len(path) + 1
    BY <1>5, WalkOn
  <2>3. longer \in Seq(Ids) /\ longer[Len(longer)] = j
    BY <1>1, <1>2 DEF ToSet
  <2> HIDE DEF longer
  <2>4. Goes(longer, found, deeper[longer][found])
    BY <1>3, <2>2, <2>3 DEF Sound
  <2>5. nodes[j].conn # <<>>
    <3> DEFINE i == path[Len(path)]
    <3> HIDE DEF i
    <3>1. PICK k \in 1 .. Len(nodes[i].conn) : nodes[i].conn[k] = j
      BY <1>2 DEF ToSet, i
    <3>2. j \in Ids /\ nodes[j].state = "SUCCESS"
      BY <1>1, <1>2, <3>1 DEF Settled, i
    <3>. QED
      BY <1>5, <3>2 DEF Settled
  <2>. QED
    BY <2>1, <2>3, <2>4, <2>5 DEF Goes
<1>. QED
  BY <1>4, <1>5

\* And so after all the connections of a node.
LEMMA CollectedGoes ==
  ASSUME TypeOK, Settled, NEW path, Walk(path), NEW deeper \in Searches, Sound(deeper, Len(path) + 1),
         NEW start, Good(start)
  PROVE  Goes(path, start, Collected(path, deeper)[start])
<1> DEFINE conn == nodes[path[Len(path)]].conn
           N == Len(conn)
<1>1. path \in Seq(Ids) \ {<<>>} /\ path[Len(path)] \in Ids
  BY DEF Walk
<1>2. conn \in Seq(Ids) /\ N \in Nat /\ (conn # <<>> => N \in 1 .. N)
  BY <1>1 DEF TypeOK
<1>3. PICK loop : IsLoop(loop, path, conn, deeper) /\ Collected(path, deeper) = loop[N]
  BY <1>1, CollectedIsLoop
<1>4. \A j \in ToSet(conn) : \A found : Good(found) =>
        /\ Good(After(path, deeper, j, found)) /\ After(path, deeper, j, found) # <<>>
        /\ Len(found) <= Len(After(path, deeper, j, found))
  BY AfterGoes
<1> HIDE DEF conn, N
<1>5. \A left \in 1 .. N : conn[N - left + 1] \in ToSet(conn)
  <2>. SUFFICES ASSUME NEW left \in 1 .. N PROVE conn[N - left + 1] \in ToSet(conn)
    OBVIOUS
  <2>1. N - left + 1 \in 1 .. N
    BY <1>2
  <2>. QED
    BY <1>2, <2>1 DEF ToSet, N
<1> DEFINE Fine(left) ==
      \A found \in Lists : Good(found) =>
        /\ Good(loop[left][found]) /\ Len(found) <= Len(loop[left][found])
        /\ left # 0 => loop[left][found] # <<>>
<1> DEFINE S == { left \in 0 .. N : Fine(left) }
<1>6. 0 \in S
  <2>1. \A found \in Lists : loop[0][found] = found /\ Len(found) \in Nat
    BY <1>3 DEF IsLoop, Lists
  <2>. QED
    BY <1>2, <2>1
<1>7. ASSUME NEW left \in 1 .. N, left - 1 \in S
      PROVE  left \in S
  <2>1. left \in 0 .. N /\ Fine(left - 1)
    BY <1>2, <1>7
  <2>2. ASSUME NEW found \in Lists, Good(found)
        PROVE  /\ Good(loop[left][found]) /\ Len(found) <= Len(loop[left][found])
               /\ loop[left][found] # <<>>
    <3>1. Len(found) \in Nat
      BY DEF Lists
    <3>2. CASE Len(found) >= MaxCandidates
      <4>1. loop[left][found] = found
        BY <1>3, <3>2 DEF IsLoop, N
      <4>2. found # <<>>
        BY <3>1, <3>2, CapsAreNumbers
      <4>. QED
        BY <2>2, <3>1, <4>1, <4>2
    <3>3. CASE ~(Len(found) >= MaxCandidates)
      <4> DEFINE after == After(path, deeper, conn[N - left + 1], found)
      <4>1. loop[left][found] = loop[left - 1][after]
        BY <1>3, <3>3 DEF IsLoop, N
      <4>2. Good(after) /\ after # <<>> /\ Len(found) <= Len(after)
        BY <1>4, <1>5, <2>2
      <4> HIDE DEF after
      <4>3. after \in Lists
        BY <4>2 DEF Good
      <4>4. Good(loop[left - 1][after]) /\ Len(after) <= Len(loop[left - 1][after])
        BY <2>1, <4>2, <4>3
      <4>5. Len(after) \in Nat \ {0} /\ loop[left - 1][after] \in Lists
        BY <4>2, <4>3, <4>4 DEF Good, Lists
      <4>6. Len(loop[left - 1][after]) \in Nat /\ (loop[left - 1][after] = <<>> => Len(loop[left - 1][after]) = 0)
        BY <4>5 DEF Lists
      <4>. QED
        BY <3>1, <4>1, <4>2, <4>4, <4>5, <4>6
    <3>. QED
      BY <3>2, <3>3
  <2>. QED
    BY <2>1, <2>2
<1>8. 0 .. N \subseteq S
  <2> HIDE DEF S
  <2>. QED
    BY <1>2, <1>6, <1>7, Induction
<1>9. Fine(N)
  BY <1>2, <1>8
<1>10. start \in Lists
  BY DEF Good
<1>11. conn # <<>> => N # 0
  BY <1>2
<1> HIDE DEF S
<1>. QED
  BY <1>3, <1>9, <1>10, <1>11 DEF Goes, conn

\* What is collected in the end are candidates, and there are some if the
\* start node is connected to anything.
LEMMA PathsAreCandidates ==
  ASSUME TypeOK, Settled, Acyclic
  PROVE  Good(Paths) /\ (Paths = <<>> <=> nodes[0].conn = <<>>)
<1>1. PICK search : IsSearch(search) /\ Paths = search[ChartEnd][<<0>>][<<>>]
  BY PathsIsSearch
<1>2. ChartEnd \in Nat \ {0}
  BY CapsAreNumbers DEF TypeOK
<1> DEFINE S == { room \in 0 .. ChartEnd : Sound(search[room], ChartEnd + 1 - room) }
<1>3. 0 \in S
  <2>1. ASSUME NEW path, Walk(path)
        PROVE  Len(path) # ChartEnd + 1
    <3>1. Len(path) <= ChartEnd /\ Len(path) \in Nat
      BY <2>1, WalkFits DEF Walk
    <3>. QED
      BY <1>2, <3>1
  <2>2. Sound(search[0], ChartEnd + 1 - 0)
    BY <1>2, <2>1 DEF Sound
  <2>. QED
    BY <1>2, <2>2
<1>4. ASSUME NEW room \in 1 .. ChartEnd, room - 1 \in S
      PROVE  room \in S
  <2>1. room \in 0 .. ChartEnd /\ room - 1 \in 0 .. ChartEnd
    BY <1>2
  <2>2. search[room - 1] \in Searches
    BY <1>1, <2>1 DEF IsSearch
  <2>3. ASSUME NEW path \in Seq(Ids), NEW found \in Lists,
               Walk(path), Len(path) = ChartEnd + 1 - room, Good(found)
        PROVE  Goes(path, found, search[room][path][found])
    <3>1. path \in Seq(Ids) \ {<<>>}
      BY <2>3 DEF Walk
    <3>2. search[room][path] = Collected(path, search[room - 1])
      BY <1>1, <3>1 DEF IsSearch
    <3>3. ChartEnd + 1 - (room - 1) = Len(path) + 1
      BY <1>2, <2>3
    <3>4. Sound(search[room - 1], Len(path) + 1)
      BY <1>4, <3>3
    <3>. QED
      BY <2>2, <2>3, <3>2, <3>4, CollectedGoes
  <2>4. Sound(search[room], ChartEnd + 1 - room)
    BY <2>3 DEF Sound
  <2>. QED
    BY <2>1, <2>4
<1>5. Sound(search[ChartEnd], 1)
  <2>1. 0 .. ChartEnd \subseteq S
    <3> HIDE DEF S
    <3>. QED
      BY <1>2, <1>3, <1>4, Induction
  <2>2. ChartEnd \in 0 .. ChartEnd /\ ChartEnd + 1 - ChartEnd = 1
    BY <1>2
  <2>. QED
    BY <2>1, <2>2
<1>6. <<0>> \in Seq(Ids) /\ Walk(<<0>>) /\ Len(<<0>>) = 1 /\ <<0>>[Len(<<0>>)] = 0
  BY StartNode DEF Walk
<1>7. <<>> \in Lists /\ Good(<<>>)
  BY DEF Good, Lists
<1>8. Goes(<<0>>, <<>>, Paths)
  BY <1>1, <1>5, <1>6, <1>7 DEF Sound
<1>9. ASSUME nodes[0].conn = <<>>
      PROVE  Paths = <<>>
  <2> DEFINE start == <<0>>
  <2>1. ChartEnd \in 1 .. ChartEnd /\ start \in Seq(Ids) \ {<<>>}
    BY <1>2, <1>6
  <2> HIDE DEF start
  <2>2. search[ChartEnd][start] = Collected(start, search[ChartEnd - 1]) /\ search[ChartEnd - 1] \in Searches
    <3>1. ChartEnd - 1 \in 0 .. ChartEnd
      BY <1>2
    <3>. QED
      BY <1>1, <2>1, <3>1 DEF IsSearch
  <2>3. nodes[start[Len(start)]].conn = <<>>
    BY <1>6, <1>9 DEF start
  <2>4. PICK loop : IsLoop(loop, start, <<>>, search[ChartEnd - 1])
                    /\ Collected(start, search[ChartEnd - 1]) = loop[Len(<<>>)]
    BY <2>1, <2>2, <2>3, CollectedIsLoop
  <2>5. loop[0][<<>>] = <<>> /\ Len(<<>>) = 0
    BY <1>7, <2>4 DEF IsLoop
  <2>. QED
    BY <1>1, <2>2, <2>4, <2>5 DEF start
<1>10. nodes[0].conn # <<>> => Paths # <<>>
  BY <1>6, <1>8 DEF Goes
<1>. QED
  BY <1>8, <1>9, <1>10 DEF Goes

-----------------------------------------------------------------------------
(* What the candidates are *)

\* Connections are between morphemes that may follow each other.
Following == \A i \in Ids : \A j \in ToSet(nodes[i].conn) : MayFollow(i, j)

\* The start node is at the position 0 alone, the end of the text.
StartApart == \A p \in Positions : 0 \in ToSet(morphs[p]) => p = 0

\* The number of results, and what is done with it.
Counting ==
  /\ stack # <<>> => phase = "visit"
  /\ phase # "done" => candidates = <<>>
  /\ phase = "unknown" => resultCount = 0
  /\ phase \in {"collect", "done"} =>
       /\ nodes[0].conn = <<>> <=> resultCount = 0
       /\ resultCount = 0 => fellBack
  /\ phase = "done" => Good(candidates) /\ (candidates = <<>> <=> nodes[0].conn = <<>>)

CInv == IInv /\ Following /\ StartApart /\ Counting

\* How a step may change the chart: the nodes keep what they read and ask for,
\* a node is only connected to what it finds at the position after it, and
\* what a position gets is new.
Evolves ==
  /\ Ids \subseteq Ids'
  /\ \A i \in Ids : /\ nodes'[i].tag = nodes[i].tag /\ nodes'[i].next = nodes[i].next
                      /\ nodes'[i].type = nodes[i].type
  /\ \A i \in Ids : \A j \in ToSet(nodes'[i].conn) : j \in Ids /\ Justified(i, nodes[i].next, j)
  /\ \A i \in Ids' \ Ids : ToSet(nodes'[i].conn) = {}
  /\ \A p \in Positions : ToSet(morphs[p]) \subseteq ToSet(morphs'[p])
  /\ \A p \in Positions : \A j \in ToSet(morphs'[p]) : j \in ToSet(morphs[p]) \/ j \notin Ids

\* Such steps keep the connections right.
LEMMA EvolutionKeeps ==
  ASSUME TypeOK, Following, StartApart, Evolves
  PROVE  Following' /\ StartApart'
<1>1. ASSUME NEW i \in Ids', NEW j \in ToSet(nodes'[i].conn)
      PROVE  j \in ToSet(morphs'[nodes'[i].next]) /\ <<nodes'[i].tag, nodes'[j].tag>> \in Connects
  <2>1. i \in Ids
    BY <1>1 DEF Evolves
  <2>2. j \in Ids /\ Justified(i, nodes[i].next, j)
    BY <1>1, <2>1 DEF Evolves
  <2>3. j \in ToSet(morphs[nodes[i].next]) /\ <<nodes[i].tag, nodes[j].tag>> \in Connects
    BY <2>1, <2>2 DEF Justified, Following, MayFollow
  <2>4. nodes[i].next \in Positions
    BY <2>1, StartNode DEF TypeOK, Nodes
  <2>5. j \in ToSet(morphs'[nodes[i].next])
    BY <2>3, <2>4 DEF Evolves
  <2>. QED
    BY <2>1, <2>2, <2>3, <2>5 DEF Evolves
<1>2. Following'
  BY <1>1 DEF Following, MayFollow
<1>3. ASSUME NEW p \in Positions, 0 \in ToSet(morphs'[p])
      PROVE  p = 0
  <2>1. 0 \in ToSet(morphs[p])
    BY <1>3, StartNode DEF Evolves
  <2>. QED
    BY <2>1 DEF StartApart
<1>4. StartApart'
  BY <1>3 DEF StartApart
<1>. QED
  BY <1>2, <1>4

\* What a node is connected to is a node, and it is justified by itself.
LEMMA OwnConnections ==
  ASSUME TypeOK, NEW i \in Ids, NEW j \in ToSet(nodes[i].conn), NEW p
  PROVE  j \in Ids /\ Justified(i, p, j)
<1>1. nodes[i].conn \in Seq(Ids)
  BY DEF TypeOK
<1>. QED
  BY <1>1 DEF ToSet, Justified

\* Filling a position is such a step.
LEMMA FilledEvolves ==
  ASSUME TypeOK, Settled, Acyclic, Filled
  PROVE  Evolves
<1> PICK p \in Positions : \E c \in ChartsAt(p) :
        /\ nodes' = c[1] \/ nodes' = [c[1] EXCEPT ![0].conn = <<>>]
        /\ morphs' = [morphs EXCEPT ![p] = c[2]]
  BY DEF Filled
<1>1. PICK c \in ChartsAt(p) :
        /\ nodes' = c[1] \/ nodes' = [c[1] EXCEPT ![0].conn = <<>>]
        /\ morphs' = [morphs EXCEPT ![p] = c[2]]
  OBVIOUS
<1>2. c \in Charts /\ Grown(c) /\ Listed(c, p)
  BY DEF ChartsAt, Charts
<1>3. Ids \subseteq Ids' /\ \A i \in Ids \ {0} : nodes'[i] = nodes[i]
  BY <1>1, <1>2, Grows
<1>4. 0 \in Ids /\ Ids \subseteq DOMAIN c[1] /\ DOMAIN c[1] = Ids'
  <2>1. 0 \in Ids /\ Ids' = DOMAIN c[1]
    BY <1>1, StartNode DEF Ids
  <2>. QED
    BY <1>3, <2>1
<1>5. /\ nodes'[0].tag = nodes[0].tag /\ nodes'[0].next = nodes[0].next
      /\ nodes'[0].type = nodes[0].type
      /\ nodes'[0].conn = nodes[0].conn \/ nodes'[0].conn = <<>>
  <2>1. c[1][0] = nodes[0] /\ nodes[0] \in Nodes /\ 0 \in DOMAIN c[1]
    BY <1>2, <1>4, StartNode DEF Grown, TypeOK
  <2>2. CASE nodes' = c[1]
    BY <2>1, <2>2
  <2>3. CASE nodes' = [c[1] EXCEPT ![0].conn = <<>>]
    <3>1. nodes'[0] = [nodes[0] EXCEPT !.conn = <<>>]
      BY <2>1, <2>3
    <3>. QED
      BY <2>1, <3>1 DEF Nodes
  <2>. QED
    BY <1>1, <2>2, <2>3
<1>6. ASSUME NEW i \in Ids, NEW j \in ToSet(nodes'[i].conn)
      PROVE  j \in Ids /\ Justified(i, nodes[i].next, j)
  <2>1. ToSet(<<>>) = {}
    BY DEF ToSet
  <2>2. j \in ToSet(nodes[i].conn)
    BY <1>3, <1>5, <1>6, <2>1
  <2>. QED
    BY <2>2, OwnConnections
<1>7. ASSUME NEW i \in Ids' \ Ids
      PROVE  ToSet(nodes'[i].conn) = {}
  <2>1. i \in DOMAIN c[1] \ Ids /\ i # 0
    BY <1>4
  <2>2. nodes'[i] = c[1][i]
    BY <1>1, <2>1
  <2>3. c[1][i].conn = <<>>
    BY <1>2, <2>1 DEF Grown
  <2>. QED
    BY <2>2, <2>3 DEF ToSet
<1>8. \A q \in Positions : morphs'[q] = IF q = p THEN c[2] ELSE morphs[q]
  BY <1>1 DEF TypeOK
<1>9. morphs[p] \in Seq(Ids) /\ c[2] \in Seq(DOMAIN c[1])
  BY <1>2 DEF TypeOK, Grown
<1>10. ToSet(morphs[p]) \subseteq ToSet(c[2])
  <2>. SUFFICES ASSUME NEW k \in 1 .. Len(morphs[p]) PROVE morphs[p][k] \in ToSet(c[2])
    BY <1>9 DEF ToSet
  <2>1. k \in 1 .. Len(c[2]) /\ c[2][k] = morphs[p][k]
    BY <1>2, <1>9 DEF Listed
  <2>. QED
    BY <1>9, <2>1 DEF ToSet
<1>11. ASSUME NEW j \in ToSet(c[2])
       PROVE  j \in ToSet(morphs[p]) \/ j \notin Ids
  <2>1. PICK k \in 1 .. Len(c[2]) : c[2][k] = j
    BY <1>9 DEF ToSet
  <2>2. CASE k <= Len(morphs[p])
    <3>1. k \in 1 .. Len(morphs[p]) /\ c[2][k] = morphs[p][k]
      BY <1>2, <1>9, <2>2 DEF Listed
    <3>. QED
      BY <1>9, <2>1, <3>1 DEF ToSet
  <2>3. CASE ~(k <= Len(morphs[p]))
    BY <1>2, <2>1, <2>3 DEF Listed
  <2>. QED
    BY <2>2, <2>3
<1>12. /\ \A q \in Positions : ToSet(morphs[q]) \subseteq ToSet(morphs'[q])
       /\ \A q \in Positions : \A j \in ToSet(morphs'[q]) : j \in ToSet(morphs[q]) \/ j \notin Ids
  BY <1>8, <1>10, <1>11
<1>13. \A i \in Ids : /\ nodes'[i].tag = nodes[i].tag /\ nodes'[i].next = nodes[i].next
                       /\ nodes'[i].type = nodes[i].type
  BY <1>3, <1>5
<1>. QED
  BY <1>3, <1>6, <1>7, <1>12, <1>13 DEF Evolves

\* So is what changes the connections and the state of one node.
LEMMA OneNodeEvolves ==
  ASSUME TypeOK, UNCHANGED morphs, NEW n \in Ids, NEW m, nodes' = [nodes EXCEPT ![n] = m],
         m.tag = nodes[n].tag, m.next = nodes[n].next, m.type = nodes[n].type,
         m.conn = nodes[n].conn \/ m.conn \in ConnsOf(n, nodes[n].next)
  PROVE  Evolves
<1>1. Ids' = Ids /\ nodes'[n] = m /\ \A i \in Ids \ {n} : nodes'[i] = nodes[i]
  BY DEF Ids
<1>2. ASSUME NEW i \in Ids, NEW j \in ToSet(nodes'[i].conn)
      PROVE  j \in Ids /\ Justified(i, nodes[i].next, j)
  <2>1. CASE nodes'[i].conn = nodes[i].conn
    BY <1>2, <2>1, OwnConnections
  <2>2. CASE i = n /\ m.conn \in ConnsOf(n, nodes[n].next)
    <3>1. m.conn \in Seq(Ids) /\ \A k \in 1 .. Len(m.conn) : Justified(n, nodes[n].next, m.conn[k])
      BY <2>2 DEF ConnsOf, Conns
    <3>2. PICK k \in 1 .. Len(m.conn) : m.conn[k] = j
      BY <1>1, <1>2, <2>2, <3>1 DEF ToSet
    <3>. QED
      BY <2>2, <3>1, <3>2
  <2>. QED
    BY <1>1, <2>1, <2>2
<1>3. \A i \in Ids : /\ nodes'[i].tag = nodes[i].tag /\ nodes'[i].next = nodes[i].next
                      /\ nodes'[i].type = nodes[i].type
  BY <1>1
<1>. QED
  BY <1>1, <1>2, <1>3 DEF Evolves

\* Every step is one.
LEMMA StepsEvolve ==
  ASSUME IInv, [Next]_vars
  PROVE  Evolves
<1>1. TypeOK /\ Stacked /\ Settled /\ Acyclic
  BY DEF IInv
<1>2. CASE Filled
  BY <1>1, <1>2, FilledEvolves
<1>3. CASE (\E prefix \in Parens : ParenthesizedPrefix(prefix)) \/ ScanDictionaries \/ ExpandRules
  BY <1>1, <1>2, <1>3, FillStepsFill
<1>4. CASE AnalyzeUnknown
  BY <1>1, <1>2, <1>4, UnknownStepFills
<1>5. CASE EnterM \/ EnterF \/ EndLoop
  <2> DEFINE n == Top.node
  <2>1. stack # <<>>
    BY <1>5 DEF EnterM, EnterF, EndLoop, At
  <2>2. n \in Ids /\ Here \in Positions /\ Here = nodes[n].next /\ nodes[n] \in Nodes
    BY <1>1, <2>1, TopFrame DEF Here
  <2>3. PICK ns : Return(ns) /\ (ns = nodes \/ ns = Connected(n, Here))
    BY <1>5 DEF EnterM, EnterF, EndLoop
  <2>4. PICK c : ns = [nodes EXCEPT ![n].conn = c] /\ (c = nodes[n].conn \/ c \in ConnsOf(n, Here))
    <3>1. CASE ns = nodes
      <4>1. nodes = [nodes EXCEPT ![n].conn = nodes[n].conn]
        BY <1>1, <2>2 DEF TypeOK, Nodes
      <4>. QED
        BY <3>1, <4>1
    <3>2. CASE ns = Connected(n, Here)
      BY <1>1, <2>2, <3>2, ConnectedStays
    <3>. QED
      BY <2>3, <3>1, <3>2
  <2> DEFINE m0 == [nodes[n] EXCEPT !.conn = c]
             m1(s) == [m0 EXCEPT !.state = s]
  <2> HIDE DEF n
  <2>5. n \in DOMAIN nodes
    BY <2>2 DEF Ids
  <2>6. ns = [nodes EXCEPT ![n] = m0] /\ m0.conn = c /\ m0.tag = nodes[n].tag /\ m0.next = nodes[n].next
        /\ m0.type = nodes[n].type
    BY <2>2, <2>4, <2>5 DEF Nodes
  <2>7. nodes' = ns \/ \E s : nodes' = [ns EXCEPT ![n].state = s]
    BY <2>3 DEF Return, n
  <2>8. UNCHANGED morphs
    BY <2>3 DEF Return
  <2>9. CASE nodes' = ns
    <3> HIDE DEF m0
    <3>. QED
      BY <1>1, <2>2, <2>4, <2>6, <2>8, <2>9, OneNodeEvolves
  <2>10. CASE \E s : nodes' = [ns EXCEPT ![n].state = s]
    <3>1. PICK s : nodes' = [ns EXCEPT ![n].state = s]
      BY <2>10
    <3>2. /\ m1(s).conn = c /\ m1(s).tag = nodes[n].tag /\ m1(s).next = nodes[n].next
          /\ m1(s).type = nodes[n].type
      BY <2>2 DEF Nodes
    <3> HIDE DEF m0
    <3>3. nodes' = [nodes EXCEPT ![n] = m1(s)]
      BY <2>5, <2>6, <3>1
    <3> HIDE DEF m1
    <3>. QED
      BY <1>1, <2>2, <2>4, <2>8, <3>2, <3>3, OneNodeEvolves
  <2>. QED
    BY <2>7, <2>9, <2>10
<1>6. CASE Descend \/ RefuseDepth
  <2> DEFINE m == [nodes[Current] EXCEPT !.state = "FAIL"]
  <2>1. Unvisited /\ UNCHANGED morphs /\ nodes' = [nodes EXCEPT ![Current] = m]
    BY <1>6 DEF Descend, RefuseDepth
  <2>2. Current \in Ids /\ nodes[Current] \in Nodes
    BY <1>1, <2>1, UnvisitedNode, StartNode DEF TypeOK
  <2>3. /\ m.tag = nodes[Current].tag /\ m.next = nodes[Current].next
        /\ m.type = nodes[Current].type /\ m.conn = nodes[Current].conn
    BY <2>2 DEF Nodes
  <2> HIDE DEF m
  <2>. QED
    BY <1>1, <2>1, <2>2, <2>3, OneNodeEvolves
<1>7. CASE EnterR \/ PassOver \/ StartPass \/ CollectResults \/ UNCHANGED vars
  <2>1. UNCHANGED <<nodes, morphs>>
    BY <1>7 DEF EnterR, PassOver, StartPass, CollectResults, vars
  <2>2. nodes' = [nodes EXCEPT ![0] = nodes[0]]
    BY <1>1, <2>1 DEF TypeOK
  <2>. QED
    BY <1>1, <2>1, <2>2, StartNode, OneNodeEvolves
<1>. QED
  BY <1>3, <1>4, <1>5, <1>6, <1>7 DEF Next

\* The number of results stays that of the connections of the start node.
LEMMA StepsCount ==
  ASSUME IInv, Counting, [Next]_vars
  PROVE  Counting'
<1>1. TypeOK /\ Stacked /\ Settled /\ Acyclic
  BY DEF IInv
<1>2. CASE phase = "visit" /\ UNCHANGED <<phase, candidates>>
  BY <1>2 DEF Counting
<1>3. CASE \E prefix \in Parens : ParenthesizedPrefix(prefix)
  BY <1>3 DEF ParenthesizedPrefix, Counting
<1>4. CASE ScanDictionaries \/ ExpandRules \/ EnterR \/ PassOver \/ Descend \/ RefuseDepth
  <2>1. stack # <<>> /\ UNCHANGED <<phase, candidates>>
    BY <1>4 DEF ScanDictionaries, ExpandRules, EnterR, PassOver, Descend, RefuseDepth, InLoop, Unvisited, At
  <2>. QED
    BY <1>2, <2>1 DEF Counting
<1>5. CASE EnterM \/ EnterF \/ EndLoop
  <2>1. stack # <<>> /\ phase = "visit"
    BY <1>5 DEF EnterM, EnterF, EndLoop, At, Counting
  <2>2. Top.node \in Ids /\ Here \in Positions
    BY <1>1, <2>1, TopFrame
  <2>3. PICK ns : Return(ns) /\ (ns = nodes \/ ns = Connected(Top.node, Here))
    BY <1>5 DEF EnterM, EnterF, EndLoop
  <2>4. UNCHANGED <<candidates, fellBack>> /\ candidates = <<>>
    BY <2>1, <2>3 DEF Return, Counting
  <2>5. CASE Len(stack) - 1 # 0
    <3>1. UNCHANGED phase
      BY <2>3, <2>5 DEF Return
    <3>. QED
      BY <1>2, <2>1, <2>4, <3>1
  <2>6. CASE Len(stack) - 1 = 0
    <3>1. Len(stack) = 1 /\ Top.node = 0
      <4>1. Len(stack) = 1
        BY <1>1, <2>6 DEF TypeOK
      <4>. QED
        BY <1>1, <4>1 DEF Stacked, Top
    <3>2. stack' = <<>> /\ nodes' = ns /\ resultCount' = Len(ns[0].conn)
          /\ (IF Len(ns[0].conn) = resultCount \/ pass = MaxPass
              THEN phase' = IF Len(ns[0].conn) = 0 /\ ~fellBack THEN "unknown" ELSE "collect"
              ELSE phase' = "pass")
      BY <2>3, <2>6, <3>1 DEF Return
    <3>3. ns[0].conn \in Seq(Ids)
      <4>1. nodes[0].conn \in Seq(Ids) /\ nodes[0] \in Nodes /\ 0 \in DOMAIN nodes
        BY <1>1, StartNode DEF TypeOK, Ids
      <4>2. CASE ns = nodes
        BY <4>1, <4>2
      <4>3. CASE ns = Connected(Top.node, Here)
        <5>1. PICK c \in ConnsOf(0, Here) : ns = [nodes EXCEPT ![0].conn = c]
          BY <1>1, <2>2, <3>1, <4>3, ConnectedStays
        <5>2. ns[0] = [nodes[0] EXCEPT !.conn = c]
          BY <4>1, <5>1
        <5>3. ns[0].conn = c
          BY <4>1, <5>2 DEF Nodes
        <5>. QED
          BY <5>3 DEF ConnsOf, Conns
      <4>. QED
        BY <2>3, <4>2, <4>3
    <3>4. nodes'[0].conn = <<>> <=> resultCount' = 0
      BY <1>1, <3>2, <3>3, StartNode, ListOfNodes
    <3>. QED
      BY <2>4, <3>2, <3>4 DEF Counting
  <2>. QED
    BY <2>5, <2>6
<1>6. CASE AnalyzeUnknown
  <2>1. Unknowns \in ChartsAt(1)
    BY <1>1, UnknownsStay
  <2>2. 0 \in DOMAIN Unknowns[1] /\ Unknowns[1][0] \in Nodes
    <3>1. Grown(Unknowns) /\ 0 \in Ids /\ nodes[0] \in Nodes
      BY <1>1, <2>1, StartNode DEF ChartsAt, Charts, TypeOK
    <3>2. \E n \in ChartEnd .. MaxChart : Unknowns[1] \in [0 .. (n - 1) -> Nodes]
      BY <3>1 DEF Grown
    <3>3. ChartEnd \in Nat \ {0}
      BY <1>1, CapsAreNumbers DEF TypeOK
    <3>. QED
      BY <3>2, <3>3
  <2>3. nodes' = [Unknowns[1] EXCEPT ![0].conn = <<>>]
    BY <1>6 DEF AnalyzeUnknown
  <2>4. nodes'[0].conn = <<>>
    BY <2>2, <2>3 DEF Nodes
  <2>5. /\ phase = "unknown" /\ phase' \in {"pass", "collect"} /\ fellBack' = TRUE
        /\ UNCHANGED <<stack, resultCount, candidates>>
    BY <1>6 DEF AnalyzeUnknown
  <2>. QED
    BY <2>4, <2>5 DEF Counting
<1>7. CASE StartPass
  BY <1>7 DEF StartPass, Counting
<1>8. CASE CollectResults
  <2>1. Good(Paths) /\ (Paths = <<>> <=> nodes[0].conn = <<>>)
    BY <1>1, PathsAreCandidates
  <2>2. /\ phase = "collect" /\ phase' = "done" /\ candidates' = Paths
        /\ UNCHANGED <<nodes, stack, resultCount, fellBack>>
    BY <1>8 DEF CollectResults
  <2>3. Good(candidates)'
    BY <2>1, <2>2 DEF Good, Candidate, Walk, Ids
  <2>. QED
    BY <2>1, <2>2, <2>3 DEF Counting
<1>9. CASE UNCHANGED vars
  <2>1. UNCHANGED <<nodes, stack, phase, resultCount, fellBack, candidates>>
    BY <1>9 DEF vars
  <2>2. Good(candidates) => Good(candidates)'
    BY <2>1 DEF Good, Candidate, Walk, Ids
  <2>. QED
    BY <2>1, <2>2 DEF Counting
<1>. QED
  BY <1>3, <1>4, <1>5, <1>6, <1>7, <1>8, <1>9 DEF Next

\* The invariant of the candidates holds at first.
LEMMA CInvInit == Init => CInv
<1>. SUFFICES ASSUME Init PROVE CInv
  OBVIOUS
<1>1. IInv
  BY InitHolds
<1>2. nodes[0].conn = <<>> /\ Ids = {0}
  BY DEF Init, Ids
<1>3. ToSet(<<>>) = {}
  BY DEF ToSet
<1>4. Following
  BY <1>2, <1>3 DEF Following
<1>5. \A p \in Positions : p # 0 => morphs[p] = <<>>
  BY DEF Init
<1>6. StartApart
  BY <1>3, <1>5 DEF StartApart
<1>7. Counting
  BY DEF Init, Counting
<1>. QED
  BY <1>1, <1>4, <1>6, <1>7 DEF CInv

\* A step keeps it.
LEMMA CInvNext == CInv /\ [Next]_vars => CInv'
<1>. SUFFICES ASSUME CInv, [Next]_vars PROVE CInv'
  OBVIOUS
<1>1. IInv /\ TypeOK /\ Following /\ StartApart /\ Counting
  BY DEF CInv, IInv
<1>2. IInv'
  BY <1>1, NextHolds
<1>3. Following' /\ StartApart'
  BY <1>1, StepsEvolve, EvolutionKeeps
<1>4. Counting'
  BY <1>1, StepsCount
<1>. QED
  BY <1>2, <1>3, <1>4 DEF CInv

\* So it always holds.
LEMMA CandidatesInvariant == Spec => []CInv
BY CInvInit, CInvNext, PTL DEF Spec

\* A candidate is a reading of the word without a repetition.
LEMMA CandidateReads ==
  ASSUME TypeOK, Acyclic, Following, StartApart, NEW c, Candidate(c)
  PROVE  IsReading(c) /\ \A a, b \in 1 .. Len(c) : c[a] = c[b] => a = b
<1>1. Walk(c) /\ c \in Seq(Ids) /\ Len(c) \in Nat /\ Len(c) >= 1 /\ c[Len(c)] \in Ids
  BY DEF Candidate, Walk
<1>2. ASSUME NEW k \in 1 .. (Len(c) - 1)
      PROVE  MayFollow(c[k], c[k + 1])
  <2>1. k + 1 \in 2 .. Len(c) /\ (k + 1) - 1 = k /\ c[k] \in Ids
    BY <1>1
  <2>2. c[k + 1] \in ToSet(nodes[c[k]].conn)
    BY <1>1, <2>1 DEF Walk
  <2>. QED
    BY <2>1, <2>2 DEF Following
<1>3. MayFollow(c[Len(c)], 0)
  BY <1>1 DEF Candidate, Following
<1>4. nodes[c[Len(c)]].next = 0
  <2>1. nodes[c[Len(c)]].next \in Positions
    BY <1>1, StartNode DEF TypeOK, Nodes
  <2>. QED
    BY <1>3, <2>1 DEF MayFollow, StartApart
<1>5. c[1] = 0
  BY <1>1 DEF Walk
<1>6. IsReading(c)
  BY <1>2, <1>3, <1>4, <1>5 DEF IsReading
<1>. QED
  BY <1>1, <1>6, WalkOnce

\* Each candidate that morpheme_chart_collect_results returns reads the word
\* from its first position to its end, through pairs of tags that
\* chart_connection_check accepts, and comes to no chart node twice, for any
\* dictionary, rules, caps and order of the visits.
THEOREM CandidatesRead == Spec => []CandidatesAreReadings
<1>1. CInv => CandidatesAreReadings
  <2>. SUFFICES ASSUME CInv, NEW k \in 1 .. Len(candidates)
                PROVE  /\ IsReading(candidates[k])
                       /\ \A a, b \in 1 .. Len(candidates[k]) :
                            candidates[k][a] = candidates[k][b] => a = b
    BY DEF CandidatesAreReadings
  <2>1. candidates # <<>>
    OBVIOUS
  <2>2. Good(candidates)
    BY <2>1 DEF CInv, Counting
  <2>3. Candidate(candidates[k])
    BY <2>2 DEF Good
  <2>. QED
    BY <2>3, CandidateReads DEF CInv, IInv
<1>. QED
  BY <1>1, CandidatesInvariant, PTL

\* The driver's test for the unknown-morpheme fallback, no connection of the
\* start node, is true exactly where no candidate comes out: whatever the
\* chart and the caps, a connection of the start node is the beginning of a
\* path that collect_results finds.
THEOREM CountIsCandidates == Spec => []CountMeansCandidates
<1>1. CInv => CountMeansCandidates
  BY DEF CInv, Counting, CountMeansCandidates
<1>. QED
  BY <1>1, CandidatesInvariant, PTL

-----------------------------------------------------------------------------
(* Taking away what leads nowhere *)

\* What is left of S after up to MaxDepth turns of taking away what is not
\* related to any of the rest, and that nothing is.
IsLeft(left, S, R) ==
  /\ left \in [0 .. MaxDepth -> SUBSET S]
  /\ left[0] = S
  /\ \A k \in 1 .. MaxDepth :
       left[k] = { i \in left[k - 1] : \E j \in left[k - 1] : <<i, j>> \in R }
Ends(S, R) == \E left : IsLeft(left, S, R) /\ left[MaxDepth] = {}

\* It is defined.
LEMMA LeftExists ==
  ASSUME NEW S, NEW R
  PROVE  \E left : IsLeft(left, S, R)
<1> DEFINE next(rest) == { i \in rest : \E j \in rest : <<i, j>> \in R }
           V == SUBSET S
           step == [x \in V \X (1 .. MaxDepth) |-> next(x[1])]
<1>1. \A rest \in V : next(rest) \in V
  OBVIOUS
<1>2. IsStep(step, MaxDepth, V)
  <2> HIDE DEF V, next
  <2>. QED
    BY <1>1 DEF IsStep
<1>3. \A rest \in V, k \in 1 .. MaxDepth : step[<<rest, k>>] = next(rest)
  <2> HIDE DEF V, next
  <2>. QED
    OBVIOUS
<1>4. S \in V
  OBVIOUS
<1> HIDE DEF step
<1>5. PICK f : IsRun(f, MaxDepth, V, S, step)
  <2> HIDE DEF V
  <2>. QED
    BY <1>2, <1>4, CapsAreNumbers, Recursion
<1>6. ASSUME NEW k \in 1 .. MaxDepth
      PROVE  f[k] = next(f[k - 1])
  <2>1. k - 1 \in 0 .. MaxDepth
    BY CapsAreNumbers
  <2> HIDE DEF V, next
  <2>2. f[k - 1] \in V
    BY <1>5, <2>1 DEF IsRun
  <2>. QED
    BY <1>3, <1>5, <2>2 DEF IsRun
<1>7. f \in [0 .. MaxDepth -> V] /\ f[0] = S
  BY <1>5 DEF IsRun
<1>. QED
  BY <1>6, <1>7 DEF IsLeft

\* What is related to something that is left stays a turn longer.
LEMMA StaysLonger ==
  ASSUME NEW S, NEW R, NEW left, IsLeft(left, S, R),
         NEW k \in 1 .. MaxDepth, NEW v \in left[k - 1], NEW u \in S, <<u, v>> \in R
  PROVE  u \in left[k]
<1> DEFINE T == { h \in 0 .. MaxDepth : \A w \in left[h] : \A t \in S : <<t, w>> \in R => t \in left[h] }
<1>1. MaxDepth \in Nat /\ k - 1 \in 0 .. MaxDepth
  BY CapsAreNumbers
<1>2. 0 \in T
  BY <1>1 DEF IsLeft
<1>3. ASSUME NEW h \in 1 .. MaxDepth, h - 1 \in T
      PROVE  h \in T
  <2>1. h \in 0 .. MaxDepth
    BY <1>1
  <2>2. ASSUME NEW w \in left[h], NEW t \in S, <<t, w>> \in R
        PROVE  t \in left[h]
    <3>1. left[h] = { i \in left[h - 1] : \E j \in left[h - 1] : <<i, j>> \in R }
      BY DEF IsLeft
    <3>2. w \in left[h - 1]
      BY <3>1
    <3>3. t \in left[h - 1]
      BY <1>3, <2>2, <3>2
    <3>. QED
      BY <2>2, <3>1, <3>2, <3>3
  <2>. QED
    BY <2>1, <2>2
<1>4. 0 .. MaxDepth \subseteq T
  <2> HIDE DEF T
  <2>. QED
    BY <1>1, <1>2, <1>3, Induction
<1>5. u \in left[k - 1]
  BY <1>1, <1>4
<1>6. left[k] = { i \in left[k - 1] : \E j \in left[k - 1] : <<i, j>> \in R }
  BY DEF IsLeft
<1>. QED
  BY <1>5, <1>6

\* With fewer elements and fewer relations nothing is left all the more.
LEMMA EndsOfLess ==
  ASSUME NEW S, NEW R, NEW T, NEW Q, S \subseteq T, R \subseteq Q, Ends(T, Q)
  PROVE  Ends(S, R)
<1>1. PICK b : IsLeft(b, T, Q) /\ b[MaxDepth] = {}
  BY DEF Ends
<1>2. PICK a : IsLeft(a, S, R)
  BY LeftExists
<1> DEFINE U == { k \in 0 .. MaxDepth : a[k] \subseteq b[k] }
<1>3. MaxDepth \in Nat
  BY CapsAreNumbers
<1>4. 0 \in U
  BY <1>1, <1>2, <1>3 DEF IsLeft
<1>5. ASSUME NEW k \in 1 .. MaxDepth, k - 1 \in U
      PROVE  k \in U
  <2>1. k \in 0 .. MaxDepth /\ a[k - 1] \subseteq b[k - 1]
    BY <1>3, <1>5
  <2>2. a[k] = { i \in a[k - 1] : \E j \in a[k - 1] : <<i, j>> \in R }
    BY <1>2 DEF IsLeft
  <2>3. b[k] = { i \in b[k - 1] : \E j \in b[k - 1] : <<i, j>> \in Q }
    BY <1>1 DEF IsLeft
  <2>. QED
    BY <2>1, <2>2, <2>3
<1>6. 0 .. MaxDepth \subseteq U
  <2> HIDE DEF U
  <2>. QED
    BY <1>3, <1>4, <1>5, Induction
<1>7. a[MaxDepth] = {}
  BY <1>1, <1>3, <1>6
<1>. QED
  BY <1>2, <1>7 DEF Ends

\* Then no part of S keeps its relations to itself.
LEMMA NothingTurns ==
  ASSUME NEW S, NEW R, Ends(S, R), NEW C \in SUBSET S,
         \A i \in C : \E j \in C : <<i, j>> \in R
  PROVE  C = {}
<1>1. PICK left : IsLeft(left, S, R) /\ left[MaxDepth] = {}
  BY DEF Ends
<1> DEFINE T == { k \in 0 .. MaxDepth : C \subseteq left[k] }
<1>2. MaxDepth \in Nat
  BY CapsAreNumbers
<1>3. 0 \in T
  BY <1>1, <1>2 DEF IsLeft
<1>4. ASSUME NEW k \in 1 .. MaxDepth, k - 1 \in T
      PROVE  k \in T
  <2>1. k \in 0 .. MaxDepth /\ C \subseteq left[k - 1]
    BY <1>2, <1>4
  <2>2. left[k] = { i \in left[k - 1] : \E j \in left[k - 1] : <<i, j>> \in R }
    BY <1>1 DEF IsLeft
  <2>. QED
    BY <2>1, <2>2
<1>5. 0 .. MaxDepth \subseteq T
  <2> HIDE DEF T
  <2>. QED
    BY <1>2, <1>3, <1>4, Induction
<1>. QED
  BY <1>1, <1>2, <1>5

\* And any part of S has an element that none of it is related to.
LEMMA SomethingFirst ==
  ASSUME NEW S, NEW R, Ends(S, R), NEW V \in SUBSET S, V # {}
  PROVE  \E v \in V : \A u \in V : <<u, v>> \notin R
<1>. SUFFICES ASSUME \A v \in V : \E u \in V : <<u, v>> \in R PROVE FALSE
  OBVIOUS
<1>1. PICK left : IsLeft(left, S, R) /\ left[MaxDepth] = {}
  BY DEF Ends
<1> DEFINE T == { k \in 0 .. MaxDepth : V \cap left[k] # {} }
<1>2. MaxDepth \in Nat
  BY CapsAreNumbers
<1>3. 0 \in T
  BY <1>1, <1>2 DEF IsLeft
<1>4. ASSUME NEW k \in 1 .. MaxDepth, k - 1 \in T
      PROVE  k \in T
  <2>1. k \in 0 .. MaxDepth
    BY <1>2
  <2>2. PICK v \in V : v \in left[k - 1]
    BY <1>4
  <2>3. PICK u \in V : <<u, v>> \in R
    OBVIOUS
  <2>4. u \in left[k]
    BY <1>1, <2>2, <2>3, StaysLonger
  <2>. QED
    BY <2>1, <2>4
<1>5. 0 .. MaxDepth \subseteq T
  <2> HIDE DEF T
  <2>. QED
    BY <1>2, <1>3, <1>4, Induction
<1>. QED
  BY <1>1, <1>2, <1>5

\* A chain through S is no longer than there are turns.
LEMMA ChainsEnd ==
  ASSUME NEW S, NEW R, Ends(S, R), NEW n \in Nat, NEW c \in [1 .. n -> S],
         \A k \in 1 .. (n - 1) : <<c[k], c[k + 1]>> \in R
  PROVE  n <= MaxDepth
<1>. SUFFICES ASSUME n > MaxDepth PROVE FALSE
  BY CapsAreNumbers
<1>1. PICK left : IsLeft(left, S, R) /\ left[MaxDepth] = {}
  BY DEF Ends
<1>2. MaxDepth \in Nat
  BY CapsAreNumbers
<1> DEFINE T == { k \in 0 .. MaxDepth : c[n - k] \in left[k] }
<1>3. 0 \in T
  <2>1. n \in 1 .. n /\ n - 0 = n
    BY <1>2
  <2>. QED
    BY <1>1, <1>2, <2>1 DEF IsLeft
<1>4. ASSUME NEW k \in 1 .. MaxDepth, k - 1 \in T
      PROVE  k \in T
  <2>1. k \in 0 .. MaxDepth /\ n - k \in 1 .. (n - 1) /\ (n - k) + 1 = n - (k - 1) /\ n - k \in 1 .. n
    BY <1>2
  <2>2. <<c[n - k], c[n - (k - 1)]>> \in R
    BY <2>1
  <2>3. c[n - (k - 1)] \in left[k - 1] /\ c[n - k] \in S
    BY <1>4, <2>1
  <2>4. c[n - k] \in left[k]
    BY <1>1, <2>2, <2>3, StaysLonger
  <2>. QED
    BY <2>1, <2>4
<1>5. 0 .. MaxDepth \subseteq T
  <2> HIDE DEF T
  <2>. QED
    BY <1>2, <1>3, <1>4, Induction
<1>. QED
  BY <1>1, <1>2, <1>5

\* The descents between nodes other than the start node.
Inner == Ids \ {0}
Descents == { d \in Inner \X Inner : Descends(d[1], d[2]) }

\* DescentsEnd says that nothing is left of them.
LEMMA DescentsEndIsEnds == DescentsEnd <=> Ends(Inner, Descents)
<1> DEFINE next(rest) == { i \in rest : \E j \in rest : Descends(i, j) }
           f == CHOOSE f : f = [k \in 0 .. MaxDepth |-> IF k = 0 THEN Ids \ {0} ELSE next(f[k - 1])]
<1>1. DescentsEnd <=> f[MaxDepth] = {}
  BY DEF DescentsEnd
<1>2. \A rest \in SUBSET Inner : next(rest) = { i \in rest : \E j \in rest : <<i, j>> \in Descents }
  BY DEF Descents
<1>3. MaxDepth \in Nat /\ \A k \in 0 .. MaxDepth : k # 0 => k \in 1 .. MaxDepth /\ k - 1 \in 0 .. MaxDepth
  BY CapsAreNumbers
<1> HIDE DEF next
<1>4. ASSUME NEW left, IsLeft(left, Inner, Descents)
      PROVE  left = [k \in 0 .. MaxDepth |-> IF k = 0 THEN Ids \ {0} ELSE next(left[k - 1])]
  <2> DEFINE h == [k \in 0 .. MaxDepth |-> IF k = 0 THEN Ids \ {0} ELSE next(left[k - 1])]
  <2>1. \A k \in 1 .. MaxDepth : left[k] = next(left[k - 1])
    <3>. SUFFICES ASSUME NEW k \in 1 .. MaxDepth PROVE left[k] = next(left[k - 1])
      OBVIOUS
    <3>1. k \in 0 .. MaxDepth /\ k # 0
      BY <1>3
    <3>2. left[k - 1] \in SUBSET Inner
      BY <1>3, <1>4, <3>1 DEF IsLeft
    <3>. QED
      BY <1>2, <1>4, <3>2 DEF IsLeft
  <2>2. \A k \in 0 .. MaxDepth : left[k] = h[k]
    BY <1>3, <1>4, <2>1 DEF IsLeft, Inner
  <2>3. DOMAIN left = 0 .. MaxDepth /\ DOMAIN h = 0 .. MaxDepth /\ left = [k \in 0 .. MaxDepth |-> left[k]]
    BY <1>4 DEF IsLeft
  <2>. QED
    BY <2>2, <2>3
<1>5. PICK left : IsLeft(left, Inner, Descents)
  BY LeftExists
<1>6. f = [k \in 0 .. MaxDepth |-> IF k = 0 THEN Ids \ {0} ELSE next(f[k - 1])]
  BY <1>4, <1>5
<1> HIDE DEF f
<1>7. ASSUME NEW g, g = [k \in 0 .. MaxDepth |-> IF k = 0 THEN Ids \ {0} ELSE next(g[k - 1])]
      PROVE  g[MaxDepth] = left[MaxDepth]
  <2> DEFINE T == { k \in 0 .. MaxDepth : g[k] = left[k] }
  <2>1. left = [k \in 0 .. MaxDepth |-> IF k = 0 THEN Ids \ {0} ELSE next(left[k - 1])]
    BY <1>4, <1>5
  <2>2. 0 \in T
    BY <1>3, <1>7, <2>1
  <2>3. ASSUME NEW k \in 1 .. MaxDepth, k - 1 \in T
        PROVE  k \in T
    <3>1. k \in 0 .. MaxDepth /\ k # 0
      BY <1>3
    <3>2. g[k] = next(g[k - 1]) /\ left[k] = next(left[k - 1])
      BY <1>7, <2>1, <3>1
    <3>. QED
      BY <2>3, <3>1, <3>2
  <2>4. 0 .. MaxDepth \subseteq T
    <3> HIDE DEF T
    <3>. QED
      BY <1>3, <2>2, <2>3, Induction
  <2>. QED
    BY <1>3, <2>4
<1>8. DescentsEnd <=> left[MaxDepth] = {}
  BY <1>1, <1>6, <1>7
<1>9. ASSUME NEW b, IsLeft(b, Inner, Descents)
      PROVE  b[MaxDepth] = left[MaxDepth]
  BY <1>4, <1>7, <1>9
<1>. QED
  BY <1>5, <1>8, <1>9 DEF Ends

-----------------------------------------------------------------------------
(* All that a node may be connected to *)

\* The node i may be connected to j, and a list has nothing twice.
Takes(i, j) == nodes[j].state = "SUCCESS" /\ <<nodes[i].tag, nodes[j].tag>> \in Connects
Once(list) == \A a, b \in 1 .. Len(list) : list[a] = list[b] => a = b

\* The connections c that the node n gets by the list of the position p, k of
\* it being looked at: it keeps what it had, and unless there is no room it is
\* connected to all that it takes, to each once if it had none.
Connecting(n, p, k, c) ==
  /\ c \in Seq(Ids) /\ Len(c) <= MaxConn
  /\ Len(nodes[n].conn) <= Len(c)
  /\ \A a \in 1 .. Len(nodes[n].conn) : c[a] = nodes[n].conn[a]
  /\ \/ Len(c) = MaxConn
     \/ \A h \in 1 .. k : Takes(n, morphs[p][h]) => morphs[p][h] \in ToSet(c)
  /\ \A a \in 1 .. Len(c) :
       a <= Len(nodes[n].conn) \/ \E h \in 1 .. k : c[a] = morphs[p][h] /\ Takes(n, c[a])
  /\ nodes[n].conn = <<>> /\ Once(morphs[p]) => Once(c)

\* What adding a connection does.
LEMMA OneConnectionMore ==
  ASSUME NEW S, NEW c \in Seq(S), Len(c) <= MaxConn, NEW j \in S, NEW d, d = AddConnection(c, j)
  PROVE  /\ d \in Seq(S) /\ Len(d) <= MaxConn /\ Len(c) <= Len(d)
         /\ \A a \in 1 .. Len(c) : d[a] = c[a]
         /\ Len(d) = MaxConn \/ \E a \in 1 .. Len(d) : d[a] = j
         /\ \A a \in 1 .. Len(d) : a \in 1 .. Len(c) \/ (a = Len(c) + 1 /\ d[a] = j)
<1>1. Len(c) \in Nat /\ MaxConn \in Nat
  BY CapsAreNumbers
<1>2. CASE Len(c) < MaxConn
  <2>1. d = Append(c, j)
    BY <1>2 DEF AddConnection
  <2>2. d \in Seq(S) /\ Len(d) = Len(c) + 1 /\ d[Len(c) + 1] = j /\ \A a \in 1 .. Len(c) : d[a] = c[a]
    BY <2>1, OneMoreOf
  <2>3. \A a \in 1 .. (Len(c) + 1) : a \in 1 .. Len(c) \/ a = Len(c) + 1
    BY <1>1
  <2>4. Len(c) + 1 \in 1 .. (Len(c) + 1) /\ Len(c) + 1 <= MaxConn /\ Len(c) <= Len(c) + 1
    BY <1>1, <1>2
  <2>. QED
    BY <2>2, <2>3, <2>4
<1>3. CASE ~(Len(c) < MaxConn)
  <2>1. d = c
    BY <1>3 DEF AddConnection
  <2>2. Len(c) = MaxConn
    BY <1>1, <1>3
  <2>. QED
    BY <1>1, <2>1, <2>2
<1>. QED
  BY <1>2, <1>3

\* One morpheme of the position more is looked at.
LEMMA ConnectingOn ==
  ASSUME TypeOK, NEW n \in Ids, NEW p \in Positions, NEW k \in 1 .. Len(morphs[p]),
         NEW c, Connecting(n, p, k - 1, c),
         NEW d, d = IF Takes(n, morphs[p][k]) THEN AddConnection(c, morphs[p][k]) ELSE c
  PROVE  Connecting(n, p, k, d)
<1> DEFINE j == morphs[p][k]
           base == nodes[n].conn
<1>1. j \in Ids /\ Len(morphs[p]) \in Nat /\ base \in Seq(Ids) /\ Len(base) \in Nat
  BY DEF TypeOK
<1>2. c \in Seq(Ids) /\ Len(c) \in Nat /\ Len(c) <= MaxConn /\ Len(base) <= Len(c)
      /\ \A a \in 1 .. Len(base) : c[a] = base[a]
  BY DEF Connecting
<1>3. \A h \in 1 .. k : h \in 1 .. (k - 1) \/ h = k
  BY <1>1
<1>4. CASE ~Takes(n, j)
  <2>1. d = c
    BY <1>4
  <2>2. Len(c) = MaxConn \/ \A h \in 1 .. k : Takes(n, morphs[p][h]) => morphs[p][h] \in ToSet(c)
    BY <1>3, <1>4 DEF Connecting
  <2>3. \A h \in 1 .. (k - 1) : h \in 1 .. k
    BY <1>1
  <2>4. \A a \in 1 .. Len(c) :
          a <= Len(base) \/ \E h \in 1 .. k : c[a] = morphs[p][h] /\ Takes(n, c[a])
    BY <2>3 DEF Connecting
  <2>5. base = <<>> /\ Once(morphs[p]) => Once(c)
    BY DEF Connecting
  <2>. QED
    BY <1>2, <2>1, <2>2, <2>4, <2>5 DEF Connecting
<1>5. CASE Takes(n, j)
  <2>1. /\ d \in Seq(Ids) /\ Len(d) <= MaxConn /\ Len(c) <= Len(d)
        /\ \A a \in 1 .. Len(c) : d[a] = c[a]
        /\ Len(d) = MaxConn \/ \E a \in 1 .. Len(d) : d[a] = j
        /\ \A a \in 1 .. Len(d) : a \in 1 .. Len(c) \/ (a = Len(c) + 1 /\ d[a] = j)
    <3> HIDE DEF j
    <3>1. d = AddConnection(c, j)
      BY <1>5 DEF j
    <3>. QED
      BY <1>1, <1>2, <3>1, OneConnectionMore
  <2>2. Len(d) \in Nat
    BY <2>1
  <2>3. ToSet(c) \subseteq ToSet(d)
    <3>1. \A a \in 1 .. Len(c) : a \in 1 .. Len(d)
      BY <1>2, <2>1, <2>2
    <3>. QED
      BY <2>1, <3>1 DEF ToSet
  <2>4. Len(d) = MaxConn \/ \A h \in 1 .. k : Takes(n, morphs[p][h]) => morphs[p][h] \in ToSet(d)
    <3>1. CASE Len(c) = MaxConn
      BY <1>2, <2>1, <2>2, <3>1, CapsAreNumbers
    <3>2. CASE Len(d) # MaxConn /\ \A h \in 1 .. (k - 1) : Takes(n, morphs[p][h]) => morphs[p][h] \in ToSet(c)
      <4>1. j \in ToSet(d)
        BY <2>1, <3>2 DEF ToSet
      <4>. QED
        BY <1>3, <2>3, <3>2, <4>1
    <3>. QED
      BY <3>1, <3>2 DEF Connecting
  <2>5. ASSUME NEW a \in 1 .. Len(d)
        PROVE  a <= Len(base) \/ \E h \in 1 .. k : d[a] = morphs[p][h] /\ Takes(n, d[a])
    <3>1. k \in 1 .. k /\ \A h \in 1 .. (k - 1) : h \in 1 .. k
      BY <1>1
    <3>2. CASE a \in 1 .. Len(c)
      <4>1. d[a] = c[a]
        BY <2>1, <3>2
      <4>. QED
        BY <3>1, <3>2, <4>1 DEF Connecting
    <3>3. CASE d[a] = j
      BY <1>5, <3>1, <3>3
    <3>. QED
      BY <2>1, <3>2, <3>3
  <2>6. ASSUME base = <<>>, Once(morphs[p]), NEW a \in 1 .. Len(d), NEW b \in 1 .. Len(d), d[a] = d[b]
        PROVE  a = b
    <3>1. Once(c)
      BY <2>6 DEF Connecting
    <3>2. \A h \in 1 .. (k - 1) : h \in 1 .. Len(morphs[p]) /\ h # k
      BY <1>1
    <3>3. \A e \in 1 .. Len(c) : c[e] # j
      <4>. SUFFICES ASSUME NEW e \in 1 .. Len(c) PROVE c[e] # j
        OBVIOUS
      <4>1. ~(e <= Len(base))
        BY <1>1, <2>6
      <4>2. PICK h \in 1 .. (k - 1) : c[e] = morphs[p][h]
        BY <4>1 DEF Connecting
      <4>. QED
        BY <2>6, <3>2, <4>2 DEF Once
    <3>4. CASE a \in 1 .. Len(c) /\ b \in 1 .. Len(c)
      BY <2>1, <2>6, <3>1, <3>4 DEF Once
    <3>. QED
      BY <2>1, <2>6, <3>3, <3>4
  <2>7. Len(base) <= Len(d) /\ \A a \in 1 .. Len(base) : d[a] = base[a]
    <3>1. \A a \in 1 .. Len(base) : a \in 1 .. Len(c)
      BY <1>1, <1>2
    <3>. QED
      BY <1>1, <1>2, <2>1, <2>2, <3>1
  <2>. QED
    BY <2>1, <2>4, <2>5, <2>7, <2>6 DEF Connecting, Once
<1>. QED
  BY <1>4, <1>5

\* So that is what morpheme_chart_connect_m_state does.
LEMMA ConnectedConnects ==
  ASSUME TypeOK, NEW n \in Ids, NEW p \in Positions
  PROVE  \E c : Connecting(n, p, Len(morphs[p]), c) /\ Connected(n, p) = [nodes EXCEPT ![n].conn = c]
<1> DEFINE N == Len(morphs[p])
           base == nodes[n].conn
           V == { c \in Seq(Ids) : Len(c) <= MaxConn }
           next(c, k) == IF Takes(n, morphs[p][k]) THEN AddConnection(c, morphs[p][k]) ELSE c
           step == [x \in V \X (1 .. N) |-> next(x[1], x[2])]
           f == CHOOSE f : f = [k \in 0 .. N |-> IF k = 0 THEN base ELSE next(f[k - 1], k)]
<1>1. N \in Nat /\ \A k \in 1 .. N : morphs[p][k] \in Ids
  BY DEF TypeOK
<1>2. base \in V
  BY DEF TypeOK
<1>3. \A c \in V, k \in 1 .. N : next(c, k) \in V
  <2>. SUFFICES ASSUME NEW c \in V, NEW k \in 1 .. N
                PROVE  AddConnection(c, morphs[p][k]) \in V
    OBVIOUS
  <2> DEFINE j == morphs[p][k]
             d == AddConnection(c, j)
  <2>1. c \in Seq(Ids) /\ Len(c) <= MaxConn /\ j \in Ids
    BY <1>1
  <2>2. d = AddConnection(c, j)
    OBVIOUS
  <2> HIDE DEF j, d
  <2>3. d \in Seq(Ids) /\ Len(d) <= MaxConn
    BY <2>1, <2>2, OneConnectionMore
  <2>. QED
    BY <2>3 DEF d, j
<1>4. IsStep(step, N, V)
  <2> HIDE DEF V, next
  <2>. QED
    BY <1>3 DEF IsStep
<1>5. \A c \in V, k \in 1 .. N : step[<<c, k>>] = next(c, k)
  OBVIOUS
<1> HIDE DEF N, base, step, next, V
<1>6. PICK g : IsRun(g, N, V, base, step)
  BY <1>1, <1>2, <1>4, Recursion
<1>7. \A k \in 1 .. N : g[k] = next(g[k - 1], k)
  <2>. SUFFICES ASSUME NEW k \in 1 .. N
                PROVE  g[k] = next(g[k - 1], k)
    OBVIOUS
  <2>1. k - 1 \in 0 .. N
    BY <1>1
  <2>2. g[k - 1] \in V
    BY <1>6, <2>1 DEF IsRun
  <2>. QED
    BY <1>5, <1>6, <2>2 DEF IsRun
<1>8. g = [k \in 0 .. N |-> IF k = 0 THEN base ELSE next(g[k - 1], k)]
  <2> DEFINE h == [k \in 0 .. N |-> IF k = 0 THEN base ELSE next(g[k - 1], k)]
  <2>1. \A k \in 0 .. N : k # 0 => k \in 1 .. N
    BY <1>1
  <2>2. \A k \in 0 .. N : g[k] = h[k]
    BY <1>6, <1>7, <2>1 DEF IsRun
  <2>3. DOMAIN g = 0 .. N /\ DOMAIN h = 0 .. N /\ g = [k \in 0 .. N |-> g[k]]
    BY <1>6 DEF IsRun
  <2>. QED
    BY <2>2, <2>3
<1>9. f = [k \in 0 .. N |-> IF k = 0 THEN base ELSE next(f[k - 1], k)]
  BY <1>8
<1>10. Connected(n, p) = [nodes EXCEPT ![n].conn = f[N]]
  BY DEF Connected, f, N, base, next, Takes
<1> HIDE DEF f
<1> DEFINE S == { k \in 0 .. N : Connecting(n, p, k, f[k]) }
<1>11. 0 \in S
  <2>1. f[0] = base /\ 0 \in 0 .. N
    BY <1>1, <1>9
  <2>2. Connecting(n, p, 0, base)
    <3>1. base \in Seq(Ids) /\ Len(base) <= MaxConn /\ Len(base) \in Nat
      BY DEF TypeOK, base
    <3>2. \A h \in 1 .. 0 : FALSE
      OBVIOUS
    <3>3. base = <<>> => Len(base) = 0
      OBVIOUS
    <3>. QED
      BY <3>1, <3>2, <3>3 DEF Connecting, Once, base
  <2>. QED
    BY <2>1, <2>2
<1>12. ASSUME NEW k \in 1 .. N, k - 1 \in S
       PROVE  k \in S
  <2>1. k \in 0 .. N /\ k # 0
    BY <1>1
  <2>2. f[k] = IF Takes(n, morphs[p][k]) THEN AddConnection(f[k - 1], morphs[p][k]) ELSE f[k - 1]
    BY <1>9, <2>1 DEF next
  <2>3. k \in 1 .. Len(morphs[p]) /\ Connecting(n, p, k - 1, f[k - 1])
    BY <1>12 DEF N
  <2> DEFINE c == f[k - 1]
             d == f[k]
  <2>4. d = IF Takes(n, morphs[p][k]) THEN AddConnection(c, morphs[p][k]) ELSE c
    BY <2>2
  <2>5. Connecting(n, p, k - 1, c)
    BY <2>3
  <2> HIDE DEF c, d
  <2>6. Connecting(n, p, k, d)
    BY <2>3, <2>4, <2>5, ConnectingOn
  <2>. QED
    BY <2>1, <2>6 DEF d
<1>13. 0 .. N \subseteq S
  <2> HIDE DEF S
  <2>. QED
    BY <1>1, <1>11, <1>12, Induction
<1>14. Connecting(n, p, N, f[N])
  BY <1>1, <1>13
<1>. QED
  BY <1>10, <1>14 DEF N

-----------------------------------------------------------------------------
(* All paths are collected *)

\* c goes on from path.
Begins(path, c) == Len(path) <= Len(c) /\ \A k \in 1 .. Len(path) : c[k] = path[k]

\* The candidates that go on from a path, and those of them that go through
\* the connection j of its last node.
On(path) == { c \in Seq(Ids) : Candidate(c) /\ Begins(path, c) }
Through(path, j) ==
  { c \in Seq(Ids) : Candidate(c) /\ IF j = 0 THEN c = path ELSE Begins(Append(path, j), c) }

\* The list found has become more: what comes next, up to t, is in Q, nothing
\* twice, and all of Q unless there is no room.
Extends(found, more, t, Q) ==
  /\ more \in Lists /\ t \in Nat /\ Len(found) <= t /\ t <= Len(more)
  /\ \A k \in 1 .. Len(found) : more[k] = found[k]
  /\ \A k \in (Len(found) + 1) .. t : more[k] \in Q
  /\ \A k, l \in (Len(found) + 1) .. t : more[k] = more[l] => k = l
  /\ t >= MaxCandidates \/ \A c \in Q : \E k \in (Len(found) + 1) .. t : more[k] = c

\* First one set, then another.
LEMMA ExtendsOn ==
  ASSUME NEW found \in Lists, NEW mid, NEW more, NEW t, NEW P, NEW Q,
         Extends(found, mid, Len(mid), P), Extends(mid, more, t, Q), P \cap Q = {}
  PROVE  Extends(found, more, t, P \cup Q)
<1>1. Len(found) \in Nat /\ Len(mid) \in Nat /\ Len(more) \in Nat /\ t \in Nat
      /\ Len(found) <= Len(mid) /\ Len(mid) <= t /\ t <= Len(more)
  BY DEF Extends, Lists
<1>2. \A k \in 1 .. Len(mid) : more[k] = mid[k]
  BY DEF Extends
<1>3. \A k \in 1 .. Len(found) : more[k] = found[k]
  <2>1. \A k \in 1 .. Len(found) : k \in 1 .. Len(mid)
    BY <1>1
  <2>. QED
    BY <1>2, <2>1 DEF Extends
<1>4. \A k \in (Len(found) + 1) .. t :
        k \in (Len(found) + 1) .. Len(mid) \/ k \in (Len(mid) + 1) .. t
  BY <1>1
<1>5. \A k \in (Len(found) + 1) .. Len(mid) :
        k \in (Len(found) + 1) .. t /\ k \in 1 .. Len(mid)
  BY <1>1
<1>6. \A k \in (Len(mid) + 1) .. t : k \in (Len(found) + 1) .. t
  BY <1>1
<1>7. \A k \in (Len(found) + 1) .. Len(mid) : more[k] = mid[k] /\ more[k] \in P
  BY <1>2, <1>5 DEF Extends
<1>8. \A k \in (Len(mid) + 1) .. t : more[k] \in Q
  BY DEF Extends
<1>9. ASSUME NEW k \in (Len(found) + 1) .. t, NEW l \in (Len(found) + 1) .. t, more[k] = more[l]
      PROVE  k = l
  <2>1. CASE k \in (Len(found) + 1) .. Len(mid) /\ l \in (Len(found) + 1) .. Len(mid)
    <3>1. mid[k] = mid[l]
      BY <1>7, <1>9, <2>1
    <3>. QED
      BY <2>1, <3>1 DEF Extends
  <2>2. CASE k \in (Len(mid) + 1) .. t /\ l \in (Len(mid) + 1) .. t
    BY <1>9, <2>2 DEF Extends
  <2>. QED
    BY <1>4, <1>7, <1>8, <1>9, <2>1, <2>2
<1>10. t >= MaxCandidates \/ \A c \in P \cup Q : \E k \in (Len(found) + 1) .. t : more[k] = c
  <2>1. CASE Len(mid) >= MaxCandidates
    BY <1>1, <2>1, CapsAreNumbers
  <2>2. CASE ~(Len(mid) >= MaxCandidates) /\ ~(t >= MaxCandidates)
    <3>1. ASSUME NEW c \in P
          PROVE  \E k \in (Len(found) + 1) .. t : more[k] = c
      <4>1. PICK k \in (Len(found) + 1) .. Len(mid) : mid[k] = c
        BY <2>2 DEF Extends
      <4>. QED
        BY <1>5, <1>7, <4>1
    <3>2. ASSUME NEW c \in Q
          PROVE  \E k \in (Len(found) + 1) .. t : more[k] = c
      <4>1. PICK k \in (Len(mid) + 1) .. t : more[k] = c
        BY <2>2 DEF Extends
      <4>. QED
        BY <1>6, <4>1
    <3>. QED
      BY <3>1, <3>2
  <2>. QED
    BY <2>1, <2>2
<1>11. more \in Lists /\ Len(found) <= t
  BY <1>1 DEF Extends
<1>. QED
  BY <1>1, <1>3, <1>4, <1>7, <1>8, <1>9, <1>10, <1>11 DEF Extends

\* Nothing is added when there is nothing to add, or no room.
LEMMA ExtendsNothing ==
  ASSUME NEW found \in Lists, NEW more \in Lists, NEW Q, Len(found) <= Len(more),
         \A k \in 1 .. Len(found) : more[k] = found[k],
         Q = {} \/ Len(found) >= MaxCandidates
  PROVE  Extends(found, more, Len(found), Q)
<1>1. Len(found) \in Nat /\ \A k \in (Len(found) + 1) .. Len(found) : FALSE
  BY DEF Lists
<1>. QED
  BY <1>1 DEF Extends

\* Different connections lead to different candidates.
LEMMA ThroughApart ==
  ASSUME TypeOK, NEW path \in Seq(Ids), NEW j \in Ids, NEW h \in Ids, j # h
  PROVE  Through(path, j) \cap Through(path, h) = {}
<1>1. Len(path) \in Nat
  OBVIOUS
<1>2. ASSUME NEW i \in Ids
      PROVE  /\ Len(Append(path, i)) = Len(path) + 1 /\ Append(path, i)[Len(path) + 1] = i
  BY OneMoreOf
<1>3. ASSUME NEW i \in Ids, NEW c \in Through(path, i)
      PROVE  IF i = 0 THEN Len(c) = Len(path) ELSE Len(c) > Len(path) /\ c[Len(path) + 1] = i
  <2>1. CASE i = 0
    BY <1>3, <2>1 DEF Through
  <2>2. CASE i # 0
    <3>1. Len(c) \in Nat /\ Begins(Append(path, i), c)
      BY <1>3, <2>2 DEF Through
    <3>2. Len(path) + 1 <= Len(c) /\ Len(path) + 1 \in 1 .. (Len(path) + 1)
      BY <1>1, <1>2, <3>1 DEF Begins
    <3>. QED
      BY <1>1, <1>2, <2>2, <3>1, <3>2 DEF Begins
  <2>. QED
    BY <2>1, <2>2
<1>4. ASSUME NEW c \in Through(path, j), c \in Through(path, h)
      PROVE  FALSE
  <2>1. Len(c) \in Nat
    BY <1>4 DEF Through
  <2>2. IF j = 0 THEN Len(c) = Len(path) ELSE Len(c) > Len(path) /\ c[Len(path) + 1] = j
    BY <1>3, <1>4
  <2>3. IF h = 0 THEN Len(c) = Len(path) ELSE Len(c) > Len(path) /\ c[Len(path) + 1] = h
    BY <1>3, <1>4
  <2>. QED
    BY <1>1, <2>1, <2>2, <2>3
<1>. QED
  BY <1>4

\* Sequences of the same length and elements are the same.
LEMMA SameSeq ==
  ASSUME NEW S, NEW a \in Seq(S), NEW b \in Seq(S), Len(a) = Len(b),
         \A k \in 1 .. Len(a) : a[k] = b[k]
  PROVE  a = b
  OBVIOUS

\* And each candidate that goes on from a walk goes through a connection.
LEMMA OnIsThrough ==
  ASSUME TypeOK, NEW path, Walk(path)
  PROVE  On(path) = UNION { Through(path, j) : j \in ToSet(nodes[path[Len(path)]].conn) }
<1> DEFINE last == path[Len(path)]
<1>1. path \in Seq(Ids) /\ Len(path) \in Nat /\ Len(path) >= 1 /\ Len(path) \in 1 .. Len(path)
  BY DEF Walk
<1>2. nodes[last].conn \in Seq(Ids)
  BY <1>1 DEF TypeOK
<1>3. ASSUME NEW i \in Ids
      PROVE  /\ Len(Append(path, i)) = Len(path) + 1 /\ Append(path, i)[Len(path) + 1] = i
             /\ \A k \in 1 .. Len(path) : Append(path, i)[k] = path[k]
  BY <1>1, OneMoreOf
<1>4. ASSUME NEW c \in On(path)
      PROVE  \E j \in ToSet(nodes[last].conn) : c \in Through(path, j)
  <2>1. c \in Seq(Ids) /\ Candidate(c) /\ Walk(c) /\ Len(c) \in Nat /\ Len(path) <= Len(c)
        /\ \A k \in 1 .. Len(path) : c[k] = path[k]
    BY <1>4 DEF On, Begins, Candidate
  <2>2. CASE Len(c) = Len(path)
    <3>1. c = path
      BY <1>1, <2>1, <2>2, SameSeq
    <3>2. 0 \in ToSet(nodes[last].conn)
      BY <2>1, <3>1 DEF Candidate
    <3>3. c \in Through(path, 0)
      BY <2>1, <3>1 DEF Through
    <3>. QED
      BY <3>2, <3>3
  <2>3. CASE Len(c) # Len(path)
    <3> DEFINE j == c[Len(path) + 1]
    <3>1. Len(path) + 1 \in 2 .. Len(c) /\ (Len(path) + 1) - 1 = Len(path)
      BY <1>1, <2>1, <2>3
    <3>2. j # 0 /\ j \in ToSet(nodes[c[Len(path)]].conn) /\ c[Len(path)] = last
      BY <1>1, <2>1, <3>1 DEF Walk
    <3>3. j \in Ids
      <4>1. Len(path) + 1 \in 1 .. Len(c)
        BY <1>1, <3>1
      <4>. QED
        BY <2>1, <4>1
    <3>4. Begins(Append(path, j), c)
      <4>1. \A k \in 1 .. (Len(path) + 1) : k \in 1 .. Len(path) \/ k = Len(path) + 1
        BY <1>1
      <4>2. Len(path) + 1 <= Len(c)
        BY <1>1, <3>1
      <4> DEFINE b == Append(path, j)
      <4>3. /\ Len(b) = Len(path) + 1 /\ b[Len(path) + 1] = j
            /\ \A k \in 1 .. Len(path) : b[k] = path[k]
        BY <1>3, <3>3
      <4> HIDE DEF b
      <4>4. Begins(b, c)
        BY <2>1, <4>1, <4>2, <4>3 DEF Begins
      <4>. QED
        BY <4>4 DEF b
    <3>5. c \in Through(path, j)
      <4> HIDE DEF j
      <4>. QED
        BY <2>1, <3>2, <3>4 DEF Through
    <3>. QED
      BY <3>2, <3>5
  <2>. QED
    BY <2>2, <2>3
<1>5. ASSUME NEW j \in ToSet(nodes[last].conn), NEW c \in Through(path, j)
      PROVE  c \in On(path)
  <2>1. j \in Ids
    BY <1>2, <1>5 DEF ToSet
  <2>2. c \in Seq(Ids) /\ Candidate(c) /\ Len(c) \in Nat
    BY <1>5 DEF Through
  <2>3. Begins(path, c)
    <3>1. CASE j = 0
      BY <1>1, <1>5, <3>1 DEF Through, Begins
    <3>2. CASE j # 0
      <4> DEFINE b == Append(path, j)
      <4>1. /\ Len(b) = Len(path) + 1 /\ \A k \in 1 .. Len(path) : b[k] = path[k]
        BY <1>3, <2>1
      <4>2. Begins(b, c)
        BY <1>5, <3>2 DEF Through
      <4> HIDE DEF b
      <4>3. \A k \in 1 .. Len(path) : k \in 1 .. Len(b)
        BY <1>1, <4>1
      <4>4. Len(path) <= Len(c)
        BY <1>1, <2>2, <4>1, <4>2 DEF Begins
      <4>. QED
        BY <4>1, <4>2, <4>3, <4>4 DEF Begins
    <3>. QED
      BY <3>1, <3>2
  <2>. QED
    BY <2>2, <2>3 DEF On
<1>. QED
  BY <1>4, <1>5

\* A search that finds all the candidates that go on from paths of n nodes.
AllAt(deeper, n) ==
  \A path \in Seq(Ids), found \in Lists :
    Walk(path) /\ Len(path) = n =>
      Extends(found, deeper[path][found], Len(deeper[path][found]), On(path))

\* One connection more.
LEMMA AfterExtends ==
  ASSUME TypeOK, NEW path, Walk(path), NEW deeper \in Searches, AllAt(deeper, Len(path) + 1),
         NEW j \in ToSet(nodes[path[Len(path)]].conn), NEW found \in Lists,
         NEW after, after = After(path, deeper, j, found)
  PROVE  Extends(found, after, Len(after), Through(path, j))
<1>1. path \in Seq(Ids) /\ Len(path) \in Nat /\ path[Len(path)] \in Ids /\ Len(found) \in Nat
  BY DEF Walk, Lists
<1>2. j \in Ids
  BY <1>1 DEF TypeOK, ToSet
<1>3. CASE j = 0
  <2>1. after = Append(found, path) /\ Candidate(path)
    BY <1>3 DEF After, Candidate
  <2>2. path \in Seq(Nat)
    BY <1>1, StartNode, ListOfNodes
  <2>3. Through(path, j) = {path}
    BY <1>1, <1>3, <2>1 DEF Through
  <2>4. /\ after \in Lists /\ Len(after) = Len(found) + 1 /\ after[Len(found) + 1] = path
        /\ \A k \in 1 .. Len(found) : after[k] = found[k]
    <3> DEFINE L == Seq(Nat)
    <3>1. found \in Seq(L) /\ path \in L /\ Lists = Seq(L)
      BY <2>2 DEF Lists
    <3> HIDE DEF L
    <3>. QED
      BY <2>1, <3>1, OneMoreOf
  <2>5. (Len(found) + 1) .. Len(after) = {Len(found) + 1} /\ Len(found) <= Len(after)
        /\ Len(after) \in Nat /\ Len(after) <= Len(after)
    BY <1>1, <2>4
  <2> HIDE DEF Through
  <2>. QED
    BY <2>3, <2>4, <2>5 DEF Extends
<1>4. CASE j # 0
  <2> DEFINE longer == Append(path, j)
  <2>1. after = deeper[longer][found]
    BY <1>4 DEF After
  <2>2. Walk(longer) /\ Len(longer) = Len(path) + 1
    BY <1>4, WalkOn
  <2>3. longer \in Seq(Ids)
    BY <2>2 DEF Walk
  <2>4. Through(path, j) = On(longer)
    BY <1>4 DEF Through, On
  <2> HIDE DEF longer
  <2>. QED
    BY <2>1, <2>2, <2>3, <2>4 DEF AllAt
<1>. QED
  BY <1>3, <1>4

\* The candidates through the connections from the a-th to the m-th.
Between(path, conn, a, m) == UNION { Through(path, conn[b]) : b \in a .. m }

\* The loop over the connections finds all that goes through the first m of
\* them, if these are different: in the end nothing else, if they are all.
LoopExtends(path, conn, m, left, found, more) ==
  /\ more \in Lists /\ Len(found) <= Len(more) /\ \A k \in 1 .. Len(found) : more[k] = found[k]
  /\ \E t \in Nat : /\ Extends(found, more, t, Between(path, conn, Len(conn) - left + 1, m))
                    /\ m = Len(conn) => t = Len(more)

\* One turn of that loop.
LEMMA LoopOn ==
  ASSUME TypeOK, NEW path, Walk(path), NEW conn, conn = nodes[path[Len(path)]].conn,
         NEW m \in 0 .. Len(conn), \A a, b \in 1 .. m : conn[a] = conn[b] => a = b,
         NEW left \in 1 .. Len(conn), NEW found \in Lists, NEW after, NEW more,
         Extends(found, after, Len(after), Through(path, conn[Len(conn) - left + 1])),
         LoopExtends(path, conn, m, left - 1, after, more)
  PROVE  LoopExtends(path, conn, m, left, found, more)
<1> DEFINE a == Len(conn) - left + 1
<1>1. path \in Seq(Ids) /\ conn \in Seq(Ids) /\ Len(conn) \in Nat /\ m \in Nat
  BY DEF TypeOK, Walk
<1>2. a \in 1 .. Len(conn) /\ Len(conn) - (left - 1) + 1 = a + 1 /\ a \in Nat
  BY <1>1
<1>3. PICK t \in Nat : Extends(after, more, t, Between(path, conn, a + 1, m)) /\ (m = Len(conn) => t = Len(more))
  BY <1>2 DEF LoopExtends
<1> HIDE DEF a
<1>4. Extends(found, after, Len(after), Through(path, conn[a]))
  BY DEF a
<1>5. /\ more \in Lists /\ after \in Lists /\ Len(found) <= Len(more)
      /\ \A k \in 1 .. Len(found) : more[k] = found[k]
  <2>1. more \in Lists /\ Len(after) <= Len(more) /\ \A k \in 1 .. Len(after) : more[k] = after[k]
    BY DEF LoopExtends
  <2>2. after \in Lists /\ Len(found) <= Len(after) /\ \A k \in 1 .. Len(found) : after[k] = found[k]
    BY <1>4 DEF Extends
  <2>3. Len(found) \in Nat /\ Len(after) \in Nat /\ Len(more) \in Nat
    BY <2>1, <2>2 DEF Lists
  <2>4. \A k \in 1 .. Len(found) : k \in 1 .. Len(after)
    BY <2>2, <2>3
  <2>. QED
    BY <2>1, <2>2, <2>3, <2>4
<1>6. CASE a <= m
  <2>1. a .. m = {a} \cup ((a + 1) .. m) /\ a \notin (a + 1) .. m
        /\ (a + 1) .. m \subseteq 1 .. m /\ a \in 1 .. m /\ 1 .. m \subseteq 1 .. Len(conn)
    BY <1>1, <1>2, <1>6
  <2>2. Between(path, conn, a, m) = Through(path, conn[a]) \cup Between(path, conn, a + 1, m)
    <3> DEFINE R == (a + 1) .. m
               S == a .. m
    <3>1. S = {a} \cup R
      BY <2>1
    <3>2. /\ Between(path, conn, a, m) = UNION { Through(path, conn[b]) : b \in S }
          /\ Between(path, conn, a + 1, m) = UNION { Through(path, conn[b]) : b \in R }
      BY DEF Between
    <3> HIDE DEF R, S, Through
    <3>3. ASSUME NEW c
          PROVE  (\E b \in S : c \in Through(path, conn[b]))
                   <=> (c \in Through(path, conn[a]) \/ \E b \in R : c \in Through(path, conn[b]))
      BY <3>1
    <3>. QED
      BY <3>2, <3>3
  <2>3. ASSUME NEW b \in (a + 1) .. m
        PROVE  Through(path, conn[a]) \cap Through(path, conn[b]) = {}
    <3>1. b \in 1 .. m /\ b # a
      BY <2>1
    <3>2. conn[a] \in Ids /\ conn[b] \in Ids /\ conn[a] # conn[b]
      BY <1>1, <2>1, <3>1
    <3>. QED
      BY <1>1, <3>2, ThroughApart
  <2>4. Through(path, conn[a]) \cap Between(path, conn, a + 1, m) = {}
    BY <2>3 DEF Between
  <2>5. Extends(found, more, t, Between(path, conn, a, m))
    <3> DEFINE P == Through(path, conn[a])
               Q == Between(path, conn, a + 1, m)
    <3> HIDE DEF P, Q
    <3>1. Extends(found, after, Len(after), P) /\ Extends(after, more, t, Q) /\ P \cap Q = {}
      BY <1>3, <1>4, <2>4 DEF P, Q
    <3>2. Extends(found, more, t, P \cup Q)
      BY <3>1, ExtendsOn
    <3>. QED
      BY <2>2, <3>2 DEF P, Q
  <2>. QED
    BY <1>3, <1>5, <2>5 DEF LoopExtends, a
<1>7. CASE ~(a <= m)
  <2>1. a .. m = {} /\ m # Len(conn)
    BY <1>1, <1>2, <1>7
  <2>2. Between(path, conn, a, m) = {}
    BY <2>1 DEF Between
  <2>3. Extends(found, more, Len(found), Between(path, conn, a, m)) /\ Len(found) \in Nat
    <3> DEFINE Q == Between(path, conn, a, m)
    <3>1. Q = {}
      BY <2>2
    <3> HIDE DEF Q
    <3>2. Extends(found, more, Len(found), Q)
      BY <1>5, <3>1, ExtendsNothing
    <3>3. Len(found) \in Nat
      BY DEF Lists
    <3>. QED
      BY <3>2, <3>3 DEF Q
  <2>. QED
    BY <1>5, <2>1, <2>3 DEF LoopExtends, a
<1>. QED
  BY <1>6, <1>7

\* So collecting from a path finds all that goes on from it.
LEMMA CollectedExtends ==
  ASSUME TypeOK, NEW path, Walk(path), NEW deeper \in Searches, AllAt(deeper, Len(path) + 1),
         NEW conn, conn = nodes[path[Len(path)]].conn,
         NEW m \in 0 .. Len(conn), \A a, b \in 1 .. m : conn[a] = conn[b] => a = b,
         NEW start \in Lists
  PROVE  LoopExtends(path, conn, m, Len(conn), start, Collected(path, deeper)[start])
<1>1. path \in Seq(Ids) \ {<<>>} /\ conn \in Seq(Ids) /\ Len(conn) \in Nat /\ m \in Nat
  BY DEF Walk, TypeOK
<1>2. PICK loop : IsLoop(loop, path, conn, deeper) /\ Collected(path, deeper) = loop[Len(conn)]
  BY <1>1, CollectedIsLoop
<1> DEFINE N == Len(conn)
           S == { left \in 0 .. N : \A found \in Lists : LoopExtends(path, conn, m, left, found, loop[left][found]) }
<1>3. ASSUME NEW found \in Lists, NEW left \in 0 .. N,
             left = 0 \/ Len(found) >= MaxCandidates
      PROVE  LoopExtends(path, conn, m, left, found, found)
  <2> DEFINE Q == Between(path, conn, N - left + 1, m)
  <2>1. Len(found) \in Nat /\ Len(found) <= Len(found)
    BY DEF Lists
  <2>2. Q = {} \/ Len(found) >= MaxCandidates
    <3>1. CASE left = 0
      <4>1. (N - left + 1) .. m = {}
        BY <1>1, <3>1
      <4>. QED
        BY <4>1 DEF Between
    <3>. QED
      BY <1>3, <3>1
  <2> HIDE DEF Q
  <2>3. Extends(found, found, Len(found), Q)
    BY <2>1, <2>2, ExtendsNothing
  <2>. QED
    BY <2>1, <2>3 DEF LoopExtends, Q
<1>4. 0 \in S
  <2>1. \A found \in Lists : loop[0][found] = found
    BY <1>2 DEF IsLoop
  <2>2. 0 \in 0 .. N
    BY <1>1
  <2>. QED
    BY <1>3, <2>1, <2>2
<1>5. ASSUME NEW left \in 1 .. N, left - 1 \in S
      PROVE  left \in S
  <2>1. left \in 0 .. N
    BY <1>1
  <2>2. ASSUME NEW found \in Lists
        PROVE  LoopExtends(path, conn, m, left, found, loop[left][found])
    <3>1. CASE Len(found) >= MaxCandidates
      <4>1. loop[left][found] = found
        BY <1>2, <3>1 DEF IsLoop
      <4>. QED
        BY <1>3, <2>1, <3>1, <4>1
    <3>2. CASE ~(Len(found) >= MaxCandidates)
      <4> DEFINE j == conn[N - left + 1]
                 after == After(path, deeper, j, found)
                 more == loop[left - 1][after]
      <4>1. loop[left][found] = more
        BY <1>2, <3>2 DEF IsLoop
      <4>2. j \in ToSet(conn)
        <5>1. N - left + 1 \in 1 .. N
          BY <1>1
        <5>. QED
          BY <1>1, <5>1 DEF ToSet
      <4>3. Extends(found, after, Len(after), Through(path, j))
        <5> HIDE DEF j
        <5>. QED
          BY <4>2, AfterExtends
      <4>4. after \in Lists
        BY <4>3 DEF Extends
      <4> HIDE DEF after
      <4>5. LoopExtends(path, conn, m, left - 1, after, more)
        BY <1>5, <4>4
      <4> HIDE DEF more
      <4>6. LoopExtends(path, conn, m, left, found, more)
        BY <4>3, <4>5, LoopOn
      <4>. QED
        BY <4>1, <4>6
    <3>. QED
      BY <3>1, <3>2
  <2>. QED
    BY <2>1, <2>2
<1>6. 0 .. N \subseteq S
  <2> HIDE DEF S
  <2>. QED
    BY <1>1, <1>4, <1>5, Induction
<1>7. N \in 0 .. N
  BY <1>1
<1>. QED
  BY <1>2, <1>6, <1>7

\* The elements of a list are finitely many.
LEMMA ElementsFinite ==
  ASSUME NEW S, NEW list \in Seq(S)
  PROVE  IsFiniteSet(ToSet(list)) /\ Cardinality(ToSet(list)) \in Nat
<1> DEFINE U == { list[k] : k \in 1 .. Len(list) }
           g == [k \in 1 .. Len(list) |-> list[k]]
<1>1. IsFiniteSet(1 .. Len(list))
  BY FS_Interval
<1>2. g \in Surjection(1 .. Len(list), U)
  BY DEF Surjection
<1>3. IsFiniteSet(U)
  BY <1>1, <1>2, FS_Surjection
<1>4. ToSet(list) = U
  BY DEF ToSet
<1>. QED
  BY <1>3, <1>4, FS_CardinalityType

\* A list holds at least as many elements as its beginning without
\* repetition.
LEMMA HoldsMany ==
  ASSUME NEW S, NEW list \in Seq(S), NEW t \in 0 .. Len(list),
         \A k, l \in 1 .. t : list[k] = list[l] => k = l
  PROVE  t <= Cardinality(ToSet(list))
<1> DEFINE f == [k \in 1 .. t |-> list[k]]
           T == { list[k] : k \in 1 .. t }
<1>1. Len(list) \in Nat /\ t \in Nat
  OBVIOUS
<1>2. ToSet(list) = { list[k] : k \in 1 .. Len(list) }
  BY DEF ToSet
<1>3. T \subseteq ToSet(list)
  <2>1. \A k \in 1 .. t : k \in 1 .. Len(list)
    BY <1>1
  <2>. QED
    BY <1>2, <2>1
<1>4. IsFiniteSet(ToSet(list))
  BY ElementsFinite
<1>5. f \in Bijection(1 .. t, T)
  <2>1. f \in [1 .. t -> T]
    OBVIOUS
  <2>2. \A x \in T : \E k \in 1 .. t : f[k] = x
    OBVIOUS
  <2>3. \A k, l \in 1 .. t : f[k] = f[l] => k = l
    OBVIOUS
  <2>. QED
    BY <2>1, <2>2, <2>3 DEF Bijection, Injection, Surjection, IsInjective
<1> HIDE DEF f, T
<1>6. IsFiniteSet(1 .. t) /\ Cardinality(1 .. t) = t
  BY <1>1, FS_Interval
<1>7. Cardinality(T) = t
  BY <1>5, <1>6, FS_Bijection DEF ExistsBijection
<1>. QED
  BY <1>3, <1>4, <1>7, FS_Subset

\* All nodes but the start node are connected to what they are once.
OnceInner == \A i \in Ids \ {0} : Once(nodes[i].conn)

\* So collecting from a longer path finds all that goes on from it.
LEMMA NodeExtends ==
  ASSUME TypeOK, OnceInner, NEW path, Walk(path), Len(path) # 1,
         NEW deeper \in Searches, AllAt(deeper, Len(path) + 1), NEW found \in Lists,
         NEW more, more = Collected(path, deeper)[found]
  PROVE  Extends(found, more, Len(more), On(path))
<1> DEFINE conn == nodes[path[Len(path)]].conn
<1>1. path \in Seq(Ids) /\ Len(path) \in Nat /\ Len(path) >= 1 /\ path[Len(path)] \in Ids
  BY DEF Walk
<1>2. path[Len(path)] # 0
  <2>1. ASSUME NEW N \in Nat, N >= 1, N # 1
        PROVE  N \in 2 .. N
    BY <2>1
  <2>2. Len(path) \in 2 .. Len(path)
    BY <1>1, <2>1
  <2>. QED
    BY <2>2 DEF Walk
<1>3. conn \in Seq(Ids) /\ Len(conn) \in Nat /\ Len(conn) \in 0 .. Len(conn)
  BY <1>1 DEF TypeOK
<1>4. \A a, b \in 1 .. Len(conn) : conn[a] = conn[b] => a = b
  BY <1>1, <1>2 DEF OnceInner, Once
<1> HIDE DEF conn
<1>5. LoopExtends(path, conn, Len(conn), Len(conn), found, more)
  <2>1. conn = nodes[path[Len(path)]].conn
    BY DEF conn
  <2>. QED
    BY <1>3, <1>4, <2>1, CollectedExtends
<1>6. Len(conn) - Len(conn) + 1 = 1
  BY <1>3
<1>7. Extends(found, more, Len(more), Between(path, conn, 1, Len(conn)))
  BY <1>5, <1>6 DEF LoopExtends
<1>8. Between(path, conn, 1, Len(conn)) = On(path)
  <2>1. On(path) = UNION { Through(path, j) : j \in ToSet(conn) }
    BY OnIsThrough DEF conn
  <2>2. ToSet(conn) = { conn[b] : b \in 1 .. Len(conn) }
    BY DEF ToSet
  <2> HIDE DEF Through
  <2>. QED
    BY <2>1, <2>2 DEF Between
<1>. QED
  BY <1>7, <1>8

\* Unless there are too many, all candidates are collected: it is enough that
\* the start node has all its connections at the beginning.
LEMMA PathsComplete ==
  ASSUME TypeOK, Settled, Acyclic, OnceInner, NEW conn, conn = nodes[0].conn,
         NEW m \in 0 .. Len(conn), \A a, b \in 1 .. m : conn[a] = conn[b] => a = b,
         \A j \in ToSet(conn) : \E a \in 1 .. m : conn[a] = j,
         Cardinality(ToSet(Paths)) < MaxCandidates, NEW c, Candidate(c)
  PROVE  c \in ToSet(Paths)
<1>1. PICK search : IsSearch(search) /\ Paths = search[ChartEnd][<<0>>][<<>>]
  BY PathsIsSearch
<1>2. ChartEnd \in Nat \ {0}
  BY CapsAreNumbers DEF TypeOK
<1> DEFINE M == ChartEnd - 1
           S == { room \in 0 .. M : AllAt(search[room], ChartEnd + 1 - room) }
<1>3. M \in Nat
  BY <1>2
<1>4. 0 \in S
  <2>1. ASSUME NEW path, Walk(path)
        PROVE  Len(path) # ChartEnd + 1
    <3>1. Len(path) <= ChartEnd /\ Len(path) \in Nat
      BY <2>1, WalkFits DEF Walk
    <3>. QED
      BY <1>2, <3>1
  <2>2. AllAt(search[0], ChartEnd + 1 - 0)
    BY <1>2, <2>1 DEF AllAt
  <2>. QED
    BY <1>3, <2>2
<1>5. ASSUME NEW room \in 1 .. M, room - 1 \in S
      PROVE  room \in S
  <2>1. room \in 1 .. ChartEnd /\ room - 1 \in 0 .. ChartEnd /\ room \in 0 .. M
    BY <1>2
  <2> DEFINE deeper == search[room - 1]
  <2>2. deeper \in Searches
    BY <1>1, <2>1 DEF IsSearch
  <2>3. ASSUME NEW path \in Seq(Ids), NEW found \in Lists,
               Walk(path), Len(path) = ChartEnd + 1 - room
        PROVE  Extends(found, search[room][path][found], Len(search[room][path][found]), On(path))
    <3> DEFINE more == search[room][path][found]
    <3>1. path \in Seq(Ids) \ {<<>>}
      BY <2>3 DEF Walk
    <3>2. more = Collected(path, deeper)[found]
      BY <1>1, <2>1, <3>1 DEF IsSearch
    <3>3. ChartEnd + 1 - (room - 1) = Len(path) + 1 /\ Len(path) # 1
      BY <1>2, <2>1, <2>3
    <3>4. AllAt(deeper, Len(path) + 1)
      BY <1>5, <3>3
    <3> HIDE DEF deeper, more
    <3>5. Extends(found, more, Len(more), On(path))
      BY <2>2, <2>3, <3>2, <3>3, <3>4, NodeExtends
    <3>. QED
      BY <3>5 DEF more
  <2>4. AllAt(search[room], ChartEnd + 1 - room)
    BY <2>3 DEF AllAt
  <2>. QED
    BY <2>1, <2>4
<1>6. AllAt(search[M], 2)
  <2>1. 0 .. M \subseteq S
    <3> HIDE DEF S, M
    <3>. QED
      BY <1>3, <1>4, <1>5, Induction
  <2>2. M \in 0 .. M /\ ChartEnd + 1 - M = 2
    BY <1>2
  <2>. QED
    BY <2>1, <2>2
<1> HIDE DEF S
<1> DEFINE start == <<0>>
           deeper == search[M]
<1>7. start \in Seq(Ids) \ {<<>>} /\ Walk(start) /\ Len(start) = 1 /\ start[1] = 0
  BY StartNode DEF Walk
<1>8. <<>> \in Lists /\ Len(<<>>) = 0
  BY DEF Lists
<1>9. deeper \in Searches /\ Paths = Collected(start, deeper)[<<>>]
  <2>1. ChartEnd \in 1 .. ChartEnd /\ M \in 0 .. ChartEnd
    BY <1>2
  <2>. QED
    BY <1>1, <1>7, <2>1 DEF IsSearch
<1> HIDE DEF start, deeper, M
<1>10. LoopExtends(start, conn, m, Len(conn), <<>>, Paths)
  <2>1. AllAt(deeper, Len(start) + 1)
    <3>1. Len(start) + 1 = 2
      BY <1>7
    <3>. QED
      BY <1>6, <3>1 DEF deeper
  <2>2. conn = nodes[start[Len(start)]].conn
    BY <1>7
  <2>3. LoopExtends(start, conn, m, Len(conn), <<>>, Collected(start, deeper)[<<>>])
    BY <1>7, <1>8, <1>9, <2>1, <2>2, CollectedExtends
  <2>. QED
    BY <1>9, <2>3
<1>11. conn \in Seq(Ids) /\ Len(conn) \in Nat /\ Len(conn) - Len(conn) + 1 = 1
  BY StartNode DEF TypeOK
<1>12. PICK t \in Nat : Extends(<<>>, Paths, t, Between(start, conn, 1, m))
  BY <1>10, <1>11 DEF LoopExtends
<1>13. /\ Paths \in Lists /\ Len(Paths) \in Nat /\ t <= Len(Paths) /\ t \in 0 .. Len(Paths)
       /\ \A k, l \in 1 .. t : Paths[k] = Paths[l] => k = l
       /\ t >= MaxCandidates \/ \A d \in Between(start, conn, 1, m) : \E k \in 1 .. t : Paths[k] = d
  <2>1. Len(<<>>) + 1 = 1
    BY <1>8
  <2>2. Paths \in Lists /\ t <= Len(Paths) /\ Len(Paths) \in Nat
    BY <1>12 DEF Extends, Lists
  <2>. QED
    BY <1>12, <2>1, <2>2 DEF Extends
<1>14. t <= Cardinality(ToSet(Paths))
  BY <1>13, HoldsMany DEF Lists
<1>15. ~(t >= MaxCandidates)
  <2>1. IsFiniteSet(ToSet(Paths))
    BY <1>13, ElementsFinite DEF Lists
  <2>2. Cardinality(ToSet(Paths)) \in Nat
    BY <2>1, FS_CardinalityType
  <2>. QED
    BY <1>14, <2>2, CapsAreNumbers
<1>16. c \in Between(start, conn, 1, m)
  <2>1. c \in On(start)
    <3>1. c \in Seq(Ids) /\ Len(c) \in Nat /\ Len(c) >= 1 /\ c[1] = 0
      BY DEF Candidate, Walk
    <3>2. \A k \in 1 .. Len(start) : c[k] = start[k]
      BY <1>7, <3>1
    <3>. QED
      BY <1>7, <3>1, <3>2 DEF On, Begins
  <2>2. PICK j \in ToSet(conn) : c \in Through(start, j)
    <3>1. On(start) = UNION { Through(start, j) : j \in ToSet(conn) }
      BY <1>7, OnIsThrough
    <3> HIDE DEF Through
    <3>. QED
      BY <2>1, <3>1
  <2>3. PICK a \in 1 .. m : conn[a] = j
    OBVIOUS
  <2>. QED
    BY <2>2, <2>3 DEF Between
<1>17. PICK k \in 1 .. t : Paths[k] = c
  BY <1>13, <1>15, <1>16
<1>18. k \in 1 .. Len(Paths)
  BY <1>13
<1>. QED
  BY <1>17, <1>18 DEF ToSet

-----------------------------------------------------------------------------
(* How the visits stand *)

\* The states of a position that a visit for every tag type has settled, and
\* those of one that nobody has looped over yet.
Closes == {"M", "F"}
Fresh == {"N", "D"}

\* The start node is alone at its position and asks for every tag.
StartReads ==
  nodes[0].next = 1 /\ nodes[0].type = All /\ posState[0] = "M" /\ ToSet(morphs[0]) = {0}

\* No position has a morpheme twice, and no node but the start node a
\* connection.
Onces == (\A p \in Positions : Once(morphs[p])) /\ OnceInner

\* The driver is where the first position is.
Driven ==
  /\ phase = "prefix" => posState[1] = "N"
  /\ phase = "unknown" => nodes[0].conn = <<>>
  /\ phase \in {"unknown", "collect", "done"} => posState[1] \in Closes
  /\ posState[1] \notin Closes => nodes[0].conn = <<>>

\* A frame fits the nodes ns, the position states ps and the lists ms; it
\* awaits the visit of n.
FrameFits(f, ns, ps, ms) ==
  /\ f.type = ns[f.node].type
  /\ f.at = "enter" => f.i = 1
  /\ f.at # "enter" => ns[f.node].next # 0 /\ ps[ns[f.node].next] \notin Fresh
  /\ f.i - 1 <= Len(ms[ns[f.node].next])
Awaits(f, n, ns, ms) ==
  /\ f.at = "await" /\ f.i <= Len(ms[ns[f.node].next])
  /\ ms[ns[f.node].next][f.i] = n /\ TagTypeOK(f.type, ns[n].tag)

\* Every frame on the stack fits and awaits the one above it.
Framed ==
  /\ \A k \in 1 .. Len(stack) : FrameFits(stack[k], nodes, posState, morphs)
  /\ \A k \in 1 .. (Len(stack) - 1) : Awaits(stack[k], stack[k + 1].node, nodes, morphs)
  /\ \A k \in 1 .. Len(stack) : k = Len(stack) => stack[k].at # "await"

\* A visited node is at the first position, or a visited node descends to it.
Rooted ==
  \A i \in Inner : nodes[i].state # "INCOMPLETE" =>
    i \in ToSet(morphs[1]) \/ \E h \in Inner : nodes[h].state # "INCOMPLETE" /\ Descends(h, i)

\* The invariant of the visits.
FInv == CInv /\ StartReads /\ Onces /\ Driven /\ Framed /\ Rooted

-----------------------------------------------------------------------------
(* What a step does *)

\* The position p gets new nodes.
Growing(p) ==
  /\ Ids \subseteq Ids' /\ \A i \in Ids : nodes'[i] = nodes[i]
  /\ \A i \in Ids' \ Ids : nodes'[i].state = "INCOMPLETE" /\ nodes'[i].conn = <<>>
  /\ \A q \in Positions \ {p} : morphs'[q] = morphs[q]
  /\ Len(morphs[p]) <= Len(morphs'[p])
  /\ \A k \in 1 .. Len(morphs'[p]) :
       IF k <= Len(morphs[p]) THEN morphs'[p][k] = morphs[p][k] ELSE morphs'[p][k] \notin Ids
  /\ \A k, l \in 1 .. Len(morphs'[p]) :
       k > Len(morphs[p]) /\ morphs'[p][k] = morphs'[p][l] => k = l
  /\ stack' = stack

\* A fresh position, which then is the one the visit on top is about to
\* enter, or the first position before the first pass.
Filling ==
  \E p \in Positions \ {0} :
    /\ Growing(p)
    /\ posState[p] \in Fresh
    /\ \E s \in {"N", "D", "R"} : posState' = [posState EXCEPT ![p] = s]
    /\ phase' \in {"pass", "visit"}
    /\ stack # <<>> => p = Here /\ At("enter")

\* The first position, for want of a reading.
FallingBack ==
  /\ Growing(1)
  /\ \A i \in Ids' \ Ids : nodes'[i].tag = UnkTag
  /\ phase = "unknown" /\ stack = <<>>
  /\ \/ phase' = "collect" /\ UNCHANGED <<posState, morphs>>
     \/ phase' = "pass" /\ posState' = [posState EXCEPT ![1] = "R"]

\* The frame on top becomes f.
TopBecomes(f) ==
  /\ stack # <<>> /\ Len(stack') = Len(stack)
  /\ \A k \in 1 .. (Len(stack) - 1) : stack'[k] = stack[k]
  /\ stack'[Len(stack)] = f

\* The visit on top enters its loop, or passes over a morpheme.
Moving ==
  \E f \in Frames :
    /\ TopBecomes(f)
    /\ f.node = Top.node /\ f.type = Top.type /\ f.at = "loop"
    /\ UNCHANGED <<nodes, posState, morphs, phase>>
    /\ \/ At("enter") /\ posState[Here] = "R" /\ f.i = Top.i
       \/ /\ InLoop /\ f.i = Top.i + 1
          /\ TagTypeOK(Top.type, nodes[Current].tag) =>
               nodes[Current].state # "INCOMPLETE" /\ f.x = Top.x + Len(nodes[Current].conn)
          /\ ~TagTypeOK(Top.type, nodes[Current].tag) => f.x = Top.x

\* An unvisited node is marked, and visited unless it is too deep.
Marking ==
  /\ Unvisited
  /\ Ids' = Ids /\ \A i \in Ids \ {Current} : nodes'[i] = nodes[i]
  /\ nodes'[Current].state = "FAIL" /\ nodes'[Current].conn = nodes[Current].conn
  /\ ReadingOf(nodes'[Current]) = ReadingOf(nodes[Current])
  /\ UNCHANGED <<posState, morphs, phase>>
Descending ==
  /\ Marking
  /\ Len(stack') = Len(stack) + 1
  /\ \A k \in 1 .. (Len(stack) - 1) : stack'[k] = stack[k]
  /\ stack'[Len(stack)] = [Top EXCEPT !.at = "await"]
  /\ stack'[Len(stack) + 1] = Frame(Current, nodes[Current].type)
Refusing == Marking /\ Len(stack) > MaxDepth /\ TopBecomes([Top EXCEPT !.i = @ + 1])

\* The visit on top has the connections c, leaves the position in the state q
\* and returns.
ReturningTo(c, q) ==
  /\ stack # <<>>
  /\ \/ At("enter") /\ q = posState[Here] /\ q \in Closes
     \/ /\ At("loop") /\ Top.i > Len(morphs[Here])
        /\ q = IF Top.type # All THEN posState[Here] ELSE IF Top.x = 0 THEN "F" ELSE "M"
  /\ IF q = "F" THEN c = nodes[Top.node].conn ELSE Connecting(Top.node, Here, Len(morphs[Here]), c)
  /\ Ids' = Ids /\ \A i \in Ids \ {Top.node} : nodes'[i] = nodes[i]
  /\ nodes'[Top.node].conn = c /\ ReadingOf(nodes'[Top.node]) = ReadingOf(nodes[Top.node])
  /\ Len(stack) # 1 => nodes'[Top.node].state = IF c # <<>> THEN "SUCCESS" ELSE "FAIL"
  /\ posState' = [posState EXCEPT ![Here] = q] /\ morphs' = morphs
  /\ Len(stack) = 1 => /\ stack' = <<>> /\ phase' \in {"unknown", "collect", "pass"}
                       /\ phase' = "unknown" => c = <<>>
  /\ Len(stack) # 1 => /\ phase' = phase /\ Len(stack') = Len(stack) - 1
                       /\ \A k \in 1 .. (Len(stack) - 2) : stack'[k] = stack[k]
                       /\ stack'[Len(stack) - 1] = Counted(stack[Len(stack) - 1], Len(c))
Returning == \E c \in Seq(Ids), q \in {"N", "D", "R", "M", "F"} : ReturningTo(c, q)

\* A pass starts, or nothing changes here.
Starting ==
  /\ stack = <<>> /\ Len(stack') = 1 /\ stack'[1] = Frame(0, All)
  /\ phase = "pass" /\ phase' = "visit" /\ UNCHANGED <<nodes, posState, morphs>>
Resting ==
  /\ UNCHANGED <<nodes, posState, morphs, stack>>
  /\ phase' = phase \/ (phase = "collect" /\ phase' = "done")

\* What filling a position does to the chart.
LEMMA ChartGrows ==
  ASSUME TypeOK, NEW p \in Positions, NEW c \in ChartsAt(p),
         nodes' = c[1], morphs' = [morphs EXCEPT ![p] = c[2]], stack' = stack
  PROVE  Growing(p)
<1>1. Grown(c) /\ Listed(c, p)
  BY DEF ChartsAt, Charts
<1>2. Ids \subseteq Ids'
  <2>1. PICK n \in ChartEnd .. MaxChart : c[1] \in [0 .. (n - 1) -> Nodes]
    BY <1>1 DEF Grown
  <2>2. ChartEnd \in Nat /\ n \in Nat /\ n >= ChartEnd /\ Ids = 0 .. (ChartEnd - 1)
    BY <2>1, CapsAreNumbers DEF TypeOK, Ids
  <2>3. Ids' = 0 .. (n - 1)
    BY <2>1 DEF Ids
  <2>4. \A i \in 0 .. (ChartEnd - 1) : i \in 0 .. (n - 1)
    BY <2>2
  <2>. QED
    BY <2>2, <2>3, <2>4
<1>3. morphs \in [Positions -> Seq(Ids)]
  BY DEF TypeOK
<1>4. morphs'[p] = c[2] /\ \A q \in Positions \ {p} : morphs'[q] = morphs[q]
  BY <1>3
<1>5. \A i \in Ids : nodes'[i] = nodes[i]
  BY <1>1 DEF Grown
<1>6. \A i \in Ids' \ Ids : nodes'[i].state = "INCOMPLETE" /\ nodes'[i].conn = <<>>
  BY <1>1 DEF Grown, Ids
<1>. QED
  BY <1>1, <1>2, <1>4, <1>5, <1>6 DEF Growing, Listed

\* The steps that fill a fresh position.
LEMMA FillingSteps ==
  ASSUME FInv, (\E prefix \in Parens : ParenthesizedPrefix(prefix)) \/ ScanDictionaries \/ ExpandRules
  PROVE  Filling
<1>1. TypeOK /\ DriverOK /\ Counting /\ Driven /\ StartReads
  BY TypeParts DEF FInv, CInv, IInv
<1>2. CASE \E prefix \in Parens : ParenthesizedPrefix(prefix)
  <2>1. PICK prefix \in Parens : ParenthesizedPrefix(prefix)
    BY <1>2
  <2>2. prefix \in Seq(Readings) /\ 1 \in Positions
    BY ChartAssumption
  <2>3. Fill(1, prefix) \in ChartsAt(1)
    BY <1>1, <2>2, FillStays
  <2> DEFINE c == Fill(1, prefix)
             s == IF c[2] # morphs[1] THEN "D" ELSE posState[1]
  <2>4. /\ phase = "prefix" /\ nodes' = c[1] /\ morphs' = [morphs EXCEPT ![1] = c[2]]
        /\ posState' = [posState EXCEPT ![1] = s] /\ phase' = "pass" /\ stack' = stack
    BY <2>1 DEF ParenthesizedPrefix
  <2>5. posState[1] = "N" /\ s \in {"N", "D", "R"}
    BY <1>1, <2>4 DEF Driven
  <2> HIDE DEF c, s
  <2>6. Growing(1)
    BY <1>1, <2>2, <2>3, <2>4, ChartGrows DEF c
  <2>7. stack = <<>>
    BY <1>1, <2>4 DEF Counting
  <2>8. 1 \in Positions \ {0} /\ posState[1] \in Fresh /\ phase' \in {"pass", "visit"}
    BY <2>2, <2>4, <2>5 DEF Fresh
  <2>9. \E t \in {"N", "D", "R"} : posState' = [posState EXCEPT ![1] = t]
    BY <2>4, <2>5, Zenon
  <2>. QED
    BY <2>6, <2>7, <2>8, <2>9 DEF Filling
<1>3. ASSUME At("enter"), posState[Here] \in Fresh, NEW readings \in Seq(Readings), NEW s \in {"D", "R"},
             nodes' = Fill(Here, readings)[1],
             morphs' = [morphs EXCEPT ![Here] = Fill(Here, readings)[2]],
             posState' = [posState EXCEPT ![Here] = s], UNCHANGED <<stack, phase>>
      PROVE  Filling
  <2>1. Here \in Positions /\ stack # <<>>
    BY <1>1, <1>3, TopFrame DEF At
  <2>2. Here # 0
    BY <1>1, <1>3 DEF StartReads, Fresh
  <2>3. Fill(Here, readings) \in ChartsAt(Here)
    BY <1>1, <2>1, <1>3, FillStays
  <2> DEFINE p == Here
             c == Fill(Here, readings)
  <2>4. c \in ChartsAt(p) /\ nodes' = c[1] /\ morphs' = [morphs EXCEPT ![p] = c[2]]
    BY <1>3, <2>3
  <2>5. Growing(p)
    <3>1. stack' = stack /\ p \in Positions
      BY <1>3, <2>1
    <3> HIDE DEF p, c
    <3>. QED
      BY <1>1, <2>4, <3>1, ChartGrows
  <2>6. phase = "visit"
    BY <1>1, <2>1 DEF Counting
  <2> HIDE DEF c
  <2>. QED
    BY <1>3, <2>1, <2>2, <2>5, <2>6 DEF Filling
<1>4. CASE ScanDictionaries \/ ExpandRules
  <2>1. At("enter") /\ Here \in Positions /\ nodes[Top.node].tag \in Tags
    BY <1>1, <1>4, TopFrame DEF ScanDictionaries, ExpandRules, At, Nodes
  <2>2. lexicon[Here] \in Seq(Readings) /\ rules[Here][nodes[Top.node].tag] \in Seq(Readings)
    BY <1>1, <2>1, FoundReadings
  <2>3. CASE ScanDictionaries
    <3>1. /\ posState[Here] = "N" /\ nodes' = Fill(Here, lexicon[Here])[1]
          /\ morphs' = [morphs EXCEPT ![Here] = Fill(Here, lexicon[Here])[2]]
          /\ posState' = [posState EXCEPT ![Here] = "D"] /\ UNCHANGED <<stack, phase>>
      BY <2>3 DEF ScanDictionaries
    <3> DEFINE readings == lexicon[Here]
    <3> HIDE DEF readings
    <3>. QED
      BY <1>3, <2>1, <2>2, <3>1 DEF Fresh, readings
  <2>4. CASE ExpandRules
    <3> DEFINE readings == rules[Here][nodes[Top.node].tag]
    <3>1. /\ posState[Here] = "D" /\ nodes' = Fill(Here, readings)[1]
          /\ morphs' = [morphs EXCEPT ![Here] = Fill(Here, readings)[2]]
          /\ posState' = [posState EXCEPT ![Here] = "R"] /\ UNCHANGED <<stack, phase>>
      BY <2>4 DEF ExpandRules
    <3>2. readings \in Seq(Readings)
      BY <2>2
    <3> HIDE DEF readings
    <3>. QED
      BY <1>3, <2>1, <3>1, <3>2 DEF Fresh
  <2>. QED
    BY <1>4, <2>3, <2>4
<1>. QED
  BY <1>2, <1>4

\* The fallback.
LEMMA FallingBackStep ==
  ASSUME FInv, AnalyzeUnknown
  PROVE  FallingBack
<1>1. TypeOK /\ Counting /\ Driven
  BY DEF FInv, CInv, IInv
<1> DEFINE c == Unknowns
<1>2. c \in ChartsAt(1) /\ OnlyUnknown(c) /\ 1 \in Positions
  BY <1>1, UnknownsStay, ChartAssumption
<1>3. /\ phase = "unknown" /\ nodes' = [c[1] EXCEPT ![0].conn = <<>>]
      /\ morphs' = [morphs EXCEPT ![1] = c[2]] /\ stack' = stack
      /\ posState' = IF c[2] # morphs[1] THEN [posState EXCEPT ![1] = "R"] ELSE posState
      /\ phase' = IF c[2] # morphs[1] THEN "pass" ELSE "collect"
  BY DEF AnalyzeUnknown
<1> HIDE DEF c
<1>4. nodes' = c[1]
  <2>1. Grown(c) /\ 0 \in Ids
    BY <1>1, <1>2, StartNode DEF ChartsAt, Charts
  <2>2. PICK n \in ChartEnd .. MaxChart : c[1] \in [0 .. (n - 1) -> Nodes]
    BY <2>1 DEF Grown
  <2>3. c[1][0] = nodes[0] /\ nodes[0].conn = <<>>
    BY <1>1, <1>3, <2>1 DEF Grown, Driven
  <2>4. 0 \in 0 .. (n - 1) /\ c[1][0] \in Nodes
    <3>1. n \in Nat /\ n >= 1
      BY <1>1, <2>2, CapsAreNumbers DEF TypeOK
    <3>2. 0 \in 0 .. (n - 1)
      BY <3>1
    <3>. QED
      BY <2>2, <3>2
  <2>5. [c[1][0] EXCEPT !.conn = <<>>] = c[1][0]
    BY <2>3, <2>4 DEF Nodes
  <2>6. nodes' = [c[1] EXCEPT ![0] = c[1][0]]
    BY <1>3, <2>5
  <2>. QED
    BY <2>2, <2>4, <2>6
<1>5. Growing(1)
  BY <1>1, <1>2, <1>3, <1>4, ChartGrows
<1>6. \A i \in Ids' \ Ids : nodes'[i].tag = UnkTag
  BY <1>2, <1>4 DEF OnlyUnknown, Ids
<1>7. stack = <<>>
  BY <1>1, <1>3 DEF Counting
<1>8. c[2] = morphs[1] => morphs' = morphs
  BY <1>1, <1>2, <1>3 DEF TypeOK
<1>. QED
  BY <1>3, <1>5, <1>6, <1>7, <1>8 DEF FallingBack

\* A frame on top of the others.
LEMMA SetTopBecomes ==
  ASSUME TypeOK, stack # <<>>, NEW f, stack' = SetTop(f)
  PROVE  TopBecomes(f)
<1> PICK len \in Nat : Len(stack) = len + 1
  BY TopFrame
<1>1. stack \in Seq(Frames)
  BY DEF TypeOK
<1>2. stack' = [stack EXCEPT ![len + 1] = f]
  BY DEF SetTop
<1>3. len + 1 \in 1 .. Len(stack) /\ \A k \in 1 .. len : k \in 1 .. Len(stack) /\ k # len + 1
  OBVIOUS
<1>4. Len(stack') = Len(stack) /\ stack'[len + 1] = f /\ \A k \in 1 .. len : stack'[k] = stack[k]
  BY <1>1, <1>2, <1>3
<1>5. Len(stack) - 1 = len
  OBVIOUS
<1>. QED
  BY <1>4, <1>5 DEF TopBecomes

\* The steps that change the frame on top, and nothing else.
LEMMA MovingSteps ==
  ASSUME FInv, EnterR \/ PassOver
  PROVE  Moving
<1>1. TypeOK /\ stack # <<>>
  BY DEF FInv, CInv, IInv, EnterR, PassOver, InLoop, At
<1>2. Top \in Frames
  BY <1>1, TopFrame
<1>3. CASE EnterR
  <2> DEFINE f == [Top EXCEPT !.at = "loop"]
  <2>1. f \in Frames /\ f.node = Top.node /\ f.type = Top.type /\ f.at = "loop" /\ f.i = Top.i
    BY <1>2 DEF Frames
  <2>2. /\ stack' = SetTop(f) /\ At("enter") /\ posState[Here] = "R"
        /\ UNCHANGED <<nodes, posState, morphs, phase>>
    BY <1>3 DEF EnterR
  <2> HIDE DEF f
  <2>3. TopBecomes(f)
    BY <1>1, <2>2, SetTopBecomes
  <2>. QED
    BY <2>1, <2>2, <2>3 DEF Moving
<1>4. CASE PassOver
  <2> DEFINE ok == TagTypeOK(Top.type, nodes[Current].tag)
             y == IF ok THEN Len(nodes[Current].conn) ELSE 0
             f == [Top EXCEPT !.i = @ + 1, !.x = @ + y]
  <2>1. /\ stack' = SetTop(f) /\ InLoop /\ UNCHANGED <<nodes, posState, morphs, phase>>
        /\ ~ok \/ nodes[Current].state # "INCOMPLETE"
    BY <1>4 DEF PassOver
  <2>2. Current \in Ids /\ nodes[Current].conn \in Seq(Ids)
    BY <1>1, <2>1, CurrentNode DEF TypeOK
  <2>3. y \in Nat /\ (ok => y = Len(nodes[Current].conn)) /\ (~ok => y = 0)
    BY <2>2
  <2>4. Top.at = "loop"
    BY <2>1 DEF InLoop, At
  <2> HIDE DEF y, ok
  <2>5. f \in Frames /\ f.node = Top.node /\ f.type = Top.type /\ f.at = "loop" /\ f.i = Top.i + 1
        /\ f.x = Top.x + y
    <3>1. Top.i + 1 \in Nat \ {0} /\ Top.x + y \in Nat
      BY <1>2, <2>3 DEF Frames
    <3>. QED
      BY <1>2, <2>4, <3>1 DEF Frames
  <2> HIDE DEF f
  <2>6. TopBecomes(f)
    BY <1>1, <2>1, SetTopBecomes
  <2>7. ok => nodes[Current].state # "INCOMPLETE" /\ f.x = Top.x + Len(nodes[Current].conn)
    BY <2>1, <2>3, <2>5
  <2>8. ~ok => f.x = Top.x
    <3>1. Top.x \in Nat
      BY <1>2 DEF Frames
    <3>. QED
      BY <2>3, <2>5, <3>1
  <2>. QED
    BY <2>1, <2>5, <2>6, <2>7, <2>8 DEF Moving, ok
<1>. QED
  BY <1>3, <1>4

\* An unvisited node is marked.
LEMMA MarkingSteps ==
  ASSUME FInv, Descend \/ RefuseDepth
  PROVE  Descending \/ Refusing
<1>1. TypeOK /\ IInv
  BY DEF FInv, CInv, IInv
<1>2. Unvisited /\ nodes' = [nodes EXCEPT ![Current].state = "FAIL"]
      /\ UNCHANGED <<posState, morphs, phase>>
  BY DEF Descend, RefuseDepth
<1>3. stack # <<>> /\ Current \in Ids
  BY <1>1, <1>2, CurrentNode DEF Unvisited
<1>4. Marking
  <2>1. Ids' = Ids /\ nodes'[Current].state = "FAIL" /\ \A i \in Ids \ {Current} : nodes'[i] = nodes[i]
    BY <1>1, <1>2, MarksFail
  <2>2. nodes[Current] \in Nodes /\ Current \in DOMAIN nodes
    BY <1>1, <1>3, StartNode DEF TypeOK, Ids
  <2>3. nodes'[Current] = [nodes[Current] EXCEPT !.state = "FAIL"]
    BY <1>2, <2>2
  <2>4. nodes'[Current].conn = nodes[Current].conn /\ ReadingOf(nodes'[Current]) = ReadingOf(nodes[Current])
    BY <2>2, <2>3 DEF Nodes, ReadingOf
  <2>. QED
    BY <1>2, <2>1, <2>4 DEF Marking
<1>5. CASE RefuseDepth
  <2> DEFINE f == [Top EXCEPT !.i = @ + 1]
  <2>1. stack' = SetTop(f) /\ Len(stack) > MaxDepth
    BY <1>5 DEF RefuseDepth
  <2> HIDE DEF f
  <2>2. TopBecomes(f)
    BY <1>1, <1>3, <2>1, SetTopBecomes
  <2>. QED
    BY <1>4, <2>1, <2>2 DEF Refusing, f
<1>6. CASE Descend
  <2> DEFINE f == [Top EXCEPT !.at = "await"]
             g == Frame(Current, nodes[Current].type)
  <2>1. stack' = Append(SetTop(f), g)
    BY <1>6 DEF Descend
  <2> PICK len \in Nat : Len(stack) = len + 1
    BY <1>1, <1>3, TopFrame
  <2> HIDE DEF f, g
  <2> DEFINE s == SetTop(f)
  <2>2. Len(s) = len + 1 /\ s[len + 1] = f /\ \A k \in 1 .. len : s[k] = stack[k]
    <3>1. stack \in Seq(Frames) /\ s = [stack EXCEPT ![len + 1] = f]
      BY <1>1 DEF TypeOK, SetTop
    <3> HIDE DEF s
    <3>. QED
      BY <3>1
  <2>3. DOMAIN s = 1 .. (len + 1)
    <3>1. DOMAIN s = DOMAIN stack /\ DOMAIN stack = 1 .. (len + 1)
      BY <1>1 DEF TypeOK, SetTop
    <3>. QED
      BY <3>1
  <2>4. stack' = Append(s, g)
    BY <2>1
  <2>5. s \in Seq(Frames)
    <3>1. Top \in Frames /\ stack \in Seq(Frames)
      BY <1>1, <1>3, TopFrame DEF TypeOK
    <3>2. f \in Frames
      BY <3>1 DEF f, Frames
    <3>. QED
      BY <3>1, <3>2 DEF SetTop
  <2>6. g \in Frames
    <3>1. nodes[Current] \in Nodes /\ Current \in Nat
      BY <1>1, <1>3, StartNode DEF TypeOK
    <3>. QED
      BY <3>1 DEF g, Frame, Frames, Nodes
  <2> HIDE DEF s
  <2>7. /\ Len(stack') = len + 2 /\ stack'[len + 1] = f /\ stack'[len + 2] = g
        /\ \A k \in 1 .. len : stack'[k] = stack[k]
    <3>1. /\ Len(Append(s, g)) = Len(s) + 1 /\ Append(s, g)[Len(s) + 1] = g
          /\ \A k \in 1 .. Len(s) : Append(s, g)[k] = s[k]
      BY <2>5, <2>6, OneMoreOf
    <3>2. \A k \in 1 .. len : k \in 1 .. (len + 1)
      OBVIOUS
    <3>3. len + 1 \in 1 .. (len + 1) /\ (len + 1) + 1 = len + 2
      OBVIOUS
    <3>. QED
      BY <2>2, <2>4, <3>1, <3>2, <3>3
  <2>8. Len(stack) - 1 = len /\ Len(stack) + 1 = len + 2
    OBVIOUS
  <2>. QED
    BY <1>4, <2>7, <2>8 DEF Descending, f, g
<1>. QED
  BY <1>5, <1>6

\* The steps with which a visit returns.
LEMMA ReturningSteps ==
  ASSUME FInv, EnterM \/ EnterF \/ EndLoop
  PROVE  Returning
<1>1. TypeOK /\ Stacked /\ Settled /\ PosOK /\ stack # <<>>
  BY TypeParts DEF FInv, CInv, IInv, EnterM, EnterF, EndLoop, At, DriverOK
<1> DEFINE n == Top.node
           p == Here
<1>2. n \in Ids /\ p \in Positions /\ nodes[n] \in Nodes /\ nodes[n].conn \in Seq(Ids)
  BY <1>1, TopFrame DEF TypeOK
<1> PICK below \in Nat : Len(stack) = below + 1
  BY <1>1, TopFrame
<1>3. PICK q \in {"N", "D", "R", "M", "F"} :
         /\ \/ At("enter") /\ q = posState[p] /\ q \in Closes
            \/ /\ At("loop") /\ Top.i > Len(morphs[p])
               /\ q = IF Top.type # All THEN posState[p] ELSE IF Top.x = 0 THEN "F" ELSE "M"
         /\ posState' = [posState EXCEPT ![p] = q]
         /\ Return(IF q = "F" THEN nodes ELSE Connected(n, p))
  <2>1. posState[p] \in {"N", "D", "R", "M", "F"} /\ posState = [posState EXCEPT ![p] = posState[p]]
    BY <1>1, <1>2 DEF PosOK
  <2>2. CASE EnterM
    <3>1. At("enter") /\ posState[p] = "M" /\ Return(Connected(n, p)) /\ UNCHANGED posState
      BY <2>2 DEF EnterM
    <3>. QED
      BY <2>1, <3>1 DEF Closes
  <2>3. CASE EnterF
    <3>1. At("enter") /\ posState[p] = "F" /\ Return(nodes) /\ UNCHANGED posState
      BY <2>3 DEF EnterF
    <3>. QED
      BY <2>1, <3>1 DEF Closes
  <2>4. CASE EndLoop
    <3> DEFINE settled == IF Top.type # All THEN posState[p] ELSE IF Top.x = 0 THEN "F" ELSE "M"
    <3>1. /\ At("loop") /\ Top.i > Len(morphs[p]) /\ posState' = [posState EXCEPT ![p] = settled]
          /\ Return(IF settled = "F" THEN nodes ELSE Connected(n, p))
      BY <2>4 DEF EndLoop
    <3>2. settled \in {"N", "D", "R", "M", "F"}
      BY <2>1
    <3>. QED
      BY <3>1, <3>2
  <2>. QED
    BY <2>2, <2>3, <2>4
<1> DEFINE ns == IF q = "F" THEN nodes ELSE Connected(n, p)
<1>4. PICK c : /\ c \in Seq(Ids)
               /\ IF q = "F" THEN c = nodes[n].conn ELSE Connecting(n, p, Len(morphs[p]), c)
               /\ ns = [nodes EXCEPT ![n].conn = c]
  <2>1. CASE q = "F"
    <3>1. nodes = [nodes EXCEPT ![n].conn = nodes[n].conn]
      BY <1>1, <1>2 DEF TypeOK, Nodes
    <3>. QED
      BY <1>2, <2>1, <3>1
  <2>2. CASE q # "F"
    <3>1. PICK c : Connecting(n, p, Len(morphs[p]), c) /\ Connected(n, p) = [nodes EXCEPT ![n].conn = c]
      BY <1>1, <1>2, ConnectedConnects
    <3>2. c \in Seq(Ids)
      BY <3>1 DEF Connecting
    <3>. QED
      BY <2>2, <3>1, <3>2
  <2>. QED
    BY <2>1, <2>2
<1>5. Return(ns)
  BY <1>3
<1> HIDE DEF ns, p
<1>6. n \in DOMAIN nodes
  BY <1>2 DEF Ids
<1> DEFINE m == [nodes[n] EXCEPT !.conn = c]
<1> HIDE DEF n
<1>7. ns = [nodes EXCEPT ![n] = m] /\ m.conn = c /\ ReadingOf(m) = ReadingOf(nodes[n]) /\ ns[n] = m
  BY <1>2, <1>4, <1>6 DEF Nodes, ReadingOf
<1> DEFINE y == Len(ns[n].conn)
<1>8. y = Len(c) /\ y \in Nat /\ (y # 0 <=> c # <<>>)
  <2>1. Ids \in SUBSET Nat
    BY <1>1, StartNode
  <2>2. Len(c) \in Nat /\ (Len(c) # 0 <=> c # <<>>)
    BY <1>4, <2>1, ListOfNodes
  <2>. QED
    BY <1>7, <2>2
<1>9. Len(stack) - 1 = below
  OBVIOUS
<1>10. /\ stack' = IF below = 0 THEN <<>> ELSE [SubSeq(stack, 1, below) EXCEPT ![below] = Counted(@, y)]
       /\ nodes' = IF below = 0 THEN ns ELSE [ns EXCEPT ![n].state = IF y # 0 THEN "SUCCESS" ELSE "FAIL"]
       /\ IF below = 0
          THEN IF y = resultCount \/ pass = MaxPass
               THEN phase' = IF y = 0 /\ ~fellBack THEN "unknown" ELSE "collect"
               ELSE phase' = "pass"
          ELSE UNCHANGED phase
       /\ morphs' = morphs
  BY <1>5, <1>9 DEF Return, n
<1> HIDE DEF y, m
<1>11. PICK r : nodes' = [nodes EXCEPT ![n] = r] /\ r.conn = c /\ ReadingOf(r) = ReadingOf(nodes[n])
               /\ (below # 0 => r.state = IF c # <<>> THEN "SUCCESS" ELSE "FAIL")
  <2>1. CASE below = 0
    BY <1>7, <1>10, <2>1
  <2>2. CASE below # 0
    <3> DEFINE st == IF y # 0 THEN "SUCCESS" ELSE "FAIL"
               r == [m EXCEPT !.state = st]
    <3>1. nodes' = [ns EXCEPT ![n].state = st]
      BY <1>10, <2>2
    <3>2. m \in Nodes
      BY <1>1, <1>2, <1>4, StartNode, ListOfNodes DEF m, Nodes
    <3>3. r.conn = c /\ ReadingOf(r) = ReadingOf(nodes[n]) /\ r.state = st
      BY <1>7, <3>2 DEF Nodes, ReadingOf
    <3>4. st = IF c # <<>> THEN "SUCCESS" ELSE "FAIL"
      BY <1>8
    <3> HIDE DEF st
    <3>5. nodes' = [nodes EXCEPT ![n] = r]
      BY <1>6, <1>7, <3>1
    <3> HIDE DEF r
    <3>. QED
      BY <3>3, <3>4, <3>5
  <2>. QED
    BY <2>1, <2>2
<1>12. Ids' = Ids /\ nodes'[n] = r /\ \A i \in Ids \ {n} : nodes'[i] = nodes[i]
  BY <1>6, <1>11 DEF Ids
<1>13. Len(stack) = 1 => /\ stack' = <<>> /\ phase' \in {"unknown", "collect", "pass"}
                         /\ phase' = "unknown" => c = <<>>
  BY <1>8, <1>10
<1>14. Len(stack) # 1 => /\ phase' = phase /\ Len(stack') = Len(stack) - 1
                         /\ \A k \in 1 .. (Len(stack) - 2) : stack'[k] = stack[k]
                         /\ stack'[Len(stack) - 1] = Counted(stack[Len(stack) - 1], Len(c))
  <2>. SUFFICES ASSUME below # 0
                PROVE  /\ phase' = phase /\ Len(stack') = below
                       /\ \A k \in 1 .. (below - 1) : stack'[k] = stack[k]
                       /\ stack'[below] = Counted(stack[below], Len(c))
    OBVIOUS
  <2> DEFINE rest == SubSeq(stack, 1, below)
             f == Counted(stack[below], Len(c))
  <2>1. stack \in Seq(Frames)
    BY <1>1 DEF TypeOK
  <2>2. rest \in Seq(Frames) /\ Len(rest) = below /\ \A k \in 1 .. below : rest[k] = stack[k]
    BY <2>1
  <2>3. stack' = [rest EXCEPT ![below] = f]
    <3>1. rest[below] = stack[below]
      BY <2>2
    <3>. QED
      BY <1>8, <1>10, <3>1
  <2> HIDE DEF rest, f
  <2>4. Len(stack') = below /\ stack'[below] = f /\ \A k \in 1 .. (below - 1) : stack'[k] = rest[k]
    BY <2>2, <2>3
  <2>. QED
    BY <1>10, <2>2, <2>4 DEF f
<1>15. ReturningTo(c, q)
  <2>1. \/ At("enter") /\ q = posState[Here] /\ q \in Closes
        \/ /\ At("loop") /\ Top.i > Len(morphs[Here])
           /\ q = IF Top.type # All THEN posState[Here] ELSE IF Top.x = 0 THEN "F" ELSE "M"
    BY <1>3 DEF p
  <2>2. IF q = "F" THEN c = nodes[Top.node].conn ELSE Connecting(Top.node, Here, Len(morphs[Here]), c)
    BY <1>4 DEF n, p
  <2>3. Ids' = Ids /\ \A i \in Ids \ {Top.node} : nodes'[i] = nodes[i]
    BY <1>12 DEF n
  <2>4. nodes'[Top.node].conn = c /\ ReadingOf(nodes'[Top.node]) = ReadingOf(nodes[Top.node])
    BY <1>11, <1>12 DEF n
  <2>5. Len(stack) # 1 => nodes'[Top.node].state = IF c # <<>> THEN "SUCCESS" ELSE "FAIL"
    <3>1. Len(stack) # 1 => below # 0
      OBVIOUS
    <3>. QED
      BY <1>11, <1>12, <3>1 DEF n
  <2>6. posState' = [posState EXCEPT ![Here] = q] /\ morphs' = morphs
    BY <1>3, <1>10 DEF p
  <2>. QED
    BY <1>1, <1>13, <1>14, <2>1, <2>2, <2>3, <2>4, <2>5, <2>6 DEF ReturningTo
<1>. QED
  BY <1>4, <1>15 DEF Returning

\* So every step is one of these.
LEMMA StepsAre ==
  ASSUME FInv, [Next]_vars
  PROVE  Filling \/ FallingBack \/ Moving \/ Descending \/ Refusing \/ Returning \/ Starting \/ Resting
<1>1. CASE StartPass
  <2>1. stack = <<>> /\ stack' = <<Frame(0, All)>> /\ phase = "pass" /\ phase' = "visit"
        /\ UNCHANGED <<nodes, posState, morphs>>
    BY <1>1 DEF StartPass
  <2>2. Len(stack') = 1 /\ stack'[1] = Frame(0, All)
    BY <2>1
  <2>. QED
    BY <2>1, <2>2 DEF Starting
<1>2. CASE CollectResults \/ UNCHANGED vars
  BY <1>2 DEF CollectResults, vars, Resting
<1>. QED
  BY <1>1, <1>2, FillingSteps, FallingBackStep, MovingSteps, MarkingSteps, ReturningSteps DEF Next

-----------------------------------------------------------------------------
(* How the visits stand is an invariant *)

\* What the invariant says of the chart.
LEMMA Parts ==
  ASSUME FInv
  PROVE  /\ IInv /\ TypeOK /\ Stacked /\ Settled /\ Acyclic /\ Following /\ StartApart /\ Counting
         /\ StartReads /\ Onces /\ OnceInner /\ Driven /\ Framed /\ Rooted
         /\ 0 \in Ids /\ Ids \subseteq Nat /\ 0 \in Positions /\ 1 \in Positions
         /\ \A i \in Ids : nodes[i] \in Nodes /\ nodes[i].next \in Positions
         /\ \A p \in Positions : morphs[p] \in Seq(Ids) /\ Len(morphs[p]) \in Nat
<1>1. IInv /\ TypeOK /\ OnceInner
  BY DEF FInv, CInv, IInv, Onces
<1>2. 0 \in Ids /\ Ids \subseteq Nat /\ \A i \in Ids : nodes[i] \in Nodes
  BY <1>1, StartNode DEF TypeOK
<1>3. \A i \in Ids : nodes[i].next \in Positions
  BY <1>2 DEF Nodes
<1>4. \A p \in Positions : morphs[p] \in Seq(Ids) /\ Len(morphs[p]) \in Nat
  BY <1>1 DEF TypeOK
<1>. QED
  BY <1>1, <1>2, <1>3, <1>4, ChartAssumption DEF FInv, CInv, IInv

\* The visit on top.
LEMMA TopParts ==
  ASSUME FInv, stack # <<>>
  PROVE  /\ Len(stack) \in Nat /\ Len(stack) >= 1 /\ Len(stack) \in 1 .. Len(stack)
         /\ Top = stack[Len(stack)] /\ Top \in Frames /\ Top.node \in Ids /\ Top.i \in Nat \ {0} /\ Top.x \in Nat
         /\ Here \in Positions /\ Here = nodes[Top.node].next
         /\ FrameFits(Top, nodes, posState, morphs) /\ Top.at # "await"
         /\ (Len(stack) = 1 => Top.node = 0)
         /\ (Len(stack) # 1 => Top.node # 0 /\ nodes[Top.node].state = "FAIL" /\ nodes[Top.node].conn = <<>>)
         /\ nodes[Top.node].state # "INCOMPLETE"
<1>1. TypeOK /\ Stacked /\ Settled /\ Framed
  BY Parts
<1>2. Len(stack) \in Nat /\ Len(stack) >= 1 /\ Top \in Frames /\ Top.node \in Ids /\ Here \in Positions
  BY <1>1, TopFrame
<1>3. Len(stack) \in 1 .. Len(stack)
  BY <1>2
<1>4. Top = stack[Len(stack)] /\ Here = nodes[Top.node].next
  BY DEF Top, Here
<1>5. FrameFits(Top, nodes, posState, morphs) /\ Top.at # "await"
  BY <1>1, <1>3, <1>4 DEF Framed
<1>6. Top.i \in Nat \ {0} /\ Top.x \in Nat
  BY <1>2 DEF Frames
<1>7. /\ (Len(stack) = 1 => Top.node = 0)
      /\ (Len(stack) # 1 => Top.node # 0 /\ nodes[Top.node].state = "FAIL")
  BY <1>1, <1>3, <1>4 DEF Stacked
<1>8. (Len(stack) # 1 => nodes[Top.node].conn = <<>>) /\ nodes[Top.node].state # "INCOMPLETE"
  BY <1>1, <1>2, <1>7 DEF Settled
<1>. QED
  BY <1>2, <1>3, <1>4, <1>5, <1>6, <1>7, <1>8

\* The node the loop looks at.
LEMMA CurrentParts ==
  ASSUME FInv, InLoop
  PROVE  /\ stack # <<>> /\ Top.at = "loop" /\ Top.i \in 1 .. Len(morphs[Here]) /\ Here # 0
         /\ posState[Here] \notin Fresh
         /\ Current = morphs[Here][Top.i] /\ Current \in Inner /\ Current \in ToSet(morphs[Here])
<1>1. stack # <<>> /\ Top.at = "loop" /\ Top.i <= Len(morphs[Here]) /\ Current = morphs[Here][Top.i]
  BY DEF InLoop, At, Current
<1>2. Here \in Positions /\ Top.i \in Nat \ {0} /\ FrameFits(Top, nodes, posState, morphs)
      /\ Here = nodes[Top.node].next
  BY <1>1, TopParts
<1>3. morphs[Here] \in Seq(Ids) /\ Len(morphs[Here]) \in Nat /\ StartApart
  BY <1>2, Parts
<1>4. Top.i \in 1 .. Len(morphs[Here])
  BY <1>1, <1>2, <1>3
<1>5. Here # 0 /\ posState[Here] \notin Fresh
  BY <1>1, <1>2 DEF FrameFits
<1>6. Current \in Ids /\ Current \in ToSet(morphs[Here])
  BY <1>1, <1>3, <1>4 DEF ToSet
<1>7. Current # 0
  BY <1>2, <1>3, <1>5, <1>6 DEF StartApart
<1>. QED
  BY <1>1, <1>4, <1>5, <1>6, <1>7 DEF Inner

\* The lists only get longer, and no position becomes fresh again.
Prolonged ==
  /\ \A p \in Positions : /\ Len(morphs[p]) <= Len(morphs'[p]) /\ Len(morphs'[p]) \in Nat
                          /\ \A k \in 1 .. Len(morphs[p]) : morphs'[p][k] = morphs[p][k]
  /\ \A p \in Positions : posState[p] \notin Fresh => posState'[p] \notin Fresh

\* Filling a position makes the lists longer.
LEMMA GrowingProlongs ==
  ASSUME FInv, IInv', NEW p \in Positions, Growing(p), NEW q \in Positions
  PROVE  /\ Len(morphs[q]) <= Len(morphs'[q]) /\ Len(morphs'[q]) \in Nat
         /\ \A k \in 1 .. Len(morphs[q]) : morphs'[q][k] = morphs[q][k]
<1>1. morphs'[q] \in Seq(Ids') /\ Len(morphs'[q]) \in Nat /\ Len(morphs[q]) \in Nat
  BY Parts DEF IInv, TypeOK
<1>2. CASE q # p
  <2>1. morphs'[q] = morphs[q]
    BY <1>2 DEF Growing
  <2>. QED
    BY <1>1, <2>1
<1>3. CASE q = p
  <2>1. Len(morphs[p]) <= Len(morphs'[p])
    BY DEF Growing
  <2>2. \A k \in 1 .. Len(morphs[p]) : k \in 1 .. Len(morphs'[p]) /\ k <= Len(morphs[p])
    BY <1>1, <1>3, <2>1
  <2>. QED
    BY <1>1, <1>3, <2>1, <2>2 DEF Growing
<1>. QED
  BY <1>2, <1>3

\* And so does every step, or leaves them as they are.
LEMMA StepsProlong ==
  ASSUME FInv, [Next]_vars
  PROVE  Prolonged
<1>1. IInv' /\ PosOK
  BY Parts, NextHolds, TypeParts DEF DriverOK
<1>2. ASSUME UNCHANGED morphs, NEW p \in Positions
      PROVE  /\ Len(morphs[p]) <= Len(morphs'[p]) /\ Len(morphs'[p]) \in Nat
             /\ \A k \in 1 .. Len(morphs[p]) : morphs'[p][k] = morphs[p][k]
  BY <1>2, Parts
<1>3. CASE Filling
  <2>1. PICK p \in Positions \ {0} :
          Growing(p) /\ posState[p] \in Fresh /\ \E s \in {"N", "D", "R"} : posState' = [posState EXCEPT ![p] = s]
    BY <1>3 DEF Filling
  <2>2. \A q \in Positions : posState[q] \notin Fresh => posState'[q] = posState[q]
    BY <1>1, <2>1 DEF PosOK
  <2>. QED
    BY <1>1, <2>1, <2>2, GrowingProlongs DEF Prolonged
<1>4. CASE FallingBack
  <2>1. Growing(1) /\ (posState' = posState \/ posState' = [posState EXCEPT ![1] = "R"]) /\ 1 \in Positions
    BY <1>4, Parts DEF FallingBack
  <2>2. \A q \in Positions : posState[q] \notin Fresh => posState'[q] \notin Fresh
    BY <1>1, <2>1 DEF PosOK, Fresh
  <2>. QED
    BY <1>1, <2>1, <2>2, GrowingProlongs DEF Prolonged
<1>5. CASE Moving \/ Descending \/ Refusing \/ Starting \/ Resting
  <2>1. UNCHANGED <<morphs, posState>>
    BY <1>5 DEF Moving, Descending, Refusing, Marking, Starting, Resting
  <2>. QED
    BY <1>2, <2>1 DEF Prolonged
<1>6. CASE Returning
  <2>1. PICK c \in Seq(Ids), q \in {"N", "D", "R", "M", "F"} : ReturningTo(c, q)
    BY <1>6 DEF Returning
  <2>2. stack # <<>> /\ posState' = [posState EXCEPT ![Here] = q] /\ morphs' = morphs
        /\ (q \in {"M", "F"} \/ q = posState[Here])
    BY <2>1 DEF ReturningTo, Closes
  <2>3. Here \in Positions
    BY <2>2, TopParts
  <2>4. \A p \in Positions : posState[p] \notin Fresh => posState'[p] \notin Fresh
    BY <1>1, <2>2, <2>3 DEF PosOK, Fresh
  <2>. QED
    BY <1>2, <2>2, <2>4 DEF Prolonged
<1>. QED
  BY <1>3, <1>4, <1>5, <1>6, StepsAre

\* So a frame that fits goes on to fit, and to await what it awaits.
LEMMA FramesStay ==
  ASSUME FInv, Evolves, Prolonged, NEW f, f.node \in Ids, f.i \in Nat
  PROVE  /\ FrameFits(f, nodes, posState, morphs) => FrameFits(f, nodes', posState', morphs')
         /\ f.i >= 1 => \A n \in Ids : Awaits(f, n, nodes, morphs) => Awaits(f, n, nodes', morphs')
<1> DEFINE p == nodes[f.node].next
<1>1. p \in Positions /\ Len(morphs[p]) \in Nat
  BY Parts
<1>2. nodes'[f.node].next = p /\ nodes'[f.node].type = nodes[f.node].type
  BY DEF Evolves
<1>3. Len(morphs[p]) <= Len(morphs'[p]) /\ Len(morphs'[p]) \in Nat
      /\ (posState[p] \notin Fresh => posState'[p] \notin Fresh)
      /\ \A k \in 1 .. Len(morphs[p]) : morphs'[p][k] = morphs[p][k]
  BY <1>1 DEF Prolonged
<1>4. \A n \in Ids : nodes'[n].tag = nodes[n].tag
  BY DEF Evolves
<1>5. ASSUME FrameFits(f, nodes, posState, morphs)
      PROVE  FrameFits(f, nodes', posState', morphs')
  <2>1. f.i - 1 <= Len(morphs[p])
    BY <1>5 DEF FrameFits
  <2>2. f.i - 1 <= Len(morphs'[p])
    BY <1>1, <1>3, <2>1
  <2>. QED
    BY <1>2, <1>3, <1>5, <2>2 DEF FrameFits
<1>6. ASSUME f.i >= 1, NEW n \in Ids, Awaits(f, n, nodes, morphs)
      PROVE  Awaits(f, n, nodes', morphs')
  <2>1. f.i <= Len(morphs[p])
    BY <1>6 DEF Awaits
  <2>2. f.i <= Len(morphs'[p]) /\ f.i \in 1 .. Len(morphs[p])
    BY <1>1, <1>3, <1>6, <2>1
  <2>. QED
    BY <1>2, <1>3, <1>4, <1>6, <2>2 DEF Awaits
<1>. QED
  BY <1>5, <1>6

\* The start node stays as it is.
LEMMA StartReadsStays ==
  ASSUME FInv, [Next]_vars
  PROVE  StartReads'
<1>1. IInv /\ StartReads /\ 0 \in Ids /\ 0 \in Positions /\ 1 \in Positions /\ PosOK
  BY Parts, TypeParts DEF DriverOK
<1>2. Evolves
  BY <1>1, StepsEvolve
<1>3. nodes'[0].next = 1 /\ nodes'[0].type = All
  BY <1>1, <1>2 DEF Evolves, StartReads
<1>4. posState'[0] = "M" /\ morphs'[0] = morphs[0]
  <2>1. CASE Filling
    <3>1. PICK p \in Positions \ {0} : Growing(p) /\ \E s : posState' = [posState EXCEPT ![p] = s]
      BY <2>1 DEF Filling
    <3>. QED
      BY <1>1, <3>1 DEF Growing, StartReads, PosOK
  <2>2. CASE FallingBack
    BY <1>1, <2>2 DEF FallingBack, Growing, StartReads, PosOK
  <2>3. CASE Moving \/ Descending \/ Refusing \/ Starting \/ Resting
    BY <1>1, <2>3 DEF Moving, Descending, Refusing, Marking, Starting, Resting, StartReads
  <2>4. CASE Returning
    <3>1. PICK c \in Seq(Ids), q \in {"N", "D", "R", "M", "F"} : ReturningTo(c, q)
      BY <2>4 DEF Returning
    <3>2. stack # <<>> /\ posState' = [posState EXCEPT ![Here] = q] /\ morphs' = morphs
          /\ (q = posState[Here] \/ Top.at = "loop")
      BY <3>1 DEF ReturningTo, At
    <3>3. Top.at = "loop" => Here # 0
      BY <3>2, TopParts DEF FrameFits
    <3>. QED
      BY <1>1, <3>2, <3>3 DEF StartReads, PosOK
  <2>. QED
    BY <2>1, <2>2, <2>3, <2>4, StepsAre
<1>. QED
  BY <1>1, <1>3, <1>4 DEF StartReads

\* No list and no connections get a node twice.
LEMMA OncesStay ==
  ASSUME FInv, [Next]_vars
  PROVE  Onces'
<1>1. Onces /\ 1 \in Positions /\ \A p \in Positions : morphs[p] \in Seq(Ids)
  BY Parts
<1>2. ASSUME NEW p \in Positions, Growing(p)
      PROVE  Onces'
  <2>1. ASSUME NEW q \in Positions PROVE Once(morphs'[q])
    <3>1. CASE q # p
      BY <1>1, <1>2, <3>1 DEF Growing, Onces
    <3>2. CASE q = p
      <4> DEFINE old == morphs[p]
                 new == morphs'[p]
      <4>1. /\ \A k \in 1 .. Len(new) : IF k <= Len(old) THEN new[k] = old[k] ELSE new[k] \notin Ids
            /\ \A k, l \in 1 .. Len(new) : k > Len(old) /\ new[k] = new[l] => k = l
        BY <1>2 DEF Growing
      <4>2. Once(old) /\ old \in Seq(Ids) /\ Len(old) \in Nat
        BY <1>1, Parts DEF Onces
      <4> HIDE DEF old, new
      <4>3. ASSUME NEW k \in 1 .. Len(new), NEW l \in 1 .. Len(new), new[k] = new[l]
            PROVE  k = l
        <5>1. CASE k <= Len(old) /\ l <= Len(old)
          <6>1. k \in 1 .. Len(old) /\ l \in 1 .. Len(old) /\ new[k] = old[k] /\ new[l] = old[l]
            BY <4>1, <4>2, <5>1
          <6>. QED
            BY <4>2, <4>3, <6>1 DEF Once
        <5>2. CASE ~(k <= Len(old))
          BY <4>1, <4>2, <4>3, <5>2
        <5>3. CASE ~(l <= Len(old))
          BY <4>1, <4>2, <4>3, <5>3
        <5>. QED
          BY <5>1, <5>2, <5>3
      <4>4. Once(new)
        BY <4>3 DEF Once
      <4>. QED
        BY <3>2, <4>4 DEF new
    <3>. QED
      BY <3>1, <3>2
  <2>2. ASSUME NEW i \in Ids' \ {0} PROVE Once(nodes'[i].conn)
    <3>1. CASE i \in Ids
      BY <1>1, <1>2, <3>1 DEF Growing, Onces, OnceInner
    <3>2. CASE i \notin Ids
      BY <1>2, <3>2 DEF Growing, Once
    <3>. QED
      BY <3>1, <3>2
  <2>. QED
    BY <2>1, <2>2 DEF Onces, OnceInner
<1>3. CASE Filling
  BY <1>2, <1>3 DEF Filling
<1>4. CASE FallingBack
  BY <1>1, <1>2, <1>4 DEF FallingBack
<1>5. CASE Moving \/ Starting \/ Resting
  <2>1. UNCHANGED <<morphs, nodes>>
    BY <1>5 DEF Moving, Starting, Resting
  <2>. QED
    BY <1>1, <2>1 DEF Onces, OnceInner, Ids
<1>6. CASE Descending \/ Refusing
  <2>1. morphs' = morphs /\ Ids' = Ids /\ \A i \in Ids : nodes'[i].conn = nodes[i].conn
    BY <1>6 DEF Descending, Refusing, Marking
  <2>. QED
    BY <1>1, <2>1 DEF Onces, OnceInner
<1>7. CASE Returning
  <2>1. PICK c \in Seq(Ids), q \in {"N", "D", "R", "M", "F"} : ReturningTo(c, q)
    BY <1>7 DEF Returning
  <2>2. /\ stack # <<>> /\ morphs' = morphs /\ Ids' = Ids /\ nodes'[Top.node].conn = c
        /\ \A i \in Ids \ {Top.node} : nodes'[i] = nodes[i]
        /\ IF q = "F" THEN c = nodes[Top.node].conn ELSE Connecting(Top.node, Here, Len(morphs[Here]), c)
    BY <2>1 DEF ReturningTo
  <2>3. Top.node # 0 => Once(c)
    <3>1. Here \in Positions /\ Top.node \in Ids /\ (Top.node # 0 => nodes[Top.node].conn = <<>>)
      BY <2>2, TopParts
    <3>2. q = "F" => c = nodes[Top.node].conn
      BY <2>2
    <3>. QED
      BY <1>1, <2>2, <3>1, <3>2 DEF Connecting, Onces, OnceInner
  <2>. QED
    BY <1>1, <2>2, <2>3 DEF Onces, OnceInner
<1>. QED
  BY <1>3, <1>4, <1>5, <1>6, <1>7, StepsAre

\* The driver stays where the first position is.
LEMMA DrivenStays ==
  ASSUME FInv, [Next]_vars
  PROVE  Driven'
<1>1. Driven /\ StartReads /\ PosOK /\ 0 \in Ids /\ 1 \in Positions /\ Counting
  BY Parts, TypeParts DEF DriverOK
<1>2. CASE Filling
  <2>1. PICK p \in Positions \ {0} :
          /\ Growing(p) /\ posState[p] \in Fresh /\ phase' \in {"pass", "visit"}
          /\ \E s \in {"N", "D", "R"} : posState' = [posState EXCEPT ![p] = s]
    BY <1>2 DEF Filling
  <2>2. nodes'[0] = nodes[0]
    BY <1>1, <2>1 DEF Growing
  <2>3. posState'[1] \notin Closes => posState[1] \notin Closes
    BY <1>1, <2>1 DEF PosOK, Fresh, Closes
  <2>. QED
    BY <1>1, <2>1, <2>2, <2>3 DEF Driven
<1>3. CASE FallingBack
  <2>1. /\ nodes'[0] = nodes[0] /\ phase = "unknown"
        /\ (phase' = "collect" /\ posState' = posState) \/ phase' = "pass"
    BY <1>1, <1>3 DEF FallingBack, Growing
  <2>. QED
    BY <1>1, <2>1 DEF Driven
<1>4. CASE Moving \/ Descending \/ Refusing \/ Starting \/ Resting
  <2>1. nodes'[0] = nodes[0] /\ posState' = posState
    <3>1. CASE Descending \/ Refusing
      <4>1. InLoop /\ posState' = posState /\ \A i \in Ids \ {Current} : nodes'[i] = nodes[i]
        BY <3>1 DEF Descending, Refusing, Marking, Unvisited
      <4>2. Current # 0
        BY <4>1, CurrentParts DEF Inner
      <4>. QED
        BY <1>1, <4>1, <4>2
    <3>. QED
      BY <1>4, <3>1 DEF Moving, Starting, Resting
  <2>2. phase' = phase \/ phase' = "visit" \/ (phase = "collect" /\ phase' = "done")
    BY <1>4 DEF Moving, Descending, Refusing, Marking, Starting, Resting
  <2>. QED
    BY <1>1, <2>1, <2>2 DEF Driven
<1>5. CASE Returning
  <2>1. PICK c \in Seq(Ids), q \in {"N", "D", "R", "M", "F"} : ReturningTo(c, q)
    BY <1>5 DEF Returning
  <2>2. /\ stack # <<>> /\ posState' = [posState EXCEPT ![Here] = q] /\ nodes'[Top.node].conn = c
        /\ \A i \in Ids \ {Top.node} : nodes'[i] = nodes[i]
        /\ \/ q = posState[Here] /\ q \in Closes
           \/ q = IF Top.type # All THEN posState[Here] ELSE IF Top.x = 0 THEN "F" ELSE "M"
    BY <2>1 DEF ReturningTo
  <2>3. /\ Here \in Positions /\ Here = nodes[Top.node].next /\ Len(stack) = 1 => Top.node = 0
        /\ Len(stack) # 1 => Top.node # 0
        /\ Top.type = nodes[Top.node].type
    BY <2>2, TopParts DEF FrameFits
  <2>4. posState'[1] = IF Here = 1 THEN q ELSE posState[1]
    BY <1>1, <2>2 DEF PosOK
  <2>5. CASE Len(stack) = 1
    <3>1. Top.node = 0 /\ Here = 1 /\ Top.type = All
      BY <1>1, <2>2, <2>5, TopParts DEF StartReads, FrameFits
    <3>2. q \in Closes
      BY <2>2, <3>1 DEF Closes
    <3>3. phase' \in {"unknown", "collect", "pass"} /\ (phase' = "unknown" => c = <<>>)
      BY <2>1, <2>5 DEF ReturningTo
    <3>. QED
      BY <2>2, <2>4, <3>1, <3>2, <3>3 DEF Driven
  <2>6. CASE Len(stack) # 1
    <3>1. Top.node # 0 /\ phase' = phase /\ phase = "visit"
      BY <1>1, <2>1, <2>2, <2>6, TopParts DEF ReturningTo, Counting
    <3>2. nodes'[0] = nodes[0]
      BY <1>1, <2>2, <3>1
    <3>3. posState'[1] \notin Closes => posState[1] \notin Closes
      BY <2>2, <2>4 DEF Closes
    <3>. QED
      BY <1>1, <3>1, <3>2, <3>3 DEF Driven
  <2>. QED
    BY <2>5, <2>6
<1>. QED
  BY <1>2, <1>3, <1>4, <1>5, StepsAre

\* A frame of the stack is one of a node.
LEMMA FrameParts ==
  ASSUME FInv, NEW k \in 1 .. Len(stack)
  PROVE  /\ stack[k] \in Frames /\ stack[k].node \in Ids /\ stack[k].i \in Nat /\ stack[k].i >= 1
         /\ stack[k].x \in Nat
         /\ FrameFits(stack[k], nodes, posState, morphs)
         /\ (k # Len(stack) => k + 1 \in 1 .. Len(stack) /\ Awaits(stack[k], stack[k + 1].node, nodes, morphs))
<1>1. TypeOK /\ Framed
  BY Parts
<1>2. stack \in Seq(Frames) /\ stack[k].node \in Ids /\ Len(stack) \in Nat
  BY <1>1 DEF TypeOK
<1>3. stack[k] \in Frames
  BY <1>2
<1>4. stack[k].i \in Nat /\ stack[k].i >= 1 /\ stack[k].x \in Nat
  BY <1>3 DEF Frames
<1>5. k # Len(stack) => k + 1 \in 1 .. Len(stack) /\ k \in 1 .. (Len(stack) - 1)
  BY <1>2
<1>. QED
  BY <1>1, <1>2, <1>3, <1>4, <1>5 DEF Framed

\* A visit that returns was awaited.
LEMMA BelowParts ==
  ASSUME FInv, stack # <<>>, Len(stack) # 1, NEW below, below = Len(stack) - 1
  PROVE  /\ below \in 1 .. Len(stack) /\ below # Len(stack) /\ below + 1 = Len(stack)
         /\ Awaits(stack[below], Top.node, nodes, morphs)
<1>1. Len(stack) \in Nat /\ Len(stack) >= 1 /\ Top = stack[Len(stack)]
  BY TopParts
<1>2. below \in 1 .. Len(stack) /\ below # Len(stack) /\ below + 1 = Len(stack)
  BY <1>1
<1>. QED
  BY <1>1, <1>2, FrameParts

\* A number that is not zero comes after another.
LEMMA Predecessor ==
  ASSUME NEW len \in Nat, len >= 1
  PROVE  \E below \in Nat : len = below + 1
<1>1. len - 1 \in Nat /\ len = (len - 1) + 1
  OBVIOUS
<1>. QED
  BY <1>1

\* The stack stays as it should.
LEMMA FramedStays ==
  ASSUME FInv, [Next]_vars
  PROVE  Framed'
<1>1. IInv /\ Framed /\ TypeOK /\ StartReads /\ 0 \in Ids /\ 1 \in Positions
  BY Parts
<1>2. Evolves /\ Prolonged
  BY <1>1, StepsEvolve, StepsProlong
<1>3. ASSUME NEW k \in 1 .. Len(stack)
      PROVE  /\ FrameFits(stack[k], nodes', posState', morphs')
             /\ k # Len(stack) => Awaits(stack[k], stack[k + 1].node, nodes', morphs')
  <2> DEFINE f == stack[k]
  <2>1. f.node \in Ids /\ f.i \in Nat /\ f.i >= 1 /\ FrameFits(f, nodes, posState, morphs)
    BY FrameParts
  <2>2. k # Len(stack) => stack[k + 1].node \in Ids /\ Awaits(f, stack[k + 1].node, nodes, morphs)
    <3>1. k # Len(stack) => k + 1 \in 1 .. Len(stack) /\ Awaits(f, stack[k + 1].node, nodes, morphs)
      BY FrameParts
    <3>. QED
      BY <1>1, <3>1 DEF TypeOK
  <2> HIDE DEF f
  <2>3. FrameFits(f, nodes', posState', morphs') /\ \A n \in Ids : Awaits(f, n, nodes, morphs) => Awaits(f, n, nodes', morphs')
    BY <1>2, <2>1, FramesStay
  <2>. QED
    BY <2>2, <2>3 DEF f
<1>4. CASE UNCHANGED stack
  <2>1. Len(stack) \in Nat
    BY <1>1 DEF TypeOK
  <2>2. \A k \in 1 .. (Len(stack) - 1) : k \in 1 .. Len(stack) /\ k # Len(stack)
    BY <2>1
  <2>. QED
    BY <1>1, <1>3, <1>4, <2>2 DEF Framed
<1>5. ASSUME stack # <<>>, NEW f, f.node = Top.node, TopBecomes(f), FrameFits(f, nodes', posState', morphs'), f.at # "await"
      PROVE  Framed'
  <2> PICK below \in Nat : Len(stack) = below + 1
    BY <1>5, TopParts
  <2>1. /\ Len(stack') = below + 1 /\ stack'[below + 1] = f
        /\ \A k \in 1 .. below : stack'[k] = stack[k]
    <3>1. Len(stack) - 1 = below
      OBVIOUS
    <3>. QED
      BY <1>5, <3>1 DEF TopBecomes
  <2>2. \A k \in 1 .. (below + 1) : k \in 1 .. below \/ k = below + 1
    OBVIOUS
  <2>3. \A k \in 1 .. below : k \in 1 .. Len(stack) /\ k # Len(stack) /\ k + 1 \in 1 .. (below + 1)
    OBVIOUS
  <2>4. \A k \in 1 .. (below + 1) : stack'[k].node = stack[k].node
    BY <1>5, <2>1, <2>2 DEF Top
  <2>5. \A k \in 1 .. (below + 1) : FrameFits(stack'[k], nodes', posState', morphs')
    BY <1>3, <1>5, <2>1, <2>2, <2>3
  <2>6. \A k \in 1 .. below : Awaits(stack'[k], stack'[k + 1].node, nodes', morphs')
    BY <1>3, <2>1, <2>3, <2>4
  <2>7. (below + 1) - 1 = below
    OBVIOUS
  <2>. QED
    BY <1>5, <2>1, <2>5, <2>6, <2>7 DEF Framed
<1>6. CASE Filling \/ FallingBack \/ Resting
  BY <1>4, <1>6 DEF Filling, FallingBack, Growing, Resting
<1>7. CASE Moving
  <2>1. PICK f \in Frames :
          /\ TopBecomes(f)
          /\ f.node = Top.node /\ f.type = Top.type /\ f.at = "loop"
          /\ UNCHANGED <<nodes, posState, morphs>>
          /\ (At("enter") /\ posState[Here] = "R" /\ f.i = Top.i) \/ (InLoop /\ f.i = Top.i + 1)
    BY <1>7 DEF Moving
  <2>2. stack # <<>>
    BY <2>1 DEF TopBecomes
  <2>3. /\ FrameFits(Top, nodes, posState, morphs) /\ Here = nodes[Top.node].next /\ Top.i \in Nat /\ Here \in Positions
    BY <2>2, TopParts
  <2>4. Len(morphs[Here]) \in Nat
    BY <2>3, Parts
  <2>5. f.i - 1 <= Len(morphs[Here]) /\ Here # 0 /\ posState[Here] \notin Fresh
    <3>1. CASE At("enter") /\ posState[Here] = "R" /\ f.i = Top.i
      BY <1>1, <2>3, <3>1 DEF FrameFits, StartReads, Fresh
    <3>2. CASE InLoop /\ f.i = Top.i + 1
      BY <2>3, <2>4, <3>2, CurrentParts
    <3>. QED
      BY <2>1, <3>1, <3>2
  <2>6. FrameFits(f, nodes, posState, morphs)
    BY <2>1, <2>3, <2>5 DEF FrameFits
  <2>. QED
    BY <1>5, <2>1, <2>2, <2>6
<1>8. CASE Refusing
  <2> DEFINE f == [Top EXCEPT !.i = @ + 1]
  <2>1. Marking /\ TopBecomes(f) /\ stack # <<>> /\ InLoop
    BY <1>8 DEF Refusing, TopBecomes, Marking, Unvisited
  <2>2. Top \in Frames /\ FrameFits(Top, nodes', posState', morphs') /\ Top.node \in Ids /\ Here = nodes[Top.node].next
        /\ Top.at = "loop"
    BY <1>3, <2>1, TopParts DEF InLoop, At
  <2>3. f.node = Top.node /\ f.type = Top.type /\ f.at = "loop" /\ f.i = Top.i + 1
    BY <2>2 DEF Frames
  <2> HIDE DEF f
  <2>4. f.i - 1 <= Len(morphs'[nodes'[f.node].next])
    <3>1. nodes'[Top.node].next = Here /\ morphs' = morphs
      BY <1>2, <2>1, <2>2 DEF Marking, Evolves
    <3>2. Top.i \in 1 .. Len(morphs[Here]) /\ Here \in Positions
      BY <2>1, CurrentParts, TopParts
    <3>3. f.i - 1 <= Len(morphs[Here])
      BY <2>3, <3>2
    <3>. QED
      BY <2>3, <3>1, <3>3
  <2>5. FrameFits(f, nodes', posState', morphs')
    BY <2>2, <2>3, <2>4 DEF FrameFits
  <2>. QED
    BY <1>5, <2>1, <2>3, <2>5
<1>9. CASE Descending
  <2> DEFINE f == [Top EXCEPT !.at = "await"]
             g == Frame(Current, nodes[Current].type)
  <2>1. /\ Marking /\ InLoop /\ Len(stack') = Len(stack) + 1 /\ TagTypeOK(Top.type, nodes[Current].tag)
        /\ \A k \in 1 .. (Len(stack) - 1) : stack'[k] = stack[k]
        /\ stack'[Len(stack)] = f /\ stack'[Len(stack) + 1] = g
    BY <1>9 DEF Descending, Marking, Unvisited
  <2>2. stack # <<>> /\ Top.at = "loop" /\ Current \in Inner /\ Here # 0 /\ Top.i \in 1 .. Len(morphs[Here])
        /\ Current = morphs[Here][Top.i]
    BY <2>1, CurrentParts
  <2>3. Top \in Frames /\ FrameFits(Top, nodes', posState', morphs') /\ Top.node \in Ids
        /\ Here \in Positions /\ Here = nodes[Top.node].next
    BY <1>3, <2>2, TopParts
  <2>4. f.node = Top.node /\ f.type = Top.type /\ f.at = "await" /\ f.i = Top.i
    BY <2>3 DEF Frames
  <2>5. g.node = Current /\ g.type = nodes[Current].type /\ g.at = "enter" /\ g.i = 1
    BY DEF Frame
  <2> HIDE DEF f, g
  <2> PICK below \in Nat : Len(stack) = below + 1
    <3>1. Len(stack) \in Nat /\ Len(stack) >= 1
      BY <2>2, TopParts
    <3>. QED
      BY <3>1, Predecessor
  <2>6. /\ Len(stack') = below + 2 /\ stack'[below + 1] = f /\ stack'[below + 2] = g
        /\ \A k \in 1 .. below : stack'[k] = stack[k]
    <3>1. Len(stack) - 1 = below /\ Len(stack) + 1 = below + 2
      OBVIOUS
    <3>. QED
      BY <2>1, <3>1
  <2>7. Current \in Ids /\ nodes'[Current].type = nodes[Current].type /\ nodes'[Current].tag = nodes[Current].tag
        /\ nodes'[Current].next = nodes[Current].next /\ nodes[Current].next \in Positions
        /\ nodes'[Top.node].next = Here /\ morphs' = morphs
    BY <1>2, <2>1, <2>2, <2>3, Parts DEF Evolves, Marking, Inner
  <2>8. FrameFits(f, nodes', posState', morphs')
    BY <2>2, <2>3, <2>4 DEF FrameFits
  <2>9. FrameFits(g, nodes', posState', morphs')
    <3>1. g.i - 1 = 0 /\ 0 <= Len(morphs[nodes[Current].next])
      <4>1. Len(morphs[nodes[Current].next]) \in Nat
        BY <2>7, Parts
      <4>. QED
        BY <2>5, <4>1
    <3>. QED
      BY <2>5, <2>7, <3>1 DEF FrameFits
  <2>10. Awaits(f, Current, nodes', morphs')
    <3>1. f.i <= Len(morphs[Here])
      BY <2>2, <2>4
    <3>. QED
      BY <2>1, <2>2, <2>4, <2>7, <3>1 DEF Awaits
  <2>11. \A k \in 1 .. (below + 2) : k \in 1 .. below \/ k = below + 1 \/ k = below + 2
    OBVIOUS
  <2>12. \A k \in 1 .. below : k \in 1 .. Len(stack) /\ k # Len(stack) /\ k + 1 \in 1 .. (below + 1)
    OBVIOUS
  <2>13. \A k \in 1 .. (below + 1) : stack'[k].node = stack[k].node
    <3>1. \A k \in 1 .. (below + 1) : k \in 1 .. below \/ k = below + 1
      OBVIOUS
    <3>. QED
      BY <2>4, <2>6, <3>1 DEF Top
  <2>14. \A k \in 1 .. (below + 2) : FrameFits(stack'[k], nodes', posState', morphs')
    BY <1>3, <2>6, <2>8, <2>9, <2>11, <2>12
  <2>15. \A k \in 1 .. (below + 1) : Awaits(stack'[k], stack'[k + 1].node, nodes', morphs')
    <3>1. ASSUME NEW k \in 1 .. below
          PROVE  Awaits(stack'[k], stack'[k + 1].node, nodes', morphs')
      BY <1>3, <2>6, <2>12, <2>13
    <3>2. Awaits(stack'[below + 1], stack'[(below + 1) + 1].node, nodes', morphs')
      <4>1. (below + 1) + 1 = below + 2
        OBVIOUS
      <4>. QED
        BY <2>5, <2>6, <2>10, <4>1
    <3>3. \A k \in 1 .. (below + 1) : k \in 1 .. below \/ k = below + 1
      OBVIOUS
    <3>. QED
      BY <3>1, <3>2, <3>3
  <2>16. (below + 2) - 1 = below + 1
    OBVIOUS
  <2>. QED
    BY <2>5, <2>6, <2>14, <2>15, <2>16 DEF Framed
<1>10. CASE Returning
  <2>1. PICK c \in Seq(Ids), q \in {"N", "D", "R", "M", "F"} : ReturningTo(c, q)
    BY <1>10 DEF Returning
  <2>2. /\ stack # <<>>
        /\ Len(stack) = 1 => stack' = <<>>
        /\ Len(stack) # 1 => /\ Len(stack') = Len(stack) - 1
                             /\ \A k \in 1 .. (Len(stack) - 2) : stack'[k] = stack[k]
                             /\ stack'[Len(stack) - 1] = Counted(stack[Len(stack) - 1], Len(c))
    BY <2>1 DEF ReturningTo
  <2>3. CASE Len(stack) = 1
    BY <2>2, <2>3 DEF Framed
  <2>4. CASE Len(stack) # 1
    <3> DEFINE below == Len(stack) - 1
               f == stack[below]
               g == Counted(f, Len(c))
    <3>1. /\ below \in 1 .. Len(stack) /\ below # Len(stack) /\ below + 1 = Len(stack)
          /\ Awaits(f, Top.node, nodes, morphs)
      <4> HIDE DEF below
      <4>. QED
        BY <2>2, <2>4, BelowParts DEF below
    <3>2. f \in Frames /\ f.node \in Ids /\ FrameFits(f, nodes', posState', morphs')
      BY <1>3, <3>1, FrameParts
    <3>3. Top.node \in Ids
      BY <2>2, TopParts
    <3>4. Awaits(f, Top.node, nodes', morphs')
      <4>1. Len(stack) \in 1 .. Len(stack) /\ Top = stack[below + 1]
        BY <2>2, <3>1, TopParts
      <4>. QED
        BY <1>3, <3>1, <4>1
    <3> HIDE DEF f, below
    <3>5. g.node = f.node /\ g.type = f.type /\ g.at = "loop" /\ g.i = f.i + 1
      BY <3>2 DEF Counted, Frames
    <3>6. f.i \in Nat /\ f.i >= 1
      BY <3>2 DEF Frames
    <3> HIDE DEF g
    <3>7. FrameFits(g, nodes', posState', morphs')
      <4>1. f.i <= Len(morphs'[nodes'[f.node].next]) /\ f.at = "await"
        BY <3>4 DEF Awaits
      <4>2. g.i - 1 <= Len(morphs'[nodes'[g.node].next])
        <5>1. g.i - 1 = f.i
          BY <3>5, <3>6
        <5>. QED
          BY <3>5, <4>1, <5>1
      <4>. QED
        BY <3>2, <3>5, <4>1, <4>2 DEF FrameFits
    <3>8. /\ Len(stack') = below /\ stack'[below] = g /\ below \in Nat
          /\ \A k \in 1 .. (below - 1) : stack'[k] = stack[k]
      <4>. below = Len(stack) - 1
        BY DEF below
      <4>. Len(stack) \in Nat
        BY <2>2, TopParts
      <4>1. Len(stack) - 2 = below - 1 /\ below = Len(stack) - 1
        OBVIOUS
      <4>2. below \in Nat
        BY <3>1
      <4>. QED
        BY <2>2, <2>4, <4>1, <4>2 DEF g, f
    <3>9. \A k \in 1 .. below : k \in 1 .. (below - 1) \/ k = below
      BY <3>8
    <3>10. \A k \in 1 .. (below - 1) : k \in 1 .. Len(stack) /\ k # Len(stack) /\ k + 1 \in 1 .. below
      BY <3>1, <3>8
    <3>11. \A k \in 1 .. below : stack'[k].node = stack[k].node
      BY <3>5, <3>8, <3>9 DEF f
    <3>12. \A k \in 1 .. below : FrameFits(stack'[k], nodes', posState', morphs')
      BY <1>3, <3>7, <3>8, <3>9, <3>10
    <3>13. \A k \in 1 .. (below - 1) : Awaits(stack'[k], stack'[k + 1].node, nodes', morphs')
      BY <1>3, <3>8, <3>10, <3>11
    <3>. QED
      BY <3>5, <3>8, <3>12, <3>13 DEF Framed
  <2>. QED
    BY <2>3, <2>4
<1>11. CASE Starting
  <2> DEFINE f == Frame(0, All)
  <2>1. Len(stack') = 1 /\ stack'[1] = f /\ UNCHANGED <<nodes, posState, morphs>>
    BY <1>11 DEF Starting
  <2>2. f.node = 0 /\ f.type = All /\ f.at = "enter" /\ f.i = 1
    BY DEF Frame
  <2> HIDE DEF f
  <2>3. FrameFits(f, nodes', posState', morphs')
    <3>1. Len(morphs[1]) \in Nat /\ nodes[0].next = 1 /\ nodes[0].type = All
      BY <1>1, Parts DEF StartReads
    <3>2. 1 - 1 <= Len(morphs[1])
      BY <3>1
    <3>. QED
      BY <2>1, <2>2, <3>1, <3>2 DEF FrameFits
  <2>4. \A k \in 1 .. 1 : k = 1
    OBVIOUS
  <2>5. \A k \in 1 .. (1 - 1) : FALSE
    OBVIOUS
  <2>. QED
    BY <2>1, <2>2, <2>3, <2>4, <2>5 DEF Framed
<1>. QED
  BY <1>6, <1>7, <1>8, <1>9, <1>10, <1>11, StepsAre

\* Who has been visited stays so, and who is visited now is what the loop
\* looks at.
LEMMA VisitedStay ==
  ASSUME FInv, [Next]_vars
  PROVE  /\ \A i \in Ids : nodes[i].state # "INCOMPLETE" => nodes'[i].state # "INCOMPLETE"
         /\ \A i \in Ids' : nodes'[i].state # "INCOMPLETE" =>
              i \in Ids /\ (nodes[i].state # "INCOMPLETE" \/ (Unvisited /\ i = Current))
<1>1. IInv /\ TypeOK /\ Settled /\ IInv'
  BY Parts, NextHolds
<1>2. Settled' /\ 1 \in Positions
  BY <1>1, Parts DEF IInv
<1>3. ASSUME NEW p \in Positions, Growing(p)
      PROVE  /\ \A i \in Ids : nodes[i].state # "INCOMPLETE" => nodes'[i].state # "INCOMPLETE"
             /\ \A i \in Ids' : nodes'[i].state # "INCOMPLETE" =>
                  i \in Ids /\ (nodes[i].state # "INCOMPLETE" \/ (Unvisited /\ i = Current))
  BY <1>3 DEF Growing
<1>4. CASE Filling \/ FallingBack
  BY <1>2, <1>3, <1>4 DEF Filling, FallingBack
<1>5. CASE Moving \/ Starting \/ Resting
  <2>1. UNCHANGED nodes
    BY <1>5 DEF Moving, Starting, Resting
  <2>. QED
    BY <2>1 DEF Ids
<1>6. CASE Descending \/ Refusing
  BY <1>6 DEF Descending, Refusing, Marking
<1>7. CASE Returning
  <2>1. PICK c \in Seq(Ids), q \in {"N", "D", "R", "M", "F"} : ReturningTo(c, q)
    BY <1>7 DEF Returning
  <2>2. /\ stack # <<>> /\ Ids' = Ids /\ \A i \in Ids \ {Top.node} : nodes'[i] = nodes[i]
        /\ Len(stack) # 1 => nodes'[Top.node].state = IF c # <<>> THEN "SUCCESS" ELSE "FAIL"
    BY <2>1 DEF ReturningTo
  <2>3. nodes[Top.node].state # "INCOMPLETE" /\ (Len(stack) = 1 => Top.node = 0)
    BY <2>2, TopParts
  <2>4. nodes'[Top.node].state # "INCOMPLETE"
    BY <1>2, <2>2, <2>3 DEF Settled
  <2>. QED
    BY <2>2, <2>3, <2>4
<1>. QED
  BY <1>4, <1>5, <1>6, <1>7, StepsAre

\* And is at the first position or reached from a visited node.
LEMMA RootedStays ==
  ASSUME FInv, [Next]_vars
  PROVE  Rooted'
<1>1. IInv /\ StartReads /\ Rooted /\ Framed /\ 1 \in Positions
  BY Parts
<1>2. Evolves
  BY <1>1, StepsEvolve
<1>3. /\ \A i \in Ids : nodes[i].state # "INCOMPLETE" => nodes'[i].state # "INCOMPLETE"
      /\ \A i \in Ids' : nodes'[i].state # "INCOMPLETE" =>
           i \in Ids /\ (nodes[i].state # "INCOMPLETE" \/ (Unvisited /\ i = Current))
  BY VisitedStay
<1>4. ASSUME NEW h \in Ids, NEW i \in Ids, Descends(h, i)
      PROVE  /\ i \in ToSet(morphs'[nodes'[h].next]) /\ TagTypeOK(nodes'[h].type, nodes'[i].tag)
  <2>1. nodes[h].next \in Positions /\ i \in ToSet(morphs[nodes[h].next]) /\ TagTypeOK(nodes[h].type, nodes[i].tag)
    BY <1>4, Parts DEF Descends
  <2>. QED
    BY <1>2, <2>1 DEF Evolves
<1>5. ASSUME NEW i \in Ids' \ {0}, nodes'[i].state # "INCOMPLETE"
      PROVE  \/ i \in ToSet(morphs'[1])
             \/ \E h \in Ids' \ {0} :
                  /\ nodes'[h].state # "INCOMPLETE"
                  /\ i \in ToSet(morphs'[nodes'[h].next]) /\ TagTypeOK(nodes'[h].type, nodes'[i].tag)
  <2>1. i \in Inner /\ i \in Ids /\ (nodes[i].state # "INCOMPLETE" \/ (Unvisited /\ i = Current))
    BY <1>3, <1>5 DEF Inner
  <2>2. ASSUME i \in ToSet(morphs[1])
        PROVE  i \in ToSet(morphs'[1])
    BY <1>1, <1>2, <2>2 DEF Evolves
  <2>3. ASSUME NEW h \in Inner, nodes[h].state # "INCOMPLETE", Descends(h, i)
        PROVE  \E e \in Ids' \ {0} :
                 /\ nodes'[e].state # "INCOMPLETE"
                 /\ i \in ToSet(morphs'[nodes'[e].next]) /\ TagTypeOK(nodes'[e].type, nodes'[i].tag)
    <3>1. h \in Ids' \ {0} /\ h \in Ids
      BY <1>2 DEF Evolves, Inner
    <3>. QED
      BY <1>3, <1>4, <2>1, <2>3, <3>1
  <2>4. CASE nodes[i].state # "INCOMPLETE"
    BY <1>1, <2>1, <2>2, <2>3, <2>4 DEF Rooted
  <2>5. CASE Unvisited /\ i = Current
    <3>1. InLoop /\ TagTypeOK(Top.type, nodes[i].tag)
      BY <2>5 DEF Unvisited
    <3>2. stack # <<>> /\ i \in ToSet(morphs[Here])
      BY <2>5, <3>1, CurrentParts
    <3>3. /\ Top.node \in Ids /\ Here = nodes[Top.node].next /\ nodes[Top.node].state # "INCOMPLETE"
          /\ Top.type = nodes[Top.node].type
      BY <3>2, TopParts DEF FrameFits
    <3>4. CASE Top.node = 0
      BY <1>1, <2>2, <3>2, <3>3, <3>4 DEF StartReads
    <3>5. CASE Top.node # 0
      <4>1. Top.node \in Inner /\ Descends(Top.node, i)
        BY <3>1, <3>2, <3>3, <3>5 DEF Inner, Descends
      <4>. QED
        BY <2>3, <3>3, <4>1
    <3>. QED
      BY <3>4, <3>5
  <2>. QED
    BY <2>1, <2>4, <2>5
<1>. QED
  BY <1>5 DEF Rooted, Inner, Descends

\* The invariant of the visits holds at first.
LEMMA FInvInit == Init => FInv
<1>. SUFFICES ASSUME Init PROVE FInv
  OBVIOUS
<1>1. CInv
  BY CInvInit
<1>2. 0 \in Positions /\ 1 \in Positions
  BY ChartAssumption
<1>3. Ids = {0} /\ nodes[0].next = 1 /\ nodes[0].type = All /\ nodes[0].conn = <<>> /\ stack = <<>>
  BY DEF Init, Ids
<1>4. morphs[0] = <<0>> /\ posState[0] = "M" /\ posState[1] = "N" /\ phase = "prefix"
  BY <1>2 DEF Init
<1>5. ToSet(<<0>>) = {0}
  BY DEF ToSet
<1>6. \A p \in Positions : Once(morphs[p])
  <2>1. \A p \in Positions : morphs[p] = IF p = 0 THEN <<0>> ELSE <<>>
    BY DEF Init
  <2>2. Once(<<0>>) /\ Once(<<>>)
    BY DEF Once
  <2>. QED
    BY <2>1, <2>2
<1>7. StartReads /\ Onces /\ Driven /\ Framed /\ Rooted
  BY <1>3, <1>4, <1>5, <1>6 DEF StartReads, Onces, OnceInner, Driven, Framed, Rooted, Inner
<1>. QED
  BY <1>1, <1>7 DEF FInv

\* A step keeps it.
LEMMA FInvNext == FInv /\ [Next]_vars => FInv'
<1>. SUFFICES ASSUME FInv, [Next]_vars PROVE FInv'
  OBVIOUS
<1>1. CInv'
  BY CInvNext DEF FInv
<1>. QED
  BY <1>1, StartReadsStays, OncesStay, DrivenStays, FramedStays, RootedStays DEF FInv

-----------------------------------------------------------------------------
(* Where no descent comes back *)

\* A visit is over.
Done(j) == nodes[j].state # "INCOMPLETE" /\ j \notin OnStack

\* The nodes of a settled position are done, and lead nowhere where nothing
\* fitted; so are the nodes that a done node descends to, and those that a
\* loop has come past, which lead nowhere if it has counted nothing.
ClosedDone ==
  \A p \in Positions \ {0} : posState[p] \in Closes =>
    \A j \in ToSet(morphs[p]) : Done(j) /\ (posState[p] = "F" => nodes[j].conn = <<>>)
DoneDown ==
  \A i \in Inner : Done(i) =>
    posState[nodes[i].next] \notin Fresh /\ \A j \in Inner : Descends(i, j) => Done(j)
LoopFits(f, ns, ms, os) ==
  \A h \in 1 .. (f.i - 1) :
    TagTypeOK(f.type, ns[ms[ns[f.node].next][h]].tag) =>
      /\ ns[ms[ns[f.node].next][h]].state # "INCOMPLETE" /\ ms[ns[f.node].next][h] \notin os
      /\ f.x = 0 => ns[ms[ns[f.node].next][h]].conn = <<>>
LoopDone == \A k \in 1 .. Len(stack) : LoopFits(stack[k], nodes, morphs, OnStack)
RootLoops == stack # <<>> /\ stack[1].at # "enter" => posState[1] = "R"
Orderly == ClosedDone /\ DoneDown /\ LoopDone /\ RootLoops

\* If no descent comes back after a step, none did before it.
LEMMA EndsBefore ==
  ASSUME FInv, [Next]_vars, DescentsEnd'
  PROVE  DescentsEnd
<1>1. (DescentsEnd <=> Ends(Inner, Descents))'
  BY DescentsEndIsEnds, PTL
<1>2. Ends(Inner', Descents')
  BY <1>1
<1>3. Evolves
  BY Parts, StepsEvolve
<1>4. Inner \subseteq Inner'
  BY <1>3 DEF Inner, Evolves
<1>5. ASSUME NEW d \in Descents
      PROVE  d \in Descents'
  <2>1. d \in Inner \X Inner /\ Descends(d[1], d[2])
    BY DEF Descents
  <2> DEFINE i == d[1]
             j == d[2]
  <2>2. i \in Ids /\ j \in Ids /\ Descends(i, j) /\ d \in Inner' \X Inner'
    BY <1>4, <2>1 DEF Inner
  <2> HIDE DEF i, j
  <2>3. nodes[i].next \in Positions
    BY <2>2, Parts
  <2>4. j \in ToSet(morphs'[nodes'[i].next]) /\ TagTypeOK(nodes'[i].type, nodes'[j].tag)
    BY <1>3, <2>2, <2>3 DEF Evolves, Descends
  <2>. QED
    BY <2>2, <2>4 DEF Descents, Descends, i, j
<1>. QED
  BY <1>2, <1>4, <1>5, EndsOfLess, DescentsEndIsEnds

\* No node that is visited but the start node does what the start node does.
LEMMA OneRoot ==
  FInv /\ DescentsEnd =>
    \A i \in Inner : nodes[i].state # "INCOMPLETE" => ~(nodes[i].type = All /\ nodes[i].next = 1)
<1>. SUFFICES ASSUME FInv, DescentsEnd, NEW i \in Inner, nodes[i].state # "INCOMPLETE",
                     nodes[i].type = All, nodes[i].next = 1
              PROVE  FALSE
  OBVIOUS
<1> DEFINE V == { h \in Inner : nodes[h].state # "INCOMPLETE" }
<1>1. Ends(Inner, Descents) /\ V \in SUBSET Inner /\ V # {}
  BY DescentsEndIsEnds
<1>2. PICK v \in V : \A u \in V : <<u, v>> \notin Descents
  <2> HIDE DEF V
  <2>. QED
    BY <1>1, SomethingFirst
<1>3. v \in Inner /\ nodes[v].state # "INCOMPLETE" /\ v \in Ids
  BY DEF Inner
<1>4. ASSUME NEW u \in V, Descends(u, v)
      PROVE  FALSE
  <2>1. u \in Inner /\ <<u, v>> \in Inner \X Inner /\ <<u, v>>[1] = u /\ <<u, v>>[2] = v
    BY <1>3
  <2>. QED
    BY <1>2, <1>4, <2>1 DEF Descents
<1>5. v \in ToSet(morphs[1])
  BY <1>3, <1>4, Parts DEF Rooted
<1>6. nodes[v].tag \in Tags
  BY <1>3, Parts DEF Nodes
<1>7. Descends(i, v)
  BY <1>5, <1>6 DEF Descends, TagTypeOK
<1>. QED
  BY <1>4, <1>7

\* Who is on the stack after a step.
LEMMA StackChanges ==
  ASSUME FInv, [Next]_vars
  PROVE  /\ Filling \/ FallingBack \/ Moving \/ Refusing \/ Resting => OnStack' = OnStack
         /\ Descending => OnStack' = OnStack \cup {Current}
         /\ Returning => OnStack' = OnStack \ {Top.node}
         /\ Starting => OnStack = {} /\ OnStack' = {0}
<1>1. TypeOK /\ Stacked /\ Len(stack) \in Nat
  BY Parts DEF TypeOK
<1>2. ASSUME NEW f, f.node = Top.node, TopBecomes(f)
      PROVE  OnStack' = OnStack
  <2>1. \A k \in 1 .. Len(stack) : k \in 1 .. (Len(stack) - 1) \/ k = Len(stack)
    BY <1>1
  <2>2. \A k \in 1 .. Len(stack) : stack'[k].node = stack[k].node
    BY <1>2, <2>1 DEF TopBecomes, Top
  <2>3. Len(stack') = Len(stack)
    BY <1>2 DEF TopBecomes
  <2>. QED
    BY <2>2, <2>3 DEF OnStack
<1>3. ASSUME Filling \/ FallingBack \/ Resting
      PROVE  OnStack' = OnStack
  <2>1. stack' = stack
    BY <1>3 DEF Filling, FallingBack, Growing, Resting
  <2>. QED
    BY <2>1 DEF OnStack
<1>4. ASSUME Moving PROVE OnStack' = OnStack
  BY <1>2, <1>4 DEF Moving
<1>5. ASSUME Refusing PROVE OnStack' = OnStack
  <2>1. TopBecomes([Top EXCEPT !.i = @ + 1]) /\ stack # <<>>
    BY <1>5 DEF Refusing, TopBecomes
  <2>2. [Top EXCEPT !.i = @ + 1].node = Top.node
    BY <2>1, TopParts DEF Frames
  <2>. QED
    BY <1>2, <2>1, <2>2
<1>6. ASSUME Descending PROVE OnStack' = OnStack \cup {Current}
  <2>1. stack # <<>>
    BY <1>6, CurrentParts DEF Descending, Marking, Unvisited
  <2>2. Top \in Frames /\ Len(stack) >= 1
    BY <2>1, TopParts
  <2> PICK below \in Nat : Len(stack) = below + 1
    BY <1>1, <2>2, Predecessor
  <2>3. Len(stack) - 1 = below /\ Len(stack) + 1 = below + 2
    OBVIOUS
  <2>4. /\ Len(stack') = below + 2 /\ \A k \in 1 .. below : stack'[k] = stack[k]
        /\ stack'[below + 1] = [Top EXCEPT !.at = "await"]
        /\ stack'[below + 2] = Frame(Current, nodes[Current].type)
    BY <1>6, <2>3 DEF Descending
  <2>5. stack'[below + 1].node = stack[below + 1].node /\ stack'[below + 2].node = Current
    BY <2>2, <2>4 DEF Frames, Frame, Top
  <2>6. \A k \in 1 .. (below + 1) : k \in 1 .. below \/ k = below + 1
    OBVIOUS
  <2>7. \A k \in 1 .. (below + 2) : k \in 1 .. (below + 1) \/ k = below + 2
    OBVIOUS
  <2>8. \A k \in 1 .. (below + 1) : k \in 1 .. (below + 2)
    OBVIOUS
  <2>9. \A k \in 1 .. (below + 1) : stack'[k].node = stack[k].node
    BY <2>4, <2>5, <2>6
  <2>10. below + 2 \in 1 .. (below + 2)
    OBVIOUS
  <2>. QED
    BY <2>4, <2>5, <2>7, <2>8, <2>9, <2>10 DEF OnStack
<1>7. ASSUME Returning PROVE OnStack' = OnStack \ {Top.node}
  <2>1. PICK c \in Seq(Ids), q \in {"N", "D", "R", "M", "F"} : ReturningTo(c, q)
    BY <1>7 DEF Returning
  <2>2. /\ stack # <<>>
        /\ Len(stack) = 1 => stack' = <<>>
        /\ Len(stack) # 1 => /\ Len(stack') = Len(stack) - 1
                             /\ \A k \in 1 .. (Len(stack) - 2) : stack'[k] = stack[k]
                             /\ stack'[Len(stack) - 1] = Counted(stack[Len(stack) - 1], Len(c))
    BY <2>1 DEF ReturningTo
  <2>3. Len(stack) >= 1
    BY <2>2, TopParts
  <2> PICK below \in Nat : Len(stack) = below + 1
    BY <1>1, <2>3, Predecessor
  <2>4. Top = stack[below + 1]
    BY DEF Top
  <2>5. CASE below = 0
    <3>1. stack' = <<>> /\ \A k \in 1 .. (below + 1) : k = below + 1
      BY <2>2, <2>5
    <3>. QED
      BY <2>4, <3>1 DEF OnStack
  <2>6. CASE below # 0
    <3>1. Len(stack) - 1 = below /\ Len(stack) - 2 = below - 1 /\ Len(stack) # 1
      BY <2>6
    <3>2. /\ Len(stack') = below /\ \A k \in 1 .. (below - 1) : stack'[k] = stack[k]
          /\ stack'[below] = Counted(stack[below], Len(c))
      BY <2>2, <3>1
    <3>3. below \in 1 .. Len(stack)
      BY <2>6
    <3>4. stack[below] \in Frames
      BY <3>3, FrameParts
    <3>5. stack'[below].node = stack[below].node
      BY <3>2, <3>4 DEF Counted, Frames
    <3>6. \A k \in 1 .. below : k \in 1 .. (below - 1) \/ k = below
      OBVIOUS
    <3>7. \A k \in 1 .. below : stack'[k].node = stack[k].node
      BY <3>2, <3>5, <3>6
    <3>8. \A k \in 1 .. below : k \in 1 .. (below + 1) /\ k # below + 1
      OBVIOUS
    <3>9. \A k \in 1 .. (below + 1) : k \in 1 .. below \/ k = below + 1
      OBVIOUS
    <3>10. below + 1 \in 1 .. (below + 1)
      OBVIOUS
    <3>11. \A k \in 1 .. below : stack[k].node # Top.node
      BY <1>1, <2>4, <3>8, <3>10 DEF Stacked
    <3>. QED
      BY <2>4, <3>2, <3>7, <3>8, <3>9, <3>10, <3>11 DEF OnStack
  <2>. QED
    BY <2>5, <2>6
<1>8. ASSUME Starting PROVE OnStack = {} /\ OnStack' = {0}
  <2>1. stack = <<>> /\ Len(stack') = 1 /\ stack'[1] = Frame(0, All)
    BY <1>8 DEF Starting
  <2>2. \A k \in 1 .. 1 : k = 1
    OBVIOUS
  <2>3. 1 \in 1 .. 1
    OBVIOUS
  <2>4. stack'[1].node = 0
    BY <2>1 DEF Frame
  <2>. QED
    BY <2>1, <2>2, <2>3, <2>4 DEF OnStack
<1>. QED
  BY <1>3, <1>4, <1>5, <1>6, <1>7, <1>8

\* A node that is done stays as it is, and done.
LEMMA DoneStays ==
  ASSUME FInv, [Next]_vars, NEW j \in Inner, Done(j)
  PROVE  j \in Inner' /\ nodes'[j] = nodes[j] /\ j \notin OnStack' /\ nodes'[j].state # "INCOMPLETE"
<1>1. nodes'[j] = nodes[j]
  BY Parts, StepsSettle DEF Done, Inner
<1>2. j \in Inner'
  BY Parts, StepsEvolve DEF Evolves, Inner
<1>3. Descending => Current # j
  BY DEF Descending, Marking, Unvisited, Done
<1>4. j \notin OnStack /\ j # 0
  BY DEF Done, Inner
<1>5. j \notin OnStack'
  BY <1>3, <1>4, StepsAre, StackChanges
<1>. QED
  BY <1>1, <1>2, <1>5 DEF Done

\* A visit that returns to another, or is refused, is what becomes done.
LEMMA NewlyDone ==
  ASSUME FInv, [Next]_vars, NEW j \in Ids', j # 0, nodes'[j].state # "INCOMPLETE", j \notin OnStack'
  PROVE  /\ j \in Inner
         /\ \/ Done(j)
            \/ Returning /\ j = Top.node /\ Len(stack) # 1
            \/ Refusing /\ j = Current
<1>1. j \in Ids /\ (nodes[j].state # "INCOMPLETE" \/ (Unvisited /\ j = Current))
  BY VisitedStay
<1>2. j \in Inner
  BY <1>1 DEF Inner
<1>3. CASE j \in OnStack
  <2>1. Returning /\ j = Top.node
    <3>1. Starting => OnStack = {}
      BY StackChanges
    <3>. QED
      BY <1>3, <3>1, StepsAre, StackChanges
  <2>2. stack # <<>>
    BY <2>1 DEF Returning, ReturningTo
  <2>3. Len(stack) # 1
    BY <2>1, <2>2, TopParts
  <2>. QED
    BY <1>2, <2>1, <2>3
<1>4. CASE j \notin OnStack /\ nodes[j].state # "INCOMPLETE"
  BY <1>2, <1>4 DEF Done
<1>5. CASE nodes[j].state = "INCOMPLETE"
  <2>1. nodes'[j] # nodes[j] /\ j = Current
    BY <1>1, <1>5
  <2>2. ~(Moving \/ Starting \/ Resting)
    BY <2>1 DEF Moving, Starting, Resting
  <2>3. ~(Filling \/ FallingBack)
    BY <1>1, <2>1 DEF Filling, FallingBack, Growing
  <2>4. ~Descending
    BY <2>1, StackChanges
  <2>5. Returning => j = Top.node /\ stack # <<>>
    BY <1>1, <2>1 DEF Returning, ReturningTo
  <2>6. ~Returning
    BY <1>5, <2>5, TopParts
  <2>. QED
    BY <1>2, <2>1, <2>2, <2>3, <2>4, <2>6, StepsAre
<1>. QED
  BY <1>3, <1>4, <1>5

\* On the stack each node but the start node descends to the next one.
LEMMA StackDescends ==
  ASSUME FInv, NEW k \in 1 .. Len(stack), k # 1
  PROVE  /\ stack[k].node \in Inner
         /\ k # Len(stack) => <<stack[k].node, stack[k + 1].node>> \in Descents
         /\ k = Len(stack) /\ InLoop /\ TagTypeOK(Top.type, nodes[Current].tag) =>
              <<stack[k].node, Current>> \in Descents
<1>1. Stacked /\ TypeOK
  BY Parts
<1> DEFINE i == stack[k].node
<1>2. i \in Inner /\ stack[k].type = nodes[i].type
  BY <1>1, FrameParts DEF Stacked, Inner, FrameFits
<1>3. ASSUME NEW j \in Inner, Descends(i, j)
      PROVE  <<i, j>> \in Descents
  <2>1. <<i, j>> \in Inner \X Inner /\ <<i, j>>[1] = i /\ <<i, j>>[2] = j
    BY <1>2
  <2>. QED
    BY <1>3, <2>1 DEF Descents
<1>4. ASSUME k # Len(stack)
      PROVE  <<i, stack[k + 1].node>> \in Descents
  <2> DEFINE j == stack[k + 1].node
  <2>1. k + 1 \in 1 .. Len(stack) /\ Awaits(stack[k], j, nodes, morphs) /\ stack[k].i \in Nat /\ stack[k].i >= 1
    BY <1>4, FrameParts
  <2>2. k \in Nat /\ k + 1 # 1
    OBVIOUS
  <2>3. j \in Inner
    BY <1>1, <2>1, <2>2 DEF Stacked, TypeOK, Inner
  <2> HIDE DEF j
  <2> DEFINE p == nodes[i].next
  <2>4. p \in Positions
    BY <1>2, Parts DEF Inner
  <2>5. morphs[p] \in Seq(Ids)
    BY <2>4, Parts
  <2>6. morphs[p][stack[k].i] = j /\ stack[k].i \in 1 .. Len(morphs[p]) /\ TagTypeOK(nodes[i].type, nodes[j].tag)
    BY <1>2, <2>1, <2>5 DEF Awaits
  <2>7. j \in ToSet(morphs[p])
    BY <2>6 DEF ToSet
  <2>. QED
    BY <1>3, <2>3, <2>6, <2>7 DEF Descends, j
<1>5. ASSUME k = Len(stack), InLoop, TagTypeOK(Top.type, nodes[Current].tag)
      PROVE  <<i, Current>> \in Descents
  <2>1. Current \in Inner /\ Current \in ToSet(morphs[Here])
    BY <1>5, CurrentParts
  <2>2. Top = stack[k] /\ Here = nodes[i].next
    BY <1>5 DEF Top, Here
  <2>. QED
    BY <1>2, <1>3, <1>5, <2>1, <2>2 DEF Descends
<1>. QED
  BY <1>2, <1>4, <1>5

\* Where no descent comes back the node that a visit looks at is not being
\* visited.
LEMMA NotOnStack ==
  ASSUME FInv, DescentsEnd, InLoop, TagTypeOK(Top.type, nodes[Current].tag)
  PROVE  Current \notin OnStack
<1>. SUFFICES ASSUME Current \in OnStack PROVE FALSE
  OBVIOUS
<1>1. Current \in Inner /\ Current # 0 /\ stack # <<>>
  BY CurrentParts DEF Inner
<1>2. Len(stack) \in Nat /\ Stacked
  BY <1>1, Parts, TopParts
<1>3. PICK m \in 1 .. Len(stack) : Current = stack[m].node
  BY DEF OnStack
<1>4. m # 1
  BY <1>1, <1>2, <1>3 DEF Stacked
<1> DEFINE C == { stack[k].node : k \in m .. Len(stack) }
<1>5. \A k \in m .. Len(stack) : k \in 1 .. Len(stack) /\ k # 1
  BY <1>2, <1>4
<1>6. C \in SUBSET Inner
  BY <1>5, StackDescends
<1>7. m \in m .. Len(stack)
  BY <1>2
<1>8. Current \in C
  BY <1>3, <1>7
<1>9. ASSUME NEW k \in m .. Len(stack)
      PROVE  \E j \in C : <<stack[k].node, j>> \in Descents
  <2>1. CASE k = Len(stack)
    BY <1>5, <1>8, <1>9, <2>1, StackDescends
  <2>2. CASE k # Len(stack)
    <3>1. k + 1 \in m .. Len(stack)
      BY <1>2, <2>2
    <3>2. stack[k + 1].node \in C
      BY <3>1
    <3>. QED
      BY <1>5, <2>2, <3>2, StackDescends
  <2>. QED
    BY <2>1, <2>2
<1>10. \A i \in C : \E j \in C : <<i, j>> \in Descents
  BY <1>9
<1>11. C = {}
  <2> HIDE DEF C
  <2>. QED
    BY <1>6, <1>10, NothingTurns, DescentsEndIsEnds
<1>. QED
  BY <1>8, <1>11

\* And no visit is refused.
LEMMA NoneRefused ==
  ASSUME FInv, DescentsEnd
  PROVE  ~Refusing
<1>. SUFFICES ASSUME Refusing PROVE FALSE
  OBVIOUS
<1>1. Unvisited /\ Len(stack) > MaxDepth
  BY DEF Refusing, Marking
<1>2. InLoop /\ TagTypeOK(Top.type, nodes[Current].tag)
  BY <1>1 DEF Unvisited
<1>3. Current \in Inner /\ stack # <<>>
  BY <1>2, CurrentParts
<1>4. Len(stack) \in Nat /\ Len(stack) >= 1
  BY <1>3, TopParts
<1> DEFINE n == Len(stack)
           c == [k \in 1 .. n |-> IF k = n THEN Current ELSE stack[k + 1].node]
<1>5. ASSUME NEW k \in 1 .. n, k # n
      PROVE  k + 1 \in 1 .. n /\ k + 1 # 1 /\ k + 1 \in Nat
  BY <1>4, <1>5
<1>6. c \in [1 .. n -> Inner]
  <2>1. \A k \in 1 .. n : k # n => stack[k + 1].node \in Inner
    BY <1>5, StackDescends
  <2>. QED
    BY <1>3, <2>1
<1>7. ASSUME NEW k \in 1 .. (n - 1)
      PROVE  <<c[k], c[k + 1]>> \in Descents
  <2>1. k \in 1 .. n /\ k # n /\ k + 1 \in 1 .. n /\ k + 1 # 1
    BY <1>4
  <2>2. c[k] = stack[k + 1].node
    BY <2>1
  <2>3. CASE k + 1 = n
    <3>1. c[k + 1] = Current
      BY <2>1, <2>3
    <3>. QED
      BY <1>2, <2>1, <2>2, <2>3, <3>1, StackDescends
  <2>4. CASE k + 1 # n
    <3>1. c[k + 1] = stack[(k + 1) + 1].node
      BY <2>1, <2>4
    <3>. QED
      BY <2>1, <2>2, <2>4, <3>1, StackDescends
  <2>. QED
    BY <2>3, <2>4
<1> HIDE DEF c
<1>8. n <= MaxDepth
  <2>1. Ends(Inner, Descents) /\ n \in Nat
    BY <1>4, DescentsEndIsEnds
  <2> HIDE DEF n
  <2>. QED
    BY <1>6, <1>7, <2>1, ChainsEnd
<1>. QED
  BY <1>1, <1>4, <1>8, CapsAreNumbers

\* What a loop has come past stays done.
LEMMA LoopStays ==
  ASSUME FInv, [Next]_vars, NEW f, f.node \in Ids, f.i \in Nat,
         FrameFits(f, nodes, posState, morphs), LoopFits(f, nodes, morphs, OnStack)
  PROVE  LoopFits(f, nodes', morphs', OnStack')
<1> DEFINE p == nodes[f.node].next
<1>1. p \in Positions /\ morphs[p] \in Seq(Ids) /\ Len(morphs[p]) \in Nat
  BY Parts
<1>2. Evolves /\ Prolonged
  BY Parts, StepsEvolve, StepsProlong
<1>3. nodes'[f.node].next = p
  BY <1>2 DEF Evolves
<1>4. /\ f.at = "enter" => f.i = 1
      /\ f.at # "enter" => p # 0
      /\ f.i - 1 <= Len(morphs[p])
  BY DEF FrameFits
<1> HIDE DEF p
<1>5. ASSUME NEW h \in 1 .. (f.i - 1), TagTypeOK(f.type, nodes'[morphs'[p][h]].tag)
      PROVE  /\ nodes'[morphs'[p][h]].state # "INCOMPLETE" /\ morphs'[p][h] \notin OnStack'
             /\ f.x = 0 => nodes'[morphs'[p][h]].conn = <<>>
  <2>1. h \in 1 .. Len(morphs[p]) /\ p # 0
    BY <1>1, <1>4
  <2> DEFINE j == morphs[p][h]
  <2>2. j \in Ids /\ j \in ToSet(morphs[p])
    BY <1>1, <2>1 DEF ToSet
  <2>3. j \in Inner
    BY <1>1, <2>1, <2>2, Parts DEF StartApart, Inner
  <2>4. morphs'[p][h] = j
    BY <1>1, <1>2, <2>1 DEF Prolonged
  <2>5. TagTypeOK(f.type, nodes[j].tag)
    BY <1>2, <1>5, <2>2, <2>4 DEF Evolves
  <2>6. nodes[j].state # "INCOMPLETE" /\ j \notin OnStack /\ (f.x = 0 => nodes[j].conn = <<>>)
    BY <2>5 DEF LoopFits, p
  <2> HIDE DEF j
  <2>7. nodes'[j] = nodes[j] /\ j \notin OnStack' /\ nodes'[j].state # "INCOMPLETE"
    BY <2>3, <2>6, DoneStays DEF Done
  <2>. QED
    BY <2>4, <2>6, <2>7
<1>. QED
  BY <1>3, <1>5 DEF LoopFits

\* The loop of the start node is over the first position's rules.
LEMMA RootLoopsStays ==
  ASSUME FInv, [Next]_vars, DescentsEnd, RootLoops
  PROVE  RootLoops'
<1>. SUFFICES ASSUME stack' # <<>>, stack'[1].at # "enter" PROVE posState'[1] = "R"
  BY DEF RootLoops
<1>1. StartReads /\ 1 \in Positions /\ PosOK /\ Stacked /\ Framed
  BY Parts, TypeParts DEF DriverOK
<1>2. ASSUME stack # <<>>
      PROVE  /\ Len(stack) \in Nat /\ 1 \in 1 .. Len(stack)
             /\ Len(stack) = 1 => Top = stack[1] /\ Here = 1
             /\ Len(stack) # 1 => Top.node \in Inner /\ stack[1].at = "await" /\ posState[1] = "R"
  <2>1. Len(stack) \in Nat /\ 1 \in 1 .. Len(stack) /\ Top = stack[Len(stack)] /\ Here = nodes[Top.node].next
    BY <1>2, TopParts
  <2>2. ASSUME Len(stack) = 1 PROVE Top = stack[1] /\ Here = 1
    BY <1>1, <1>2, <2>1, <2>2, TopParts DEF StartReads
  <2>3. ASSUME Len(stack) # 1 PROVE Top.node \in Inner /\ stack[1].at = "await"
    <3>1. Awaits(stack[1], stack[1 + 1].node, nodes, morphs)
      BY <2>1, <2>3, FrameParts
    <3>. QED
      BY <1>2, <2>3, <3>1, TopParts DEF Awaits, Inner
  <2>. QED
    BY <1>2, <2>1, <2>2, <2>3 DEF RootLoops
<1>3. CASE Filling
  <2>1. PICK p \in Positions \ {0} :
          /\ posState[p] \in Fresh /\ stack' = stack /\ (stack # <<>> => p = Here /\ At("enter"))
          /\ \E s \in {"N", "D", "R"} : posState' = [posState EXCEPT ![p] = s]
    BY <1>3 DEF Filling, Growing
  <2>2. posState[1] = "R"
    BY <2>1 DEF RootLoops
  <2>. QED
    BY <1>1, <2>1, <2>2 DEF Fresh, PosOK
<1>4. CASE FallingBack \/ Starting
  <2>1. stack # <<>> \/ stack'[1] = Frame(0, All)
    BY <1>4 DEF FallingBack, Growing, Starting
  <2>2. FallingBack => stack = <<>> /\ stack' = stack
    BY DEF FallingBack, Growing
  <2>3. Starting => stack'[1] = Frame(0, All)
    BY DEF Starting
  <2>. QED
    BY <1>4, <2>2, <2>3 DEF Frame
<1>5. CASE Resting
  BY <1>5 DEF Resting, RootLoops
<1>6. CASE Moving
  <2>1. PICK f : /\ TopBecomes(f) /\ posState' = posState
                 /\ (At("enter") /\ posState[Here] = "R") \/ InLoop
    BY <1>6 DEF Moving
  <2>2. stack # <<>>
    BY <2>1 DEF TopBecomes
  <2>3. ASSUME Len(stack) = 1 PROVE posState[1] = "R"
    <3>1. Top = stack[1] /\ Here = 1
      BY <1>2, <2>2, <2>3
    <3>. QED
      BY <2>1, <2>2, <3>1 DEF InLoop, At, RootLoops
  <2>. QED
    BY <1>2, <2>1, <2>2, <2>3
<1>7. CASE Descending \/ Refusing
  <2>1. InLoop /\ posState' = posState
    BY <1>7 DEF Descending, Refusing, Marking, Unvisited
  <2>2. stack # <<>> /\ Top.at = "loop"
    BY <2>1, CurrentParts
  <2>3. Len(stack) = 1 => posState[1] = "R"
    BY <1>2, <2>2 DEF RootLoops
  <2>. QED
    BY <1>2, <2>1, <2>2, <2>3
<1>8. CASE Returning
  <2>1. PICK c \in Seq(Ids), q \in {"N", "D", "R", "M", "F"} : ReturningTo(c, q)
    BY <1>8 DEF Returning
  <2>2. /\ stack # <<>> /\ Len(stack) # 1 /\ posState' = [posState EXCEPT ![Here] = q]
        /\ \/ q = posState[Here]
           \/ Top.type = All
    BY <2>1 DEF ReturningTo
  <2>3. Top.node \in Inner /\ posState[1] = "R"
    BY <1>2, <2>2
  <2>4. /\ nodes[Top.node].state # "INCOMPLETE" /\ Here = nodes[Top.node].next /\ Here \in Positions
        /\ Top.type = nodes[Top.node].type
    BY <2>2, TopParts DEF FrameFits
  <2>5. Here = 1 => Top.type # All
    BY <2>3, <2>4, OneRoot
  <2>. QED
    BY <1>1, <2>2, <2>3, <2>4, <2>5 DEF PosOK
<1>. QED
  BY <1>3, <1>4, <1>5, <1>6, <1>7, <1>8, StepsAre

\* A position that is settled now was, or the visit on top has come past all
\* of it.
LEMMA ClosesSince ==
  ASSUME FInv, [Next]_vars, NEW p \in Positions \ {0}, posState'[p] \in Closes
  PROVE  /\ morphs'[p] = morphs[p]
         /\ \/ posState[p] = posState'[p]
            \/ /\ Returning /\ p = Here /\ At("loop") /\ Top.i > Len(morphs[p]) /\ Top.type = All
               /\ posState'[p] = IF Top.x = 0 THEN "F" ELSE "M"
<1>1. PosOK /\ 1 \in Positions
  BY Parts, TypeParts DEF DriverOK
<1>2. CASE Filling
  <2>1. PICK h \in Positions \ {0} :
          Growing(h) /\ \E s \in {"N", "D", "R"} : posState' = [posState EXCEPT ![h] = s]
    BY <1>2 DEF Filling
  <2>2. p # h /\ posState'[p] = posState[p]
    BY <1>1, <2>1 DEF Closes, PosOK
  <2>. QED
    BY <2>1, <2>2 DEF Growing
<1>3. CASE FallingBack
  <2>1. CASE phase' = "collect" /\ UNCHANGED <<posState, morphs>>
    BY <2>1
  <2>2. CASE phase' = "pass" /\ posState' = [posState EXCEPT ![1] = "R"]
    <3>1. p # 1 /\ posState'[p] = posState[p]
      BY <1>1, <2>2 DEF Closes, PosOK
    <3>. QED
      BY <1>3, <3>1 DEF FallingBack, Growing
  <2>. QED
    BY <1>3, <2>1, <2>2 DEF FallingBack
<1>4. CASE Moving \/ Descending \/ Refusing \/ Starting \/ Resting
  <2>1. UNCHANGED <<posState, morphs>>
    BY <1>4 DEF Moving, Descending, Refusing, Marking, Starting, Resting
  <2>. QED
    BY <2>1
<1>5. CASE Returning
  <2>1. PICK c \in Seq(Ids), q \in {"N", "D", "R", "M", "F"} : ReturningTo(c, q)
    BY <1>5 DEF Returning
  <2>2. /\ stack # <<>> /\ posState' = [posState EXCEPT ![Here] = q] /\ morphs' = morphs
        /\ \/ q = posState[Here]
           \/ /\ At("loop") /\ Top.i > Len(morphs[Here]) /\ Top.type = All
              /\ q = IF Top.x = 0 THEN "F" ELSE "M"
    BY <2>1 DEF ReturningTo
  <2>3. Here \in Positions
    BY <2>2, TopParts
  <2>4. posState'[p] = IF p = Here THEN q ELSE posState[p]
    BY <1>1, <2>2, <2>3 DEF PosOK
  <2>. QED
    BY <1>5, <2>2, <2>4
<1>. QED
  BY <1>2, <1>3, <1>4, <1>5, StepsAre

\* So the nodes of a settled position are done.
LEMMA ClosedDoneStays ==
  ASSUME FInv, [Next]_vars, ClosedDone, LoopDone
  PROVE  ClosedDone'
<1>1. ASSUME NEW p \in Positions \ {0}, posState'[p] \in Closes, NEW j \in ToSet(morphs'[p])
      PROVE  /\ nodes'[j].state # "INCOMPLETE" /\ j \notin OnStack'
             /\ posState'[p] = "F" => nodes'[j].conn = <<>>
  <2>1. /\ morphs'[p] = morphs[p]
        /\ \/ posState[p] = posState'[p]
           \/ /\ p = Here /\ At("loop") /\ Top.i > Len(morphs[p]) /\ Top.type = All
              /\ posState'[p] = IF Top.x = 0 THEN "F" ELSE "M"
    BY <1>1, ClosesSince
  <2>2. morphs[p] \in Seq(Ids) /\ Len(morphs[p]) \in Nat /\ StartApart
    BY <1>1, Parts
  <2>3. PICK h \in 1 .. Len(morphs[p]) : j = morphs[p][h]
    BY <1>1, <2>1 DEF ToSet
  <2>4. j \in Inner /\ j \in ToSet(morphs[p])
    BY <1>1, <2>1, <2>2, <2>3 DEF StartApart, Inner
  <2>5. Done(j) /\ (posState'[p] = "F" => nodes[j].conn = <<>>)
    <3>1. CASE posState[p] = posState'[p]
      BY <1>1, <2>4, <3>1 DEF ClosedDone
    <3>2. CASE /\ p = Here /\ At("loop") /\ Top.i > Len(morphs[p]) /\ Top.type = All
               /\ posState'[p] = IF Top.x = 0 THEN "F" ELSE "M"
      <4>1. stack # <<>>
        BY <3>2 DEF At
      <4>2. /\ Top = stack[Len(stack)] /\ Len(stack) \in 1 .. Len(stack) /\ Top.i \in Nat
            /\ Here = nodes[Top.node].next
        BY <4>1, TopParts
      <4>3. LoopFits(Top, nodes, morphs, OnStack)
        BY <4>2 DEF LoopDone
      <4>4. h \in 1 .. (Top.i - 1)
        BY <2>2, <3>2, <4>2
      <4>5. nodes[j].tag \in Tags
        BY <2>4, Parts DEF Nodes, Inner
      <4>6. TagTypeOK(Top.type, nodes[j].tag)
        BY <3>2, <4>5 DEF TagTypeOK
      <4>. QED
        BY <2>3, <3>2, <4>2, <4>3, <4>4, <4>6 DEF LoopFits, Done
    <3>. QED
      BY <2>1, <3>1, <3>2
  <2>. QED
    BY <2>4, <2>5, DoneStays
<1>. QED
  BY <1>1 DEF ClosedDone, Done

\* What a position has more after a step is nothing that a done node descends
\* to.
LEMMA DescendsSame ==
  ASSUME FInv, [Next]_vars, DescentsEnd, NEW i \in Inner, nodes[i].state # "INCOMPLETE",
         posState[nodes[i].next] \notin Fresh, NEW j \in Inner',
         j \in ToSet(morphs'[nodes'[i].next]), TagTypeOK(nodes'[i].type, nodes'[j].tag)
  PROVE  j \in Inner /\ Descends(i, j)
<1>1. i \in Ids /\ nodes[i].next \in Positions /\ nodes[i].type \in Types
  BY Parts DEF Inner, Nodes
<1>2. Evolves
  BY Parts, StepsEvolve
<1> DEFINE p == nodes[i].next
<1>3. nodes'[i].next = p /\ nodes'[i].type = nodes[i].type
  BY <1>1, <1>2 DEF Evolves
<1>4. CASE j \in ToSet(morphs[p])
  <2>1. j \in Inner
    BY <1>1, <1>4, Parts DEF ToSet, Inner
  <2>. QED
    BY <1>2, <1>3, <1>4, <2>1 DEF Descends, Evolves, Inner
<1>5. CASE j \notin ToSet(morphs[p])
  <2>1. j \notin Ids /\ morphs'[p] # morphs[p] /\ j \in Ids'
    BY <1>1, <1>2, <1>3, <1>5 DEF Evolves, Inner
  <2>2. ~(Moving \/ Descending \/ Refusing \/ Returning \/ Starting \/ Resting)
    BY <2>1 DEF Moving, Descending, Refusing, Marking, Returning, ReturningTo, Starting, Resting
  <2>3. ~Filling
    BY <1>1, <2>1 DEF Filling, Growing
  <2>4. FallingBack
    BY <2>2, <2>3, StepsAre
  <2>5. p = 1 /\ nodes'[j].tag = UnkTag
    BY <1>1, <2>1, <2>4 DEF FallingBack, Growing
  <2>6. nodes[i].type = All
    <3>1. TagTypeOK(nodes[i].type, UnkTag)
      BY <1>3, <2>5
    <3>2. \A t \in DOMAIN TagTypes : UnkTag \notin TagTypes[t]
      BY ChartAssumption
    <3>. QED
      BY <1>1, <3>1, <3>2 DEF TagTypeOK, Types
  <2>. QED
    BY <2>5, <2>6, OneRoot
<1>. QED
  BY <1>4, <1>5

\* A visit that returns has come past all that its node descends to.
LEMMA ReturnsDone ==
  ASSUME FInv, ClosedDone, LoopDone, Returning, Len(stack) # 1, Top.node \in Inner
  PROVE  posState[Here] \notin Fresh /\ \A j \in Inner : Descends(Top.node, j) => Done(j)
<1>1. StartReads
  BY Parts
<1>2. /\ stack # <<>>
      /\ \/ At("enter") /\ posState[Here] \in Closes
         \/ At("loop") /\ Top.i > Len(morphs[Here])
  BY DEF Returning, ReturningTo
<1>3. /\ Here \in Positions /\ Here = nodes[Top.node].next /\ Top = stack[Len(stack)]
      /\ Len(stack) \in 1 .. Len(stack) /\ Top.i \in Nat /\ FrameFits(Top, nodes, posState, morphs)
  BY <1>2, TopParts
<1>4. morphs[Here] \in Seq(Ids) /\ Len(morphs[Here]) \in Nat
  BY <1>3, Parts
<1>5. CASE At("enter") /\ posState[Here] \in Closes
  <2>1. ASSUME NEW j \in Inner, Descends(Top.node, j)
        PROVE  Done(j)
    <3>1. j \in ToSet(morphs[Here]) /\ j # 0
      BY <1>3, <2>1 DEF Descends, Inner
    <3>2. Here # 0
      BY <1>1, <3>1 DEF StartReads
    <3>. QED
      BY <1>3, <1>5, <3>1, <3>2 DEF ClosedDone
  <2>. QED
    BY <1>5, <2>1 DEF Closes, Fresh
<1>6. CASE At("loop") /\ Top.i > Len(morphs[Here])
  <2>1. LoopFits(Top, nodes, morphs, OnStack) /\ Top.at = "loop" /\ Top.type = nodes[Top.node].type
    BY <1>3, <1>6 DEF LoopDone, At, FrameFits
  <2>2. posState[Here] \notin Fresh
    BY <1>3, <2>1 DEF FrameFits
  <2>3. ASSUME NEW j \in Inner, Descends(Top.node, j)
        PROVE  Done(j)
    <3>1. j \in ToSet(morphs[Here]) /\ TagTypeOK(Top.type, nodes[j].tag)
      BY <1>3, <2>1, <2>3 DEF Descends
    <3>2. PICK h \in 1 .. Len(morphs[Here]) : j = morphs[Here][h]
      BY <1>4, <3>1 DEF ToSet
    <3>3. h \in 1 .. (Top.i - 1)
      BY <1>3, <1>4, <1>6
    <3>. QED
      BY <1>3, <2>1, <3>1, <3>2, <3>3 DEF LoopFits, Done
  <2>. QED
    BY <2>2, <2>3
<1>. QED
  BY <1>2, <1>5, <1>6

\* A done node descends to done nodes.
LEMMA DoneDownStays ==
  ASSUME FInv, [Next]_vars, DescentsEnd, ClosedDone, DoneDown, LoopDone
  PROVE  DoneDown'
<1>1. Evolves /\ Prolonged /\ StartReads
  BY Parts, StepsEvolve, StepsProlong
<1>2. ASSUME NEW i \in Inner, i \in Inner',
             nodes[i].state # "INCOMPLETE", posState[nodes[i].next] \notin Fresh,
             \A j \in Inner : Descends(i, j) => Done(j)
      PROVE  /\ posState'[nodes'[i].next] \notin Fresh
             /\ \A j \in Inner' :
                  j \in ToSet(morphs'[nodes'[i].next]) /\ TagTypeOK(nodes'[i].type, nodes'[j].tag) =>
                    nodes'[j].state # "INCOMPLETE" /\ j \notin OnStack'
  <2>1. nodes[i].next \in Positions /\ nodes'[i].next = nodes[i].next
    BY <1>1, Parts DEF Evolves, Inner
  <2>2. posState'[nodes'[i].next] \notin Fresh
    BY <1>1, <1>2, <2>1 DEF Prolonged
  <2>3. ASSUME NEW j \in Inner', j \in ToSet(morphs'[nodes'[i].next]), TagTypeOK(nodes'[i].type, nodes'[j].tag)
        PROVE  nodes'[j].state # "INCOMPLETE" /\ j \notin OnStack'
    <3>1. j \in Inner /\ Descends(i, j)
      BY <1>2, <2>3, DescendsSame
    <3>2. Done(j)
      BY <1>2, <3>1
    <3>. QED
      BY <3>1, <3>2, DoneStays
  <2>. QED
    BY <2>2, <2>3
<1>3. ASSUME NEW i \in Inner', nodes'[i].state # "INCOMPLETE", i \notin OnStack'
      PROVE  /\ posState'[nodes'[i].next] \notin Fresh
             /\ \A j \in Inner' :
                  j \in ToSet(morphs'[nodes'[i].next]) /\ TagTypeOK(nodes'[i].type, nodes'[j].tag) =>
                    nodes'[j].state # "INCOMPLETE" /\ j \notin OnStack'
  <2>1. i \in Ids' /\ i # 0
    BY DEF Inner
  <2>2. /\ i \in Inner
        /\ Done(i) \/ (Returning /\ i = Top.node /\ Len(stack) # 1)
    BY <1>3, <2>1, NewlyDone, NoneRefused
  <2>3. CASE Done(i)
    BY <1>2, <1>3, <2>2, <2>3 DEF DoneDown, Done
  <2>4. CASE Returning /\ i = Top.node /\ Len(stack) # 1
    <3>1. stack # <<>>
      BY <2>4 DEF Returning, ReturningTo
    <3>2. nodes[i].state # "INCOMPLETE" /\ Here = nodes[i].next
      BY <2>4, <3>1, TopParts
    <3>. QED
      BY <1>2, <1>3, <2>2, <2>4, <3>2, ReturnsDone
  <2>. QED
    BY <2>2, <2>3, <2>4
<1>. QED
  BY <1>3 DEF DoneDown, Descends, Done

\* What the loops have come past is done.
LEMMA LoopDoneStays ==
  ASSUME FInv, [Next]_vars, DescentsEnd, LoopDone
  PROVE  LoopDone'
<1>1. ASSUME NEW k \in 1 .. Len(stack)
      PROVE  LoopFits(stack[k], nodes', morphs', OnStack')
  <2> DEFINE f == stack[k]
  <2>1. f.node \in Ids /\ f.i \in Nat /\ FrameFits(f, nodes, posState, morphs)
    BY FrameParts
  <2>2. LoopFits(f, nodes, morphs, OnStack)
    BY DEF LoopDone
  <2> HIDE DEF f
  <2>3. LoopFits(f, nodes', morphs', OnStack')
    BY <2>1, <2>2, LoopStays
  <2>. QED
    BY <2>3 DEF f
<1>2. CASE UNCHANGED stack
  BY <1>1, <1>2 DEF LoopDone
<1>3. CASE Filling \/ FallingBack \/ Resting
  BY <1>2, <1>3 DEF Filling, FallingBack, Growing, Resting
<1>4. CASE Refusing
  BY <1>4, NoneRefused
<1>5. CASE Moving
  <2>1. PICK f \in Frames :
          /\ TopBecomes(f) /\ f.node = Top.node /\ f.type = Top.type /\ UNCHANGED <<nodes, morphs>>
          /\ \/ At("enter") /\ f.i = Top.i
             \/ /\ InLoop /\ f.i = Top.i + 1
                /\ TagTypeOK(Top.type, nodes[Current].tag) =>
                     nodes[Current].state # "INCOMPLETE" /\ f.x = Top.x + Len(nodes[Current].conn)
                /\ ~TagTypeOK(Top.type, nodes[Current].tag) => f.x = Top.x
    BY <1>5 DEF Moving
  <2>2. stack # <<>>
    BY <2>1 DEF TopBecomes
  <2>3. /\ Top = stack[Len(stack)] /\ Len(stack) \in Nat /\ Len(stack) \in 1 .. Len(stack)
        /\ Top.i \in Nat /\ Top.i >= 1 /\ Top.x \in Nat /\ Here = nodes[Top.node].next
        /\ FrameFits(Top, nodes, posState, morphs)
    BY <2>2, TopParts
  <2>4. OnStack' = OnStack
    BY <1>5, StackChanges
  <2>5. LoopFits(Top, nodes, morphs, OnStack)
    BY <2>3 DEF LoopDone
  <2>6. LoopFits(f, nodes, morphs, OnStack)
    <3>1. CASE At("enter") /\ f.i = Top.i
      <4>1. f.i - 1 = 0 /\ \A h \in 1 .. 0 : FALSE
        BY <2>3, <3>1 DEF FrameFits, At
      <4>. QED
        BY <4>1 DEF LoopFits
    <3>2. CASE /\ InLoop /\ f.i = Top.i + 1
               /\ TagTypeOK(Top.type, nodes[Current].tag) =>
                    nodes[Current].state # "INCOMPLETE" /\ f.x = Top.x + Len(nodes[Current].conn)
               /\ ~TagTypeOK(Top.type, nodes[Current].tag) => f.x = Top.x
      <4>1. Current = morphs[Here][Top.i] /\ Current \in Ids
        BY <3>2, CurrentParts DEF Inner
      <4>2. nodes[Current].conn \in Seq(Ids)
        BY <4>1, Parts DEF TypeOK
      <4> DEFINE len == Len(nodes[Current].conn)
      <4>3. len \in Nat /\ (len = 0 => nodes[Current].conn = <<>>)
        BY <4>2
      <4> HIDE DEF len
      <4>4. ASSUME TagTypeOK(Top.type, nodes[Current].tag)
            PROVE  /\ nodes[Current].state # "INCOMPLETE" /\ Current \notin OnStack
                   /\ f.x = 0 => nodes[Current].conn = <<>>
        <5>1. Current \notin OnStack
          BY <3>2, <4>4, NotOnStack
        <5>2. f.x = Top.x + len
          BY <3>2, <4>4 DEF len
        <5>3. f.x = 0 => len = 0
          BY <2>3, <4>3, <5>2
        <5>. QED
          BY <3>2, <4>3, <4>4, <5>1, <5>3
      <4>5. f.x = 0 => Top.x = 0
        <5>1. CASE TagTypeOK(Top.type, nodes[Current].tag)
          <6>1. f.x = Top.x + len
            BY <3>2, <5>1 DEF len
          <6>. QED
            BY <2>3, <4>3, <6>1
        <5>2. CASE ~TagTypeOK(Top.type, nodes[Current].tag)
          BY <3>2, <5>2
        <5>. QED
          BY <5>1, <5>2
      <4>6. \A h \in 1 .. (f.i - 1) : h \in 1 .. (Top.i - 1) \/ h = Top.i
        BY <2>3, <3>2
      <4>. QED
        BY <2>1, <2>3, <2>5, <4>1, <4>4, <4>5, <4>6 DEF LoopFits
    <3>. QED
      BY <2>1, <3>1, <3>2
  <2>7. LoopFits(f, nodes', morphs', OnStack')
    BY <2>1, <2>4, <2>6
  <2>8. \A k \in 1 .. Len(stack) : k \in 1 .. (Len(stack) - 1) \/ k = Len(stack)
    BY <2>3
  <2>9. /\ Len(stack') = Len(stack) /\ stack'[Len(stack)] = f
        /\ \A k \in 1 .. (Len(stack) - 1) : stack'[k] = stack[k]
    BY <2>1 DEF TopBecomes
  <2>10. \A k \in 1 .. Len(stack) : LoopFits(stack'[k], nodes', morphs', OnStack')
    BY <1>1, <2>7, <2>8, <2>9
  <2>. QED
    BY <2>9, <2>10 DEF LoopDone
<1>6. CASE Descending
  <2> DEFINE f == [Top EXCEPT !.at = "await"]
             g == Frame(Current, nodes[Current].type)
  <2>1. /\ InLoop /\ Len(stack') = Len(stack) + 1
        /\ \A k \in 1 .. (Len(stack) - 1) : stack'[k] = stack[k]
        /\ stack'[Len(stack)] = f /\ stack'[Len(stack) + 1] = g
    BY <1>6 DEF Descending, Marking, Unvisited
  <2>2. stack # <<>>
    BY <2>1, CurrentParts
  <2>3. Top \in Frames /\ Top = stack[Len(stack)] /\ Len(stack) \in 1 .. Len(stack) /\ Len(stack) \in Nat
    BY <2>2, TopParts
  <2>4. f.node = Top.node /\ f.type = Top.type /\ f.i = Top.i /\ f.x = Top.x
    BY <2>3 DEF Frames
  <2>5. g.i = 1
    BY DEF Frame
  <2> HIDE DEF f, g
  <2>6. LoopFits(Top, nodes', morphs', OnStack')
    BY <1>1, <2>3
  <2>7. LoopFits(f, nodes', morphs', OnStack')
    BY <2>4, <2>6 DEF LoopFits
  <2>8. LoopFits(g, nodes', morphs', OnStack')
    <3>1. g.i - 1 = 0 /\ \A h \in 1 .. 0 : FALSE
      BY <2>5
    <3>. QED
      BY <3>1 DEF LoopFits
  <2>9. \A k \in 1 .. (Len(stack) + 1) :
          (k \in 1 .. (Len(stack) - 1) /\ k \in 1 .. Len(stack)) \/ k = Len(stack) \/ k = Len(stack) + 1
    BY <2>3
  <2>10. \A k \in 1 .. (Len(stack) + 1) : LoopFits(stack'[k], nodes', morphs', OnStack')
    BY <1>1, <2>1, <2>7, <2>8, <2>9
  <2>. QED
    BY <2>1, <2>10 DEF LoopDone
<1>7. CASE Returning
  <2>1. PICK c \in Seq(Ids), q \in {"N", "D", "R", "M", "F"} : ReturningTo(c, q)
    BY <1>7 DEF Returning
  <2>2. /\ stack # <<>> /\ nodes'[Top.node].conn = c /\ morphs' = morphs
        /\ Len(stack) = 1 => stack' = <<>>
        /\ Len(stack) # 1 => /\ Len(stack') = Len(stack) - 1
                             /\ \A k \in 1 .. (Len(stack) - 2) : stack'[k] = stack[k]
                             /\ stack'[Len(stack) - 1] = Counted(stack[Len(stack) - 1], Len(c))
    BY <2>1 DEF ReturningTo
  <2>3. Len(stack) \in Nat /\ Len(stack) >= 1 /\ Top.node \in Ids /\ nodes[Top.node].state # "INCOMPLETE"
    BY <2>2, TopParts
  <2>4. CASE Len(stack) = 1
    BY <2>2, <2>4 DEF LoopDone
  <2>5. CASE Len(stack) # 1
    <3> PICK below \in Nat : Len(stack) = below + 1
      BY <2>3, Predecessor
    <3> DEFINE f == stack[below]
               g == Counted(f, Len(c))
               n == Top.node
    <3>1. Len(stack) - 1 = below /\ Len(stack) - 2 = below - 1 /\ below \in 1 .. Len(stack)
      BY <2>5
    <3>2. f \in Frames /\ f.node \in Ids /\ f.i \in Nat /\ f.i >= 1 /\ f.x \in Nat
      BY <3>1, FrameParts
    <3>3. Awaits(f, n, nodes, morphs)
      BY <2>2, <2>5, <3>1, BelowParts
    <3>4. Len(c) \in Nat /\ (Len(c) = 0 => c = <<>>)
      OBVIOUS
    <3>5. LoopFits(f, nodes', morphs', OnStack')
      BY <1>1, <3>1
    <3>6. nodes'[n].state # "INCOMPLETE" /\ n \notin OnStack' /\ nodes'[f.node].next = nodes[f.node].next
      <4>1. n \notin OnStack'
        BY <1>7, StackChanges
      <4>2. Evolves
        BY Parts, StepsEvolve
      <4>. QED
        BY <2>3, <3>2, <4>1, <4>2, VisitedStay DEF Evolves
    <3>7. g.node = f.node /\ g.type = f.type /\ g.i = f.i + 1 /\ g.x = f.x + Len(c)
      BY <3>2 DEF Counted, Frames
    <3>8. \A k \in 1 .. (Len(stack) - 1) : (k \in 1 .. (below - 1) /\ k \in 1 .. Len(stack)) \/ k = below
      OBVIOUS
    <3> HIDE DEF f, g, n
    <3>9. g.x = 0 => f.x = 0 /\ c = <<>>
      BY <3>2, <3>4, <3>7
    <3>10. \A h \in 1 .. (g.i - 1) : h \in 1 .. (f.i - 1) \/ h = f.i
      BY <3>2, <3>7
    <3>11. morphs'[nodes'[f.node].next][f.i] = n
      BY <2>2, <3>3, <3>6 DEF Awaits
    <3>12. nodes'[n].conn = c
      BY <2>2 DEF n
    <3>13. LoopFits(g, nodes', morphs', OnStack')
      BY <3>5, <3>6, <3>7, <3>9, <3>10, <3>11, <3>12 DEF LoopFits
    <3>14. Len(stack') = Len(stack) - 1 /\ stack'[below] = g /\ \A k \in 1 .. (below - 1) : stack'[k] = stack[k]
      BY <2>2, <2>5, <3>1 DEF g, f
    <3>15. \A k \in 1 .. (Len(stack) - 1) : LoopFits(stack'[k], nodes', morphs', OnStack')
      BY <1>1, <3>8, <3>13, <3>14
    <3>. QED
      BY <3>14, <3>15 DEF LoopDone
  <2>. QED
    BY <2>4, <2>5
<1>8. CASE Starting
  <2>1. Len(stack') = 1 /\ stack'[1].i = 1
    BY <1>8 DEF Starting, Frame
  <2>2. \A k \in 1 .. 1 : k = 1
    OBVIOUS
  <2>3. \A h \in 1 .. (1 - 1) : FALSE
    OBVIOUS
  <2>. QED
    BY <2>1, <2>2, <2>3 DEF LoopDone, LoopFits
<1>. QED
  BY <1>3, <1>4, <1>5, <1>6, <1>7, <1>8, StepsAre

\* The visits are orderly as long as no descent comes back.
LEMMA OrderlyStays ==
  ASSUME FInv, [Next]_vars, DescentsEnd, Orderly
  PROVE  Orderly'
BY ClosedDoneStays, DoneDownStays, LoopDoneStays, RootLoopsStays DEF Orderly

\* They are so at first.
LEMMA OrderlyInit == Init => Orderly
<1>. SUFFICES ASSUME Init PROVE Orderly
  OBVIOUS
<1>1. stack = <<>> /\ Inner = {}
  BY DEF Init, Inner, Ids
<1>2. \A p \in Positions \ {0} : posState[p] = "N"
  BY DEF Init
<1>. QED
  BY <1>1, <1>2 DEF Orderly, ClosedDone, DoneDown, LoopDone, RootLoops, Closes

-----------------------------------------------------------------------------
(* And no cap is reached *)

\* No node is connected to as many as it has room for.
Roomy == \A i \in Ids : Cardinality(ToSet(nodes[i].conn)) < MaxConn

\* A done node is connected to all that it takes, and so is the start node
\* since its position is settled; its first connections are what it was
\* connected to then, and the rest repeats them.
ConnectedToAll ==
  \A i \in Inner : Done(i) => \A j \in ToSet(morphs[nodes[i].next]) :
    (j = 0 \/ TagTypeOK(nodes[i].type, nodes[j].tag)) /\ Takes(i, j) => j \in ToSet(nodes[i].conn)
RootConnected ==
  posState[1] \in Closes =>
    \E m \in 0 .. Len(nodes[0].conn) :
      /\ \A a, b \in 1 .. m : nodes[0].conn[a] = nodes[0].conn[b] => a = b
      /\ \A j \in ToSet(morphs[1]) : Takes(0, j) => \E a \in 1 .. m : nodes[0].conn[a] = j
Complete == ConnectedToAll /\ RootConnected

\* A node keeps its connections, in their order.
LEMMA ConnectionsStay ==
  ASSUME FInv, [Next]_vars, NEW i \in Ids
  PROVE  /\ Len(nodes[i].conn) \in Nat /\ Len(nodes'[i].conn) \in Nat
         /\ Len(nodes[i].conn) <= Len(nodes'[i].conn)
         /\ \A a \in 1 .. Len(nodes[i].conn) : nodes'[i].conn[a] = nodes[i].conn[a]
<1>1. TypeOK /\ IInv
  BY Parts
<1>2. Evolves /\ TypeOK'
  BY <1>1, StepsEvolve, NextHolds DEF IInv
<1>3. nodes[i].conn \in Seq(Ids) /\ nodes'[i].conn \in Seq(Ids')
  BY <1>1, <1>2 DEF TypeOK, Evolves
<1>4. Len(nodes[i].conn) \in Nat /\ Len(nodes'[i].conn) \in Nat
  BY <1>3
<1>5. ASSUME nodes'[i].conn = nodes[i].conn
      PROVE  /\ Len(nodes[i].conn) <= Len(nodes'[i].conn)
             /\ \A a \in 1 .. Len(nodes[i].conn) : nodes'[i].conn[a] = nodes[i].conn[a]
  BY <1>4, <1>5
<1>6. CASE Filling \/ FallingBack
  <2>1. nodes'[i] = nodes[i]
    BY <1>6 DEF Filling, FallingBack, Growing
  <2>. QED
    BY <1>4, <1>5, <2>1
<1>7. CASE Moving \/ Starting \/ Resting
  <2>1. UNCHANGED nodes
    BY <1>7 DEF Moving, Starting, Resting
  <2>. QED
    BY <1>4, <1>5, <2>1
<1>8. CASE Descending \/ Refusing
  <2>1. nodes'[i].conn = nodes[i].conn
    BY <1>8 DEF Descending, Refusing, Marking
  <2>. QED
    BY <1>4, <1>5, <2>1
<1>9. CASE Returning
  <2>1. PICK c \in Seq(Ids), q \in {"N", "D", "R", "M", "F"} : ReturningTo(c, q)
    BY <1>9 DEF Returning
  <2>2. /\ \A h \in Ids \ {Top.node} : nodes'[h] = nodes[h]
        /\ nodes'[Top.node].conn = c
        /\ c = nodes[Top.node].conn \/ Connecting(Top.node, Here, Len(morphs[Here]), c)
    BY <2>1 DEF ReturningTo
  <2>3. CASE i # Top.node \/ c = nodes[Top.node].conn
    BY <1>4, <1>5, <2>2, <2>3
  <2>4. CASE i = Top.node /\ Connecting(Top.node, Here, Len(morphs[Here]), c)
    BY <1>4, <2>2, <2>4 DEF Connecting
  <2>. QED
    BY <2>2, <2>3, <2>4
<1>. QED
  BY <1>4, <1>6, <1>7, <1>8, <1>9, StepsAre

\* If there is room after a step, there was before it.
LEMMA RoomBefore ==
  ASSUME FInv, [Next]_vars, Roomy'
  PROVE  Roomy
<1>1. TypeOK /\ IInv
  BY Parts
<1>2. Evolves /\ TypeOK'
  BY <1>1, StepsEvolve, NextHolds DEF IInv
<1>. SUFFICES ASSUME NEW i \in Ids PROVE Cardinality(ToSet(nodes[i].conn)) < MaxConn
  BY DEF Roomy
<1> DEFINE old == nodes[i].conn
           new == nodes'[i].conn
<1>3. old \in Seq(Ids) /\ new \in Seq(Ids') /\ Cardinality(ToSet(new)) < MaxConn
  BY <1>1, <1>2 DEF TypeOK, Evolves, Roomy
<1>4. Len(old) <= Len(new) /\ \A a \in 1 .. Len(old) : new[a] = old[a]
  BY ConnectionsStay
<1> HIDE DEF old, new
<1>5. ToSet(old) \subseteq ToSet(new)
  <2>1. \A a \in 1 .. Len(old) : a \in 1 .. Len(new)
    BY <1>3, <1>4
  <2>2. ToSet(old) = { old[a] : a \in 1 .. Len(old) } /\ ToSet(new) = { new[a] : a \in 1 .. Len(new) }
    BY <1>3 DEF ToSet
  <2>. QED
    BY <1>4, <2>1, <2>2
<1>6. Cardinality(ToSet(old)) \in Nat /\ Cardinality(ToSet(new)) \in Nat /\ IsFiniteSet(ToSet(new))
  BY <1>3, ElementsFinite
<1>7. Cardinality(ToSet(old)) <= Cardinality(ToSet(new))
  BY <1>5, <1>6, FS_Subset
<1>8. Cardinality(ToSet(old)) < MaxConn
  <2> DEFINE x == Cardinality(ToSet(old))
             y == Cardinality(ToSet(new))
  <2>1. x \in Nat /\ y \in Nat /\ x <= y /\ y < MaxConn /\ MaxConn \in Nat
    BY <1>3, <1>6, <1>7, CapsAreNumbers
  <2> HIDE DEF x, y
  <2>2. x < MaxConn
    BY <2>1
  <2>. QED
    BY <2>2 DEF x
<1>. QED
  BY <1>8 DEF old

\* With room left, a list that repeats nothing is not full.
LEMMA NotFull ==
  ASSUME NEW S, NEW c \in Seq(S), Once(c), Cardinality(ToSet(c)) < MaxConn
  PROVE  Len(c) # MaxConn
<1>1. Len(c) \in 0 .. Len(c)
  OBVIOUS
<1> DEFINE t == Len(c)
           y == Cardinality(ToSet(c))
<1>2. \A k, l \in 1 .. t : c[k] = c[l] => k = l
  BY DEF Once
<1>3. t <= y
  BY <1>1, <1>2, HoldsMany
<1>4. t \in Nat /\ y \in Nat /\ y < MaxConn /\ MaxConn \in Nat
  BY CapsAreNumbers, ElementsFinite
<1> HIDE DEF t, y
<1>5. t # MaxConn
  BY <1>3, <1>4
<1>. QED
  BY <1>5 DEF t

\* A node that takes another before a step takes it after it, if that is done,
\* and nothing new is taken.
LEMMA TakesSame ==
  ASSUME FInv, [Next]_vars, NEW i \in Ids, NEW p \in Positions,
         \A j \in ToSet(morphs[p]) : j = 0 \/ Done(j) \/ ~TagTypeOK(nodes[i].type, nodes[j].tag),
         NEW j \in ToSet(morphs'[p]), Takes(i, j)',
         j = 0 \/ TagTypeOK(nodes'[i].type, nodes'[j].tag)
  PROVE  j \in ToSet(morphs[p]) /\ Takes(i, j) /\ (j = 0 \/ TagTypeOK(nodes[i].type, nodes[j].tag))
<1>1. Evolves /\ 0 \in Ids /\ Settled /\ morphs[p] \in Seq(Ids) /\ IInv
  BY Parts, StepsEvolve
<1>2. TypeOK'
  BY <1>1, NextHolds DEF IInv
<1>3. nodes'[j].state = "SUCCESS" /\ <<nodes'[i].tag, nodes'[j].tag>> \in Connects
  BY DEF Takes
<1>4. j \in Ids' /\ nodes'[j].state # "INCOMPLETE"
  <2>1. morphs'[p] \in Seq(Ids')
    BY <1>2 DEF TypeOK
  <2>2. j \in Ids'
    BY <2>1 DEF ToSet
  <2>. QED
    BY <1>3, <2>2
<1>5. j \in Ids
  BY <1>4, VisitedStay
<1>6. j \in ToSet(morphs[p])
  BY <1>1, <1>5 DEF Evolves
<1>7. /\ nodes'[i].tag = nodes[i].tag /\ nodes'[i].type = nodes[i].type
      /\ nodes'[j].tag = nodes[j].tag
  BY <1>1, <1>5 DEF Evolves
<1>8. j = 0 \/ TagTypeOK(nodes[i].type, nodes[j].tag)
  BY <1>7
<1>9. nodes[j].state = "SUCCESS"
  <2>1. CASE j = 0
    BY <1>1, <2>1 DEF Settled
  <2>2. CASE j # 0
    <3>1. j \in Inner /\ Done(j)
      BY <1>5, <1>6, <1>8, <2>2 DEF Inner
    <3>. QED
      BY <1>3, <3>1, DoneStays
  <2>. QED
    BY <2>1, <2>2
<1>. QED
  BY <1>3, <1>6, <1>7, <1>8, <1>9 DEF Takes

\* A done node is connected to all that it takes.
LEMMA ConnectedToAllStays ==
  ASSUME FInv, [Next]_vars, DescentsEnd, Orderly, ConnectedToAll, Roomy'
  PROVE  ConnectedToAll'
<1>1. /\ Evolves /\ StartApart /\ StartReads /\ IInv /\ ClosedDone /\ DoneDown /\ LoopDone
      /\ \A p \in Positions : morphs[p] \in Seq(Ids)
  BY Parts, StepsEvolve DEF Orderly
<1>2. FInv' /\ Orderly'
  BY FInvNext, OrderlyStays
<1>3. Settled' /\ OnceInner' /\ TypeOK' /\ ClosedDone'
  BY <1>2 DEF FInv, CInv, IInv, Onces, Orderly
<1>4. ASSUME NEW i \in Inner, NEW p \in Positions, p = nodes[i].next,
             \A j \in Inner : Descends(i, j) => Done(j),
             NEW j \in ToSet(morphs'[p]), j = 0 \/ TagTypeOK(nodes'[i].type, nodes'[j].tag), Takes(i, j)'
      PROVE  j \in ToSet(morphs[p]) /\ Takes(i, j) /\ (j = 0 \/ TagTypeOK(nodes[i].type, nodes[j].tag))
  <2>1. \A h \in ToSet(morphs[p]) : h = 0 \/ Done(h) \/ ~TagTypeOK(nodes[i].type, nodes[h].tag)
    <3>. SUFFICES ASSUME NEW h \in ToSet(morphs[p]), h # 0, TagTypeOK(nodes[i].type, nodes[h].tag)
                  PROVE  Done(h)
      OBVIOUS
    <3>1. h \in Inner
      BY <1>1 DEF ToSet, Inner
    <3>. QED
      BY <1>4, <3>1 DEF Descends
  <2>2. i \in Ids
    BY DEF Inner
  <2>. QED
    BY <1>4, <2>1, <2>2, TakesSame
<1>5. ASSUME NEW i \in Inner', nodes'[i].state # "INCOMPLETE", i \notin OnStack',
             NEW j \in ToSet(morphs'[nodes'[i].next]), j = 0 \/ TagTypeOK(nodes'[i].type, nodes'[j].tag),
             Takes(i, j)'
      PROVE  j \in ToSet(nodes'[i].conn)
  <2>1. i \in Ids' /\ i # 0
    BY DEF Inner
  <2>2. /\ i \in Inner
        /\ Done(i) \/ (Returning /\ i = Top.node /\ Len(stack) # 1)
    BY <1>5, <2>1, NewlyDone, NoneRefused
  <2> DEFINE p == nodes[i].next
  <2>3. p \in Positions /\ nodes'[i].next = p
    BY <1>1, <2>2, Parts DEF Evolves, Inner
  <2> HIDE DEF p
  <2>4. j \in ToSet(morphs'[p])
    BY <2>3
  <2>5. CASE Done(i)
    <3>1. \A h \in Inner : Descends(i, h) => Done(h)
      BY <1>1, <2>2, <2>5 DEF DoneDown
    <3>2. j \in ToSet(morphs[p]) /\ Takes(i, j) /\ (j = 0 \/ TagTypeOK(nodes[i].type, nodes[j].tag))
      BY <1>4, <1>5, <2>2, <2>3, <2>4, <3>1 DEF p
    <3>3. j \in ToSet(nodes[i].conn)
      BY <2>2, <2>5, <3>2 DEF ConnectedToAll, p
    <3>. QED
      BY <2>2, <2>5, <3>3, DoneStays
  <2>6. CASE Returning /\ i = Top.node /\ Len(stack) # 1
    <3>1. PICK c \in Seq(Ids), q \in {"N", "D", "R", "M", "F"} : ReturningTo(c, q)
      BY <2>6 DEF Returning
    <3>2. /\ stack # <<>> /\ nodes'[i].conn = c /\ posState' = [posState EXCEPT ![Here] = q] /\ morphs' = morphs
          /\ IF q = "F" THEN c = nodes[i].conn ELSE Connecting(i, Here, Len(morphs[Here]), c)
          /\ (At("enter") /\ q = posState[Here]) \/ At("loop")
      BY <2>6, <3>1 DEF ReturningTo
    <3>3. Here = p /\ FrameFits(Top, nodes, posState, morphs)
      BY <2>6, <3>2, TopParts DEF p
    <3>4. \A h \in Inner : Descends(i, h) => Done(h)
      BY <1>1, <2>2, <2>6, ReturnsDone
    <3>5. j \in ToSet(morphs[p]) /\ Takes(i, j)
      BY <1>4, <1>5, <2>2, <2>3, <2>4, <3>4 DEF p
    <3>6. CASE q = "F"
      <4>1. p # 0
        BY <1>1, <2>6, <3>2, <3>3, <3>6 DEF StartReads, FrameFits, At, p
      <4>2. posState'[p] = "F"
        <5>1. PosOK
          BY Parts, TypeParts DEF DriverOK
        <5>. QED
          BY <2>3, <3>2, <3>3, <3>6, <5>1 DEF PosOK
      <4>3. nodes'[j].conn = <<>>
        BY <1>3, <2>3, <2>4, <4>1, <4>2 DEF ClosedDone, Closes
      <4>4. j # 0
        BY <1>1, <2>3, <3>5, <4>1 DEF StartApart
      <4>5. j \in Ids' /\ nodes'[j].state = "SUCCESS"
        <5>1. morphs'[p] \in Seq(Ids')
          BY <1>3, <2>3 DEF TypeOK
        <5>. QED
          BY <1>5, <2>4, <5>1 DEF ToSet, Takes
      <4>. QED
        BY <1>3, <4>3, <4>4, <4>5 DEF Settled
    <3>7. CASE q # "F"
      <4>1. Once(c)
        BY <1>3, <2>1, <3>2 DEF OnceInner
      <4>2. Cardinality(ToSet(c)) < MaxConn
        BY <2>1, <3>2 DEF Roomy
      <4>3. Len(c) # MaxConn
        BY <4>1, <4>2, NotFull
      <4>4. \A h \in 1 .. Len(morphs[p]) : Takes(i, morphs[p][h]) => morphs[p][h] \in ToSet(c)
        BY <3>2, <3>3, <3>7, <4>3 DEF Connecting
      <4>5. PICK h \in 1 .. Len(morphs[p]) : j = morphs[p][h]
        BY <1>1, <2>3, <3>5 DEF ToSet
      <4>. QED
        BY <3>2, <3>5, <4>4, <4>5
    <3>. QED
      BY <3>6, <3>7
  <2>. QED
    BY <2>2, <2>5, <2>6
<1>. QED
  BY <1>5 DEF ConnectedToAll, Done

\* The start node is connected to all that it takes.
LEMMA RootConnectedStays ==
  ASSUME FInv, [Next]_vars, DescentsEnd, Orderly, RootConnected, Roomy'
  PROVE  RootConnected'
<1>. SUFFICES ASSUME posState'[1] \in Closes
              PROVE  \E m \in 0 .. Len(nodes'[0].conn) :
                       /\ \A a, b \in 1 .. m : nodes'[0].conn[a] = nodes'[0].conn[b] => a = b
                       /\ \A j \in ToSet(morphs'[1]) : Takes(0, j)' => \E a \in 1 .. m : nodes'[0].conn[a] = j
  BY DEF RootConnected
<1>1. /\ Evolves /\ StartApart /\ StartReads /\ Driven /\ Onces /\ ClosedDone /\ LoopDone /\ RootLoops
      /\ 0 \in Ids /\ 1 \in Positions \ {0} /\ morphs[1] \in Seq(Ids) /\ Stacked /\ PosOK
  BY Parts, StepsEvolve, TypeParts DEF Orderly, DriverOK
<1>2. FInv' /\ Orderly'
  BY FInvNext, OrderlyStays
<1>3. Settled' /\ ClosedDone' /\ TypeOK'
  BY <1>2 DEF FInv, CInv, IInv, Orderly
<1>4. morphs'[1] = morphs[1]
  BY <1>1, ClosesSince
<1>5. \A j \in ToSet(morphs[1]) : j \in Inner
  BY <1>1 DEF StartApart, ToSet, Inner
<1>6. CASE posState[1] = posState'[1]
  <2>1. PICK m \in 0 .. Len(nodes[0].conn) :
          /\ \A a, b \in 1 .. m : nodes[0].conn[a] = nodes[0].conn[b] => a = b
          /\ \A j \in ToSet(morphs[1]) : Takes(0, j) => \E a \in 1 .. m : nodes[0].conn[a] = j
    BY <1>6 DEF RootConnected
  <2> DEFINE old == nodes[0].conn
             new == nodes'[0].conn
  <2>2. Len(old) \in Nat /\ Len(new) \in Nat /\ Len(old) <= Len(new) /\ \A a \in 1 .. Len(old) : new[a] = old[a]
    BY <1>1, ConnectionsStay
  <2>3. m \in 0 .. Len(new) /\ \A a \in 1 .. m : new[a] = old[a]
    BY <2>2
  <2>4. ASSUME NEW j \in ToSet(morphs'[1]), Takes(0, j)'
        PROVE  \E a \in 1 .. m : new[a] = j
    <3>1. \A h \in ToSet(morphs[1]) : h = 0 \/ Done(h) \/ ~TagTypeOK(nodes[0].type, nodes[h].tag)
      BY <1>1, <1>6 DEF ClosedDone
    <3>2. j = 0 \/ TagTypeOK(nodes'[0].type, nodes'[j].tag)
      <4>1. nodes'[0].type = All
        BY <1>1 DEF Evolves, StartReads
      <4>2. j \in Ids' /\ nodes'[j] \in Nodes
        <5>1. j \in Ids'
          BY <1>1, <1>4, <1>5 DEF Evolves, Inner
        <5>2. \A i \in Ids' : nodes'[i] \in Nodes
          BY <1>3 DEF TypeOK, Ids
        <5>. QED
          BY <5>1, <5>2
      <4>. QED
        BY <4>1, <4>2 DEF Nodes, TagTypeOK
    <3>3. j \in ToSet(morphs[1]) /\ Takes(0, j)
      BY <1>1, <2>4, <3>1, <3>2, TakesSame
    <3>. QED
      BY <2>1, <2>3, <3>3
  <2>. QED
    BY <2>1, <2>3, <2>4
<1>7. CASE /\ Returning /\ 1 = Here /\ At("loop") /\ Top.i > Len(morphs[1]) /\ Top.type = All
           /\ posState'[1] = IF Top.x = 0 THEN "F" ELSE "M"
  <2>1. PICK c \in Seq(Ids), q \in {"N", "D", "R", "M", "F"} : ReturningTo(c, q)
    BY <1>7 DEF Returning
  <2>2. stack # <<>> /\ Top.at = "loop"
    BY <1>7 DEF At
  <2>3. /\ Top.type = nodes[Top.node].type /\ Here = nodes[Top.node].next
        /\ nodes[Top.node].state # "INCOMPLETE" /\ Top.node \in Ids /\ Top = stack[Len(stack)]
        /\ (Len(stack) # 1 => Top.node # 0)
    BY <2>2, TopParts DEF FrameFits
  <2>4. Top.node = 0
    BY <1>7, <2>3, OneRoot DEF Inner
  <2>5. posState[1] = "R"
    BY <1>1, <2>2, <2>3, <2>4 DEF RootLoops
  <2>6. nodes[0].conn = <<>>
    BY <1>1, <2>5 DEF Driven, Closes
  <2>7. /\ nodes'[0].conn = c /\ \A j \in Ids \ {0} : nodes'[j] = nodes[j]
        /\ posState' = [posState EXCEPT ![1] = q]
        /\ IF q = "F" THEN c = <<>> ELSE Connecting(0, 1, Len(morphs[1]), c)
    BY <1>7, <2>1, <2>4, <2>6 DEF ReturningTo
  <2>8. posState'[1] = q
    BY <1>1, <2>7 DEF PosOK
  <2>9. CASE q = "F"
    <3>1. ASSUME NEW j \in ToSet(morphs'[1]), Takes(0, j)'
          PROVE  FALSE
      <4>1. nodes'[j].conn = <<>>
        BY <1>1, <1>3, <2>8, <2>9, <3>1 DEF ClosedDone, Closes
      <4>2. j \in Ids' /\ j # 0
        BY <1>1, <1>4, <1>5, <3>1 DEF Inner, Evolves
      <4>3. nodes'[j].state = "SUCCESS"
        BY <3>1 DEF Takes
      <4>. QED
        BY <1>3, <4>1, <4>2, <4>3 DEF Settled
    <3>2. 0 \in 0 .. Len(nodes'[0].conn) /\ \A a \in 1 .. 0 : FALSE
      BY <2>7, <2>9
    <3>. QED
      BY <3>1, <3>2
  <2>10. CASE q # "F"
    <3>1. Connecting(0, 1, Len(morphs[1]), c)
      BY <2>7, <2>10
    <3>2. Once(c)
      BY <1>1, <2>6, <3>1 DEF Connecting, Onces
    <3>3. Cardinality(ToSet(c)) < MaxConn
      <4>1. 0 \in Ids'
        BY <1>1 DEF Evolves
      <4>. QED
        BY <2>7, <4>1 DEF Roomy
    <3>4. Len(c) # MaxConn
      BY <3>2, <3>3, NotFull
    <3>5. \A h \in 1 .. Len(morphs[1]) : Takes(0, morphs[1][h]) => morphs[1][h] \in ToSet(c)
      BY <3>1, <3>4 DEF Connecting
    <3>6. ASSUME NEW j \in ToSet(morphs'[1]), Takes(0, j)'
          PROVE  \E a \in 1 .. Len(c) : c[a] = j
      <4>1. j \in ToSet(morphs[1]) /\ j \in Inner
        BY <1>4, <1>5, <3>6
      <4>2. nodes'[j] = nodes[j] /\ nodes'[0].tag = nodes[0].tag
        BY <1>1, <2>7, <4>1 DEF Inner, Evolves
      <4>3. Takes(0, j)
        BY <3>6, <4>2 DEF Takes
      <4>4. PICK h \in 1 .. Len(morphs[1]) : j = morphs[1][h]
        BY <1>1, <4>1 DEF ToSet
      <4>5. j \in ToSet(c)
        BY <3>5, <4>3, <4>4
      <4>. QED
        BY <4>5 DEF ToSet
    <3>7. Len(c) \in 0 .. Len(c)
      OBVIOUS
    <3>. QED
      BY <2>7, <3>2, <3>6, <3>7 DEF Once
  <2>. QED
    BY <2>9, <2>10
<1>. QED
  BY <1>1, <1>6, <1>7, ClosesSince

-----------------------------------------------------------------------------
(* No reading is lost *)

\* Collecting has found every candidate.
AllFound ==
  phase = "done" /\ DescentsEnd /\ Roomy /\ Cardinality(ToSet(candidates)) < MaxCandidates =>
    \A c : Candidate(c) => c \in ToSet(candidates)

\* The invariant of the readings.
LInv ==
  /\ FInv
  /\ DescentsEnd => Orderly
  /\ DescentsEnd /\ Roomy => Complete
  /\ AllFound

\* Every connection of the start node is among its first ones.
LEMMA RootHasAll ==
  ASSUME FInv, RootConnected, posState[1] \in Closes
  PROVE  \E m \in 0 .. Len(nodes[0].conn) :
           /\ \A a, b \in 1 .. m : nodes[0].conn[a] = nodes[0].conn[b] => a = b
           /\ \A j \in ToSet(nodes[0].conn) : \E a \in 1 .. m : nodes[0].conn[a] = j
<1>1. TypeOK /\ StartReads /\ Following /\ Settled /\ 0 \in Ids /\ nodes[0].conn \in Seq(Ids)
  BY Parts DEF TypeOK
<1>2. PICK m \in 0 .. Len(nodes[0].conn) :
        /\ \A a, b \in 1 .. m : nodes[0].conn[a] = nodes[0].conn[b] => a = b
        /\ \A j \in ToSet(morphs[1]) : Takes(0, j) => \E a \in 1 .. m : nodes[0].conn[a] = j
  BY DEF RootConnected
<1>3. ASSUME NEW j \in ToSet(nodes[0].conn)
      PROVE  j \in ToSet(morphs[1]) /\ Takes(0, j)
  <2>1. MayFollow(0, j)
    BY <1>1 DEF Following
  <2>2. PICK k \in 1 .. Len(nodes[0].conn) : j = nodes[0].conn[k]
    BY <1>1 DEF ToSet
  <2>3. nodes[j].state = "SUCCESS"
    BY <1>1, <2>2 DEF Settled
  <2>. QED
    BY <1>1, <2>1, <2>3 DEF MayFollow, StartReads, Takes
<1>. QED
  BY <1>2, <1>3

\* After the end nothing happens any more.
LEMMA DoneRests ==
  ASSUME FInv, [Next]_vars, phase' = "done"
  PROVE  CollectResults \/ UNCHANGED vars
<1>1. (stack # <<>> => phase = "visit") /\ phase \in {"prefix", "pass", "visit", "unknown", "collect", "done"}
  BY Parts, TypeParts DEF Counting, DriverOK
<1>2. ~(StartPass \/ AnalyzeUnknown \/ \E prefix \in Parens : ParenthesizedPrefix(prefix))
  BY DEF StartPass, AnalyzeUnknown, ParenthesizedPrefix
<1>3. ~(ScanDictionaries \/ ExpandRules)
  BY <1>1 DEF ScanDictionaries, ExpandRules, At
<1>4. ~(EnterR \/ PassOver \/ Descend \/ RefuseDepth)
  BY <1>1 DEF EnterR, PassOver, Descend, RefuseDepth, Unvisited, InLoop, At
<1>5. ASSUME EnterM \/ EnterF \/ EndLoop PROVE FALSE
  <2>1. PICK c \in Seq(Ids), q \in {"N", "D", "R", "M", "F"} : ReturningTo(c, q)
    BY <1>5, ReturningSteps DEF Returning
  <2>2. phase' \in {"unknown", "collect", "pass"} \/ (phase' = phase /\ stack # <<>>)
    BY <2>1 DEF ReturningTo
  <2>. QED
    BY <1>1, <2>2
<1>. QED
  BY <1>2, <1>3, <1>4, <1>5 DEF Next

\* The invariant of the readings holds at first.
LEMMA LInvInit == Init => LInv
<1>. SUFFICES ASSUME Init PROVE LInv
  OBVIOUS
<1>1. FInv /\ Orderly
  BY FInvInit, OrderlyInit
<1>2. Inner = {} /\ posState[1] = "N" /\ phase = "prefix"
  <2>1. 1 \in Positions
    BY ChartAssumption
  <2>. QED
    BY <2>1 DEF Init, Inner, Ids
<1>3. Complete
  BY <1>2 DEF Complete, ConnectedToAll, RootConnected, Closes
<1>. QED
  BY <1>1, <1>2, <1>3 DEF LInv, AllFound

\* A step keeps it.
LEMMA LInvNext == LInv /\ [Next]_vars => LInv'
<1>. SUFFICES ASSUME LInv, [Next]_vars PROVE LInv'
  OBVIOUS
<1>1. FInv /\ (DescentsEnd => Orderly) /\ (DescentsEnd /\ Roomy => Complete) /\ AllFound
  BY DEF LInv
<1>2. FInv'
  BY <1>1, FInvNext
<1>3. ASSUME DescentsEnd'
      PROVE  DescentsEnd /\ Orderly /\ Orderly'
  BY <1>1, <1>3, EndsBefore, OrderlyStays
<1>4. ASSUME DescentsEnd', Roomy'
      PROVE  Complete /\ Complete'
  <2>1. DescentsEnd /\ Orderly /\ Roomy
    BY <1>1, <1>3, <1>4, RoomBefore
  <2>2. Complete
    BY <1>1, <2>1
  <2>3. ConnectedToAll'
    BY <1>1, <1>4, <2>1, <2>2, ConnectedToAllStays DEF Complete
  <2>4. RootConnected'
    BY <1>1, <1>4, <2>1, <2>2, RootConnectedStays DEF Complete
  <2>. QED
    BY <2>2, <2>3, <2>4 DEF Complete
<1>5. AllFound'
  <2>. SUFFICES ASSUME phase' = "done", DescentsEnd', Roomy', Cardinality(ToSet(candidates')) < MaxCandidates,
                       NEW c, Candidate(c)'
                PROVE  c \in ToSet(candidates')
    BY DEF AllFound
  <2>1. DescentsEnd /\ Roomy /\ RootConnected
    BY <1>1, <1>3, <1>4, RoomBefore DEF Complete
  <2>2. CASE CollectResults
    <3>1. phase = "collect" /\ candidates' = Paths /\ UNCHANGED nodes
      BY <2>2 DEF CollectResults
    <3>2. Candidate(c)
      BY <3>1 DEF Candidate, Walk, Ids
    <3>3. TypeOK /\ Settled /\ Acyclic /\ OnceInner /\ posState[1] \in Closes
      BY <1>1, <3>1, Parts DEF Driven
    <3> DEFINE conn == nodes[0].conn
    <3>4. PICK m \in 0 .. Len(conn) :
            /\ \A a, b \in 1 .. m : conn[a] = conn[b] => a = b
            /\ \A j \in ToSet(conn) : \E a \in 1 .. m : conn[a] = j
      BY <1>1, <2>1, <3>3, RootHasAll
    <3>5. conn = nodes[0].conn
      OBVIOUS
    <3> HIDE DEF conn
    <3>6. Cardinality(ToSet(Paths)) < MaxCandidates
      BY <3>1
    <3>7. c \in ToSet(Paths)
      BY <3>2, <3>3, <3>4, <3>5, <3>6, PathsComplete
    <3>. QED
      BY <3>1, <3>7
  <2>3. CASE UNCHANGED vars
    <3>1. phase = "done" /\ UNCHANGED <<nodes, candidates>>
      BY <2>3 DEF vars
    <3>2. Candidate(c)
      BY <3>1 DEF Candidate, Walk, Ids
    <3>. QED
      BY <1>1, <2>1, <3>1, <3>2 DEF AllFound
  <2>. QED
    BY <1>1, <2>2, <2>3, DoneRests
<1>. QED
  BY <1>2, <1>3, <1>4, <1>5 DEF LInv

\* The readings from the node n on, by those from the next nodes on.
Ending(n) == IF nodes[n].next = 0 /\ MayFollow(n, 0) THEN { <<n>> } ELSE {}
Going(n, tails) ==
  UNION { { <<n>> \o rest : rest \in tails[j] } :
            j \in { h \in Ids \ {0} : Descends(n, h) /\ MayFollow(n, h) } }
IsFrom(from) ==
  from = [fuel \in 0 .. ChartEnd |->
            [n \in Ids |-> Ending(n) \cup (IF fuel = 0 THEN {} ELSE Going(n, from[fuel - 1]))]]

\* Readings are sequences of nodes.
LEMMA GoingOn ==
  ASSUME NEW tails \in [Ids -> SUBSET Seq(Ids)], NEW n \in Ids
  PROVE  Going(n, tails) \in SUBSET Seq(Ids) /\ Ending(n) \in SUBSET Seq(Ids)
<1>1. <<n>> \in Seq(Ids)
  OBVIOUS
<1>2. ASSUME NEW t \in Going(n, tails)
      PROVE  t \in Seq(Ids)
  <2>1. PICK j \in Ids : \E rest \in tails[j] : t = <<n>> \o rest
    BY DEF Going
  <2>2. PICK rest \in tails[j] : t = <<n>> \o rest
    BY <2>1
  <2>3. rest \in Seq(Ids)
    OBVIOUS
  <2>. QED
    BY <1>1, <2>2, <2>3
<1>. QED
  BY <1>1, <1>2 DEF Ending

\* So the readings are what that recursion gives.
LEMMA TypedIs ==
  ASSUME TypeOK
  PROVE  \E from : IsFrom(from) /\ TypedReadings = from[ChartEnd][0]
<1> DEFINE V == [Ids -> SUBSET Seq(Ids)]
           base == [n \in Ids |-> Ending(n)]
           next(tails) == [n \in Ids |-> Ending(n) \cup Going(n, tails)]
           step == [x \in V \X (1 .. ChartEnd) |-> next(x[1])]
           f == CHOOSE f : f = [fuel \in 0 .. ChartEnd |->
                   [n \in Ids |-> Ending(n) \cup (IF fuel = 0 THEN {} ELSE Going(n, f[fuel - 1]))]]
<1>1. ChartEnd \in Nat
  BY CapsAreNumbers DEF TypeOK
<1>2. base \in V
  <2>1. \A n \in Ids : Ending(n) \in SUBSET Seq(Ids)
    BY DEF Ending
  <2>. QED
    BY <2>1
<1>3. \A tails \in V : next(tails) \in V
  BY GoingOn
<1>4. IsStep(step, ChartEnd, V)
  <2> HIDE DEF V, next
  <2>. QED
    BY <1>3 DEF IsStep
<1>5. \A tails \in V, k \in 1 .. ChartEnd : step[<<tails, k>>] = next(tails)
  <2> HIDE DEF V, next
  <2>. QED
    OBVIOUS
<1> HIDE DEF step
<1>6. PICK g : IsRun(g, ChartEnd, V, base, step)
  <2> HIDE DEF V, base
  <2>. QED
    BY <1>1, <1>2, <1>4, Recursion
<1>7. ASSUME NEW fuel \in 0 .. ChartEnd
      PROVE  g[fuel] = [n \in Ids |-> Ending(n) \cup (IF fuel = 0 THEN {} ELSE Going(n, g[fuel - 1]))]
  <2>1. CASE fuel = 0
    <3>1. g[0] = base
      BY <1>6 DEF IsRun
    <3>. QED
      BY <2>1, <3>1
  <2>2. CASE fuel # 0
    <3>1. fuel \in 1 .. ChartEnd /\ fuel - 1 \in 0 .. ChartEnd
      BY <1>1, <2>2
    <3>2. g[fuel] = next(g[fuel - 1])
      <4> HIDE DEF V, next, base
      <4>1. g[fuel - 1] \in V
        BY <1>6, <3>1 DEF IsRun
      <4>. QED
        BY <1>5, <1>6, <3>1, <4>1 DEF IsRun
    <3>. QED
      BY <2>2, <3>2
  <2>. QED
    BY <2>1, <2>2
<1> DEFINE from == [fuel \in 0 .. ChartEnd |-> g[fuel]]
<1>8. IsFrom(from)
  <2> DEFINE row(h, fuel) == [n \in Ids |-> Ending(n) \cup (IF fuel = 0 THEN {} ELSE Going(n, h[fuel - 1]))]
  <2>1. ASSUME NEW fuel \in 0 .. ChartEnd
        PROVE  row(from, fuel) = row(g, fuel)
    <3>1. fuel # 0 => fuel - 1 \in 0 .. ChartEnd
      BY <1>1
    <3>2. fuel # 0 => from[fuel - 1] = g[fuel - 1]
      BY <3>1
    <3> HIDE DEF from
    <3>. QED
      BY <3>2
  <2>2. \A fuel \in 0 .. ChartEnd : g[fuel] = row(from, fuel)
    <3> HIDE DEF from
    <3>. QED
      BY <1>7, <2>1
  <2>3. from = [fuel \in 0 .. ChartEnd |-> row(from, fuel)]
    <3> HIDE DEF row
    <3>. QED
      BY <2>2
  <2>. QED
    BY <2>3 DEF IsFrom
<1> HIDE DEF from
<1>9. f = [fuel \in 0 .. ChartEnd |-> [n \in Ids |-> Ending(n) \cup (IF fuel = 0 THEN {} ELSE Going(n, f[fuel - 1]))]]
  BY <1>8 DEF IsFrom
<1>10. TypedReadings = f[ChartEnd][0]
  BY DEF TypedReadings, Ending, Going
<1> HIDE DEF f
<1>. QED
  BY <1>9, <1>10 DEF IsFrom

\* What follows a node in a candidate.
Completes(n, t) ==
  /\ t \in Seq(Ids) \ {<<>>} /\ t[1] = n
  /\ \A k \in 2 .. Len(t) : t[k] # 0 /\ t[k] \in ToSet(nodes[t[k - 1]].conn)
  /\ 0 \in ToSet(nodes[t[Len(t)]].conn)

\* A node before it makes a longer one.
LEMMA TailGrows ==
  ASSUME NEW n \in Ids, NEW j \in Ids \ {0}, NEW rest, Completes(j, rest), j \in ToSet(nodes[n].conn)
  PROVE  Completes(n, <<n>> \o rest)
<1> DEFINE t == <<n>> \o rest
<1>1. rest \in Seq(Ids) /\ Len(rest) \in Nat /\ Len(rest) >= 1 /\ rest[1] = j
  BY DEF Completes
<1>2. t \in Seq(Ids) /\ Len(t) = Len(rest) + 1 /\ t[1] = n /\ \A k \in 1 .. Len(rest) : t[k + 1] = rest[k]
  BY <1>1
<1> HIDE DEF t
<1>3. t # <<>>
  BY <1>1, <1>2
<1>4. ASSUME NEW k \in 2 .. Len(t)
      PROVE  t[k] # 0 /\ t[k] \in ToSet(nodes[t[k - 1]].conn)
  <2> PICK h \in Nat : k = h + 1
    <3>1. k - 1 \in Nat /\ k = (k - 1) + 1
      BY <1>1, <1>2
    <3>. QED
      BY <3>1
  <2>1. h \in 1 .. Len(rest) /\ k - 1 = h
    BY <1>1, <1>2
  <2>2. t[k] = rest[h]
    BY <1>2, <2>1
  <2>3. CASE h = 1
    BY <1>1, <1>2, <2>1, <2>2, <2>3
  <2>4. CASE h # 1
    <3>1. h \in 2 .. Len(rest) /\ h - 1 \in 1 .. Len(rest) /\ (h - 1) + 1 = h
      BY <2>1, <2>4
    <3>2. t[h] = rest[h - 1]
      BY <1>2, <3>1
    <3>3. rest[h] # 0 /\ rest[h] \in ToSet(nodes[rest[h - 1]].conn)
      BY <3>1 DEF Completes
    <3>. QED
      BY <2>1, <2>2, <3>2, <3>3
  <2>. QED
    BY <2>3, <2>4
<1>5. t[Len(t)] = rest[Len(rest)]
  <2>1. Len(rest) \in 1 .. Len(rest)
    BY <1>1
  <2>. QED
    BY <1>2, <2>1
<1>6. 0 \in ToSet(nodes[t[Len(t)]].conn)
  BY <1>5 DEF Completes
<1>. QED
  BY <1>2, <1>3, <1>4, <1>6 DEF Completes, t

\* Who begins one has a connection.
LEMMA TailConnected ==
  ASSUME TypeOK, NEW n \in Ids, NEW t, Completes(n, t)
  PROVE  nodes[n].conn # <<>>
<1>1. t \in Seq(Ids) /\ Len(t) \in Nat /\ Len(t) >= 1 /\ t[1] = n /\ ToSet(<<>>) = {}
  BY DEF Completes, ToSet
<1>2. CASE Len(t) = 1
  BY <1>1, <1>2 DEF Completes
<1>3. CASE Len(t) # 1
  <2>1. 2 \in 2 .. Len(t) /\ 2 - 1 = 1
    <3> DEFINE len == Len(t)
    <3>1. len \in Nat /\ len >= 1 /\ len # 1
      BY <1>1, <1>3
    <3> HIDE DEF len
    <3>2. 2 \in 2 .. len
      BY <3>1
    <3>. QED
      BY <3>2 DEF len
  <2>2. t[2] \in ToSet(nodes[t[2 - 1]].conn)
    BY <2>1 DEF Completes
  <2>. QED
    BY <1>1, <2>1, <2>2
<1>. QED
  BY <1>2, <1>3

\* At the end of the analysis every reading with the right tag types is a
\* candidate.
LEMMA TypedAreCandidates ==
  ASSUME FInv, DescentsEnd, Orderly, Complete, phase = "done", NEW t \in TypedReadings
  PROVE  Candidate(t)
<1>1. /\ TypeOK /\ Settled /\ StartReads /\ StartApart /\ Driven /\ 0 \in Ids /\ 1 \in Positions \ {0}
      /\ ClosedDone /\ DoneDown /\ ConnectedToAll /\ RootConnected
  BY Parts DEF Orderly, Complete
<1>2. posState[1] \in Closes
  BY <1>1 DEF Driven
<1>3. PICK from : IsFrom(from) /\ TypedReadings = from[ChartEnd][0]
  BY <1>1, TypedIs
<1>4. ChartEnd \in Nat
  BY <1>1, CapsAreNumbers DEF TypeOK
<1>5. ASSUME NEW n \in Ids, NEW j \in Ids \ {0}, n = 0 \/ Done(n), Descends(n, j)
      PROVE  Done(j)
  <2>1. CASE n = 0
    <3>1. j \in ToSet(morphs[1])
      BY <1>1, <1>5, <2>1 DEF Descends, StartReads
    <3>. QED
      BY <1>1, <1>2, <3>1 DEF ClosedDone
  <2>2. CASE n # 0 /\ Done(n)
    BY <1>1, <1>5, <2>2 DEF DoneDown, Inner
  <2>. QED
    BY <1>5, <2>1, <2>2
<1>6. ASSUME NEW n \in Ids, NEW j \in Ids, n = 0 \/ Done(n), MayFollow(n, j), nodes[j].state = "SUCCESS",
             j = 0 \/ Descends(n, j)
      PROVE  j \in ToSet(nodes[n].conn)
  <2>1. j \in ToSet(morphs[nodes[n].next]) /\ Takes(n, j) /\ (j = 0 \/ TagTypeOK(nodes[n].type, nodes[j].tag))
    BY <1>6 DEF MayFollow, Takes, Descends
  <2>2. CASE n = 0
    <3>1. j \in ToSet(morphs[1])
      BY <1>1, <2>1, <2>2 DEF StartReads
    <3>2. \E a \in 1 .. Len(nodes[0].conn) : nodes[0].conn[a] = j
      <4>1. Len(nodes[0].conn) \in Nat
        BY <1>1 DEF TypeOK
      <4>. QED
        BY <1>1, <1>2, <2>1, <2>2, <3>1, <4>1 DEF RootConnected
    <3>3. nodes[0].conn \in Seq(Ids)
      BY <1>1 DEF TypeOK
    <3>. QED
      BY <2>2, <3>2, <3>3 DEF ToSet
  <2>3. CASE n # 0 /\ Done(n)
    BY <1>1, <2>1, <2>3 DEF ConnectedToAll, Inner
  <2>. QED
    BY <1>6, <2>2, <2>3
<1> DEFINE Reads(fuel) == \A n \in Ids : n = 0 \/ Done(n) => \A r \in from[fuel][n] : Completes(n, r)
           T == { fuel \in 0 .. ChartEnd : Reads(fuel) }
<1>7. ASSUME NEW fuel \in 0 .. ChartEnd, NEW n \in Ids
      PROVE  from[fuel][n] = Ending(n) \cup (IF fuel = 0 THEN {} ELSE Going(n, from[fuel - 1]))
  <2> DEFINE row(k) == [i \in Ids |-> Ending(i) \cup (IF k = 0 THEN {} ELSE Going(i, from[k - 1]))]
  <2>1. from = [k \in 0 .. ChartEnd |-> row(k)]
    BY <1>3 DEF IsFrom
  <2>2. from[fuel] = row(fuel)
    <3> HIDE DEF row
    <3>. QED
      BY <2>1
  <2>. QED
    BY <2>2
<1>8. ASSUME NEW n \in Ids, n = 0 \/ Done(n), NEW r \in Ending(n)
      PROVE  Completes(n, r)
  <2>1. MayFollow(n, 0) /\ r = <<n>>
    BY <1>8 DEF Ending
  <2>2. 0 \in ToSet(nodes[n].conn)
    BY <1>1, <1>6, <1>8, <2>1 DEF Settled
  <2>3. r \in Seq(Ids) /\ r # <<>> /\ Len(r) = 1 /\ r[1] = n
    BY <2>1
  <2>. QED
    BY <2>2, <2>3 DEF Completes
<1>9. 0 \in T
  <2>1. 0 \in 0 .. ChartEnd
    BY <1>4
  <2>2. ASSUME NEW n \in Ids
        PROVE  from[0][n] = Ending(n)
    BY <1>7, <2>1
  <2>. QED
    BY <1>8, <2>1, <2>2
<1>10. ASSUME NEW fuel \in 1 .. ChartEnd, fuel - 1 \in T
       PROVE  fuel \in T
  <2>1. fuel \in 0 .. ChartEnd /\ fuel # 0
    BY <1>4
  <2>2. ASSUME NEW n \in Ids, n = 0 \/ Done(n), NEW r \in Going(n, from[fuel - 1])
        PROVE  Completes(n, r)
    <3>1. PICK j \in { h \in Ids \ {0} : Descends(n, h) /\ MayFollow(n, h) } :
            \E rest \in from[fuel - 1][j] : r = <<n>> \o rest
      BY DEF Going
    <3>2. PICK rest \in from[fuel - 1][j] : r = <<n>> \o rest
      BY <3>1
    <3>3. j \in Ids \ {0} /\ Descends(n, j) /\ MayFollow(n, j)
      OBVIOUS
    <3>4. Done(j)
      BY <1>5, <2>2, <3>3
    <3>5. Completes(j, rest)
      BY <1>10, <3>3, <3>4
    <3>6. nodes[j].state = "SUCCESS"
      BY <1>1, <3>3, <3>5, TailConnected DEF Settled
    <3>7. j \in ToSet(nodes[n].conn)
      BY <1>6, <2>2, <3>3, <3>6
    <3>. QED
      BY <3>2, <3>3, <3>5, <3>7, TailGrows
  <2>3. ASSUME NEW n \in Ids
        PROVE  from[fuel][n] = Ending(n) \cup Going(n, from[fuel - 1])
    BY <1>7, <2>1
  <2>4. Reads(fuel)
    BY <1>8, <2>2, <2>3
  <2>. QED
    BY <2>1, <2>4
<1>11. ChartEnd \in T
  <2>1. 0 .. ChartEnd \subseteq T
    <3> HIDE DEF T
    <3>. QED
      BY <1>4, <1>9, <1>10, Induction
  <2>2. ChartEnd \in 0 .. ChartEnd
    BY <1>4
  <2> HIDE DEF T
  <2>. QED
    BY <2>1, <2>2
<1>12. Completes(0, t)
  BY <1>1, <1>3, <1>11
<1>. QED
  BY <1>12 DEF Completes, Candidate, Walk

\* Where no visit can come back to a node that is still being visited and the
\* caps are not reached, morpheme_chart.c loses no reading: every way to put
\* morphemes together that the dictionary and the rules found, whose tag types
\* and connections allow it, is among the candidates, for any dictionary,
\* rules and tags and in whatever order the visits reach the positions.
THEOREM ReadingsKept == Spec => []NoReadingLost
<1>1. LInv => NoReadingLost
  <2>. SUFFICES ASSUME LInv, phase = "done", DescentsEnd, CapsNotReached, NEW t \in TypedReadings
                PROVE  t \in ToSet(candidates)
    BY DEF NoReadingLost
  <2>1. Roomy /\ Cardinality(ToSet(candidates)) < MaxCandidates
    BY DEF CapsNotReached, Roomy
  <2>2. FInv /\ Orderly /\ Complete /\ AllFound
    BY <2>1 DEF LInv
  <2>3. Candidate(t)
    BY <2>2, TypedAreCandidates
  <2>. QED
    BY <2>1, <2>2, <2>3 DEF AllFound
<1>. QED
  BY <1>1, LInvInit, LInvNext, PTL DEF Spec

=============================================================================
