-------------------------- MODULE HmmTaggerProofs --------------------------
(***************************************************************************)
(* Proofs about HmmTagger, for every text, every table of transitions and  *)
(* every limit on the phrases: looking at one candidate per phrase finds   *)
(* the best predecessor, and the choices the walk back makes are the best  *)
(* there are, as BestTagging promises.                                     *)
(***************************************************************************)
EXTENDS HmmTagger, SequenceTheorems, WellFoundedInduction, TLAPS

-----------------------------------------------------------------------------
(* Induction and recursion over a range of numbers *)

\* A set with 0 and with the successor of each of its elements has all.
LEMMA Induction ==
  ASSUME NEW N \in Nat, NEW S, 0 \in S, \A k \in 1 .. N : k - 1 \in S => k \in S
  PROVE  0 .. N \subseteq S
<1> DEFINE T == (0 .. N) \ S
           R == { ss \in Nat \X Nat : ss[1] < ss[2] }
<1>. SUFFICES ASSUME T # {} PROVE FALSE
  OBVIOUS
<1>1. IsWellFoundedOn(R, Nat)
  BY NatLessThanWellFounded DEF OpToRel
<1>2. T \subseteq Nat
  OBVIOUS
<1>3. PICK x \in T : \A y \in T : ~(<<y, x>> \in R)
  <2> HIDE DEF T, R
  <2>. QED
    BY <1>1, <1>2, WFMin
<1>4. x \in 1 .. N /\ x - 1 \in 0 .. N
  OBVIOUS
<1>5. x - 1 \notin T
  <2>1. x \in Nat /\ x - 1 \in Nat /\ x - 1 < x
    BY <1>4
  <2>. QED
    BY <1>3, <2>1
<1>. QED
  BY <1>3, <1>4, <1>5

IsStep(step, N, V) == step \in [V \X (1 .. N) -> V]
IsRun(f, N, V, base, step) ==
  f \in [0 .. N -> V] /\ f[0] = base /\ \A k \in 1 .. N : f[k] = step[<<f[k - 1], k>>]

\* What is defined by recursion exists.
LEMMA Recursion ==
  ASSUME NEW N \in Nat, NEW V, NEW base \in V, NEW step, IsStep(step, N, V)
  PROVE  \E f : IsRun(f, N, V, base, step)
<1> DEFINE Upto(n, f) == /\ f \in [0 .. n -> V]
                         /\ f[0] = base /\ \A k \in 1 .. n : f[k] = step[<<f[k - 1], k>>]
           S == { n \in 0 .. N : \E f \in [0 .. n -> V] : Upto(n, f) }
<1>0. \A k \in 1 .. N, v \in V : step[<<v, k>>] \in V
  BY DEF IsStep
<1>1. 0 \in S
  <2> DEFINE f == [k \in 0 .. 0 |-> base]
  <2>1. f \in [0 .. 0 -> V] /\ Upto(0, f)
    OBVIOUS
  <2> HIDE DEF f, Upto
  <2>. QED
    BY <2>1
<1>2. ASSUME NEW n \in 1 .. N, n - 1 \in S
      PROVE  n \in S
  <2>1. PICK f \in [0 .. (n - 1) -> V] : Upto(n - 1, f)
    BY <1>2
  <2> DEFINE g == [k \in 0 .. n |-> IF k = n THEN step[<<f[n - 1], n>>] ELSE f[k]]
  <2>2. f[n - 1] \in V /\ step[<<f[n - 1], n>>] \in V
    BY <1>0, <2>1
  <2>3. g \in [0 .. n -> V]
    BY <2>1, <2>2
  <2>4. g[0] = base
    BY <2>1
  <2>5. ASSUME NEW k \in 1 .. n
        PROVE  g[k] = step[<<g[k - 1], k>>]
    <3>1. CASE k = n
      <4>1. n \in 0 .. n /\ n - 1 \in 0 .. n /\ n - 1 # n
        OBVIOUS
      <4>2. g[n] = step[<<f[n - 1], n>>] /\ g[n - 1] = f[n - 1]
        BY <4>1
      <4>. QED
        BY <3>1, <4>2
    <3>2. CASE k # n
      <4>1. k \in 1 .. (n - 1)
        BY <3>2
      <4>2. f[k] = step[<<f[k - 1], k>>]
        BY <2>1, <4>1
      <4>3. g[k] = f[k] /\ g[k - 1] = f[k - 1]
        BY <4>1
      <4>. QED
        BY <4>2, <4>3
    <3>. QED
      BY <3>1, <3>2
  <2>6. Upto(n, g)
    BY <2>3, <2>4, <2>5
  <2> HIDE DEF g, Upto
  <2>. QED
    BY <2>3, <2>6
<1>3. 0 .. N \subseteq S
  <2> HIDE DEF S
  <2>. QED
    BY <1>1, <1>2, Induction
<1>4. N \in S
  <2> HIDE DEF S
  <2>. QED
    BY <1>3
<1>. QED
  BY <1>4 DEF IsRun

-----------------------------------------------------------------------------
(* The least and the greatest *)

\* A set of numbers that is not empty has a least one.
LEMMA LeastNumber ==
  ASSUME NEW S, S \subseteq Nat, S # {}
  PROVE  Min(S) \in S /\ \A y \in S : Min(S) <= y
<1>. DEFINE R == { ss \in Nat \X Nat : ss[1] < ss[2] }
<1>1. IsWellFoundedOn(R, Nat)
  BY NatLessThanWellFounded DEF OpToRel
<1>2. PICK x \in S : \A y \in S : ~(<<y, x>> \in R)
  <2>. HIDE DEF R
  <2>. QED
    BY <1>1, WFMin
<1>3. \A y \in S : x <= y
  <2>. TAKE y \in S
  <2>1. x \in Nat /\ y \in Nat /\ ~(y < x)
    BY <1>2
  <2>. QED
    BY <2>1
<1>. QED
  BY <1>3 DEF Min

\* Of finitely many places one has the greatest number.
LEMMA HighestPlace ==
  ASSUME NEW n \in Nat, NEW G, G \subseteq 1 .. n, G # {}, NEW f, \A j \in G : f[j] \in Int
  PROVE  \E j \in G : \A o \in G : f[o] <= f[j]
<1>. DEFINE Upto(k) == G \cap (1 .. k)
            S == { k \in 0 .. n :
                    Upto(k) # {} => \E j \in Upto(k) : \A o \in Upto(k) : f[o] <= f[j] }
<1>1. 0 \in S
  OBVIOUS
<1>2. ASSUME NEW k \in 1 .. n, k - 1 \in S
      PROVE  k \in S
  <2>. SUFFICES ASSUME Upto(k) # {}
                PROVE  \E j \in Upto(k) : \A o \in Upto(k) : f[o] <= f[j]
    BY <1>2
  <2>1. \A o \in Upto(k) : o = k \/ o \in Upto(k - 1)
    OBVIOUS
  <2>2. \A o \in Upto(k - 1) : o \in Upto(k)
    OBVIOUS
  <2>3. \A o \in Upto(k) : f[o] \in Int
    OBVIOUS
  <2>4. Upto(k - 1) # {} => \E j \in Upto(k - 1) : \A o \in Upto(k - 1) : f[o] <= f[j]
    BY <1>2
  <2>. HIDE DEF Upto
  <2>5. CASE Upto(k - 1) = {}
    <3>1. \A o \in Upto(k) : o = k
      BY <2>1, <2>5
    <3>2. k \in Upto(k) /\ f[k] <= f[k]
      BY <2>3, <3>1
    <3>. QED
      BY <3>1, <3>2
  <2>6. CASE Upto(k - 1) # {}
    <3>1. PICK j \in Upto(k - 1) : \A o \in Upto(k - 1) : f[o] <= f[j]
      BY <2>4, <2>6
    <3>2. j \in Upto(k)
      BY <2>2
    <3>3. CASE k \in Upto(k) /\ ~(f[k] <= f[j])
      <4>1. \A o \in Upto(k) : f[o] <= f[k]
        BY <2>1, <2>3, <3>1, <3>2, <3>3
      <4>. QED
        BY <3>3, <4>1
    <3>4. CASE ~(k \in Upto(k) /\ ~(f[k] <= f[j]))
      <4>1. \A o \in Upto(k) : f[o] <= f[j]
        BY <2>1, <3>1, <3>4
      <4>. QED
        BY <3>2, <4>1
    <3>. QED
      BY <3>3, <3>4
  <2>. QED
    BY <2>5, <2>6
<1>3. 0 .. n \subseteq S
  <2>. HIDE DEF S
  <2>. QED
    BY <1>1, <1>2, Induction
<1>4. n \in S /\ Upto(n) = G
  <2>1. n \in 0 .. n
    OBVIOUS
  <2>2. n \in S
    <3>. HIDE DEF S
    <3>. QED
      BY <1>3, <2>1
  <2>. QED
    BY <2>2
<1>. QED
  BY <1>4

EarliestTop(G, f) == Min({ j \in G : \A o \in G : f[o] <= f[j] })

\* The earliest of those places is one of them, and none before it is.
LEMMA EarliestTopIs ==
  ASSUME NEW n \in Nat, NEW G, G \subseteq 1 .. n, G # {}, NEW f, \A j \in G : f[j] \in Int
  PROVE  /\ EarliestTop(G, f) \in G
         /\ \A o \in G : /\ f[o] <= f[EarliestTop(G, f)]
                         /\ f[o] = f[EarliestTop(G, f)] => EarliestTop(G, f) <= o
<1>. DEFINE T == { j \in G : \A o \in G : f[o] <= f[j] }
            b == Min(T)
<1>1. T # {} /\ T \subseteq Nat
  <2>1. PICK j \in G : \A o \in G : f[o] <= f[j]
    BY HighestPlace
  <2>2. j \in T
    BY <2>1
  <2>3. T \subseteq G /\ \A o \in 1 .. n : o \in Nat
    OBVIOUS
  <2>. HIDE DEF T
  <2>. QED
    BY <2>2, <2>3
<1>2. b \in T /\ \A y \in T : b <= y
  <2>. HIDE DEF T
  <2>. QED
    BY <1>1, LeastNumber
<1>. HIDE DEF b
<1>3. b \in G /\ \A o \in G : f[o] <= f[b]
  BY <1>2
<1>4. ASSUME NEW o \in G, f[o] = f[b] PROVE b <= o
  <2>1. \A q \in G : f[q] <= f[o]
    BY <1>3, <1>4
  <2>2. o \in T
    BY <2>1
  <2>. QED
    BY <1>2, <2>2
<1>5. EarliestTop(G, f) = b
  BY DEF EarliestTop, b
<1>. QED
  BY <1>3, <1>4, <1>5

-----------------------------------------------------------------------------
(* The phrases of a text *)

\* Appending a phrase keeps those there are and adds that one.
LEMMA AppendContains ==
  ASSUME NEW P, NEW s \in Seq(P), NEW e \in P
  PROVE  /\ Append(s, e) \in Seq(P)
         /\ Contains(Append(s, e), e)
         /\ \A p : Contains(s, p) => Contains(Append(s, e), p)
<1>1. Append(s, e) \in Seq(P) /\ Len(Append(s, e)) = Len(s) + 1 /\ Len(s) \in Nat
  OBVIOUS
<1>2. Append(s, e)[Len(s) + 1] = e
  OBVIOUS
<1>3. \A i \in 1 .. Len(s) : Append(s, e)[i] = s[i] /\ i \in 1 .. Len(Append(s, e))
  OBVIOUS
<1>4. Len(s) + 1 \in 1 .. Len(Append(s, e))
  BY <1>1
<1>5. Contains(Append(s, e), e)
  BY <1>2, <1>4 DEF Contains
<1>6. ASSUME NEW p, Contains(s, p)
      PROVE  Contains(Append(s, e), p)
  <2>1. PICK i \in 1 .. Len(s) : s[i] = p
    BY <1>6 DEF Contains
  <2>. QED
    BY <1>3, <2>1 DEF Contains
<1>. QED
  BY <1>1, <1>5, <1>6

\* hmm_phrase_id for the candidates of a column: afterwards the table has the
\* phrases it had and those of the column.
LEMMA PhrasesKnown ==
  ASSUME NEW list \in Seq(Candidates), phrases \in Seq(Phrases)
  PROVE  /\ WithPhrasesOf(list) \in Seq(Phrases)
         /\ \A p : Contains(phrases, p) => Contains(WithPhrasesOf(list), p)
         /\ \A j \in 1 .. Len(list) : Contains(WithPhrasesOf(list), list[j].phrase)
<1>. DEFINE N == Len(list)
            V == Seq(Phrases)
            after(v, n) == IF Contains(v, list[n].phrase) THEN v ELSE Append(v, list[n].phrase)
            step == [x \in V \X (1 .. N) |-> after(x[1], x[2])]
            f == CHOOSE f : f = [n \in 0 .. N |-> IF n = 0 THEN phrases ELSE after(f[n - 1], n)]
<1>1. N \in Nat /\ \A n \in 1 .. N : list[n].phrase \in Phrases
  <2>1. N \in Nat /\ \A n \in 1 .. N : list[n] \in Candidates
    OBVIOUS
  <2>2. \A e \in Candidates : e.phrase \in Phrases
    BY DEF Candidates
  <2>. QED
    BY <2>1, <2>2
<1>2. ASSUME NEW v \in V, NEW n \in 1 .. N
      PROVE  /\ after(v, n) \in V
             /\ Contains(after(v, n), list[n].phrase)
             /\ \A p : Contains(v, p) => Contains(after(v, n), p)
  BY <1>1, AppendContains
<1>3. IsStep(step, N, V)
  <2>. HIDE DEF V, after
  <2>. QED
    BY <1>2 DEF IsStep
<1>4. \A v \in V, n \in 1 .. N : step[<<v, n>>] = after(v, n)
  <2>. HIDE DEF V, after
  <2>. QED
    OBVIOUS
<1>5. phrases \in V
  OBVIOUS
<1>6. WithPhrasesOf(list) = f[N]
  BY DEF WithPhrasesOf
<1>. HIDE DEF N, V, after, step
<1>7. PICK g : IsRun(g, N, V, phrases, step)
  BY <1>1, <1>3, <1>5, Recursion
<1>8. \A n \in 1 .. N : g[n] = after(g[n - 1], n)
  <2>. TAKE n \in 1 .. N
  <2>1. n - 1 \in 0 .. N
    BY <1>1
  <2>2. g[n - 1] \in V
    BY <1>7, <2>1 DEF IsRun
  <2>. QED
    BY <1>4, <1>7, <2>2 DEF IsRun
<1>9. g = [n \in 0 .. N |-> IF n = 0 THEN phrases ELSE after(g[n - 1], n)]
  <2>. DEFINE h == [n \in 0 .. N |-> IF n = 0 THEN phrases ELSE after(g[n - 1], n)]
  <2>1. \A n \in 0 .. N : n # 0 => n \in 1 .. N
    BY <1>1
  <2>2. \A n \in 0 .. N : g[n] = h[n]
    BY <1>7, <1>8, <2>1 DEF IsRun
  <2>3. DOMAIN g = 0 .. N /\ DOMAIN h = 0 .. N /\ g = [n \in 0 .. N |-> g[n]]
    BY <1>7 DEF IsRun
  <2>. QED
    BY <2>2, <2>3
<1>10. f = [n \in 0 .. N |-> IF n = 0 THEN phrases ELSE after(f[n - 1], n)]
  BY <1>9
<1>11. f[0] = phrases /\ \A n \in 1 .. N : f[n] = after(f[n - 1], n)
  <2>. HIDE DEF f
  <2>1. \A n \in 1 .. N : n \in 0 .. N /\ n # 0
    BY <1>1
  <2>2. 0 \in 0 .. N
    BY <1>1
  <2>. QED
    BY <1>10, <2>1, <2>2
<1>. HIDE DEF f
<1>. DEFINE S == { n \in 0 .. N : /\ f[n] \in V
                                  /\ \A p : Contains(phrases, p) => Contains(f[n], p)
                                  /\ \A j \in 1 .. n : Contains(f[n], list[j].phrase) }
<1>12. 0 \in S
  BY <1>1, <1>5, <1>11
<1>13. ASSUME NEW n \in 1 .. N, n - 1 \in S
       PROVE  n \in S
  <2>1. \A j \in 1 .. n : j = n \/ j \in 1 .. (n - 1)
    OBVIOUS
  <2>2. /\ f[n] \in V
        /\ Contains(f[n], list[n].phrase)
        /\ \A p : Contains(f[n - 1], p) => Contains(f[n], p)
    <3>1. f[n - 1] \in V /\ f[n] = after(f[n - 1], n)
      BY <1>11, <1>13
    <3>. QED
      BY <1>2, <3>1
  <2>3. \A j \in 1 .. n : Contains(f[n], list[j].phrase)
    BY <1>13, <2>1, <2>2
  <2>4. \A p : Contains(phrases, p) => Contains(f[n], p)
    BY <1>13, <2>2
  <2>. QED
    BY <1>1, <2>2, <2>3, <2>4
<1>14. N \in S
  <2>1. 0 .. N \subseteq S
    <3>. HIDE DEF S
    <3>. QED
      BY <1>1, <1>12, <1>13, Induction
  <2>. HIDE DEF S
  <2>. QED
    BY <1>1, <2>1
<1>15. \A j \in 1 .. Len(list) : j \in 1 .. N
  BY DEF N
<1>. QED
  BY <1>6, <1>14, <1>15 DEF V

-----------------------------------------------------------------------------
(* Looking for a predecessor *)

\* hmm_pos_node_t
Nodes == [phrase : Phrases, wt : Int, score : Int, back : Nat, hasBack : BOOLEAN]

\* The score of a node n reached from place j of the column c before it, by
\* the transitions w.
Via(w, c, j, n) == c[j].score + w[<<c[j].phrase, n.phrase>>] + n.wt

\* n has looked at the places D of c: it has the best and earliest of them.
Looked(w, c, D, n) ==
  IF D = {} THEN ~n.hasBack
  ELSE /\ n.hasBack /\ n.back \in D /\ n.score = Via(w, c, n.back, n)
       /\ \A j \in D : /\ Via(w, c, j, n) <= n.score
                       /\ Via(w, c, j, n) = n.score => n.back <= j

Scored == \A p \in Phrases, q \in Phrases \cup {"SF"} : wp[<<p, q>>] \in Int

\* What is known of the places of a column and of a node that looks at them.
LEMMA ViaIsNumber ==
  ASSUME Scored, NEW c \in Seq(Nodes), NEW n \in Nodes
  PROVE  /\ Len(c) \in Nat
         /\ \A j \in 1 .. Len(c) : /\ c[j] \in Nodes /\ c[j].score \in Int
                                   /\ c[j].phrase \in Phrases /\ Via(wp, c, j, n) \in Int
<1>1. Len(c) \in Nat /\ \A j \in 1 .. Len(c) : c[j] \in Nodes
  OBVIOUS
<1>2. \A e \in Nodes : e.score \in Int /\ e.phrase \in Phrases /\ e.wt \in Int
  BY DEF Nodes
<1>3. ASSUME NEW j \in 1 .. Len(c)
      PROVE  Via(wp, c, j, n) \in Int
  <2>1. c[j].score \in Int /\ c[j].phrase \in Phrases /\ n.phrase \in Phrases /\ n.wt \in Int
    BY <1>1, <1>2
  <2>2. wp[<<c[j].phrase, n.phrase>>] \in Int
    BY <2>1 DEF Scored
  <2>. QED
    BY <2>1, <2>2 DEF Via
<1>. QED
  BY <1>1, <1>2, <1>3

\* The candidate of a phrase a node looks at (group_back) is one of that
\* phrase, and for every node the best and earliest of them to come from.
LEMMA GroupBackIs ==
  ASSUME Scored, NEW i, Column(i) \in Seq(Nodes), NEW n \in Nodes, NEW p, Present(i, p)
  PROVE  /\ GroupBack(i, p) \in 1 .. Len(Column(i))
         /\ Column(i)[GroupBack(i, p)].phrase = p
         /\ \A j \in 1 .. Len(Column(i)) : Column(i)[j].phrase = p =>
               /\ Via(wp, Column(i), j, n) <= Via(wp, Column(i), GroupBack(i, p), n)
               /\ Via(wp, Column(i), j, n) = Via(wp, Column(i), GroupBack(i, p), n)
                     => GroupBack(i, p) <= j
<1>. DEFINE c == Column(i)
            G == { j \in 1 .. Len(c) : c[j].phrase = p }
            f == [j \in 1 .. Len(c) |-> c[j].score]
            b == GroupBack(i, p)
<1>0. c \in Seq(Nodes)
  OBVIOUS
<1>1. G \subseteq 1 .. Len(c) /\ G # {}
  BY DEF Present
<1>2. b = EarliestTop(G, f)
  <2>1. \A j \in G : f[j] = c[j].score
    OBVIOUS
  <2>2. b = Min({ j \in G : \A o \in G : c[o].score <= c[j].score })
    BY DEF GroupBack
  <2>. HIDE DEF G, f, b
  <2>3. { j \in G : \A o \in G : c[o].score <= c[j].score }
          = { j \in G : \A o \in G : f[o] <= f[j] }
    BY <2>1
  <2>. QED
    BY <2>2, <2>3 DEF EarliestTop
<1>3. \A j \in 1 .. Len(c) : j \in G <=> c[j].phrase = p
  OBVIOUS
<1>4. \A j \in 1 .. Len(c) : f[j] = c[j].score
  OBVIOUS
<1>. HIDE DEF c, G, f, b
<1>5. /\ Len(c) \in Nat
      /\ \A j \in 1 .. Len(c) : /\ c[j].score \in Int /\ c[j].phrase \in Phrases
                                /\ Via(wp, c, j, n) \in Int
  BY <1>0, ViaIsNumber
<1>6. b \in G /\ \A j \in G : f[j] <= f[b] /\ (f[j] = f[b] => b <= j)
  BY <1>1, <1>2, <1>4, <1>5, EarliestTopIs
<1>7. ASSUME NEW j \in 1 .. Len(c), c[j].phrase = p
      PROVE  Via(wp, c, j, n) <= Via(wp, c, b, n) /\ (Via(wp, c, j, n) = Via(wp, c, b, n) => b <= j)
  <2>1. b \in 1 .. Len(c) /\ c[b].phrase = p
    BY <1>1, <1>3, <1>6
  <2>2. c[j].score <= c[b].score /\ (c[j].score = c[b].score => b <= j)
    BY <1>3, <1>4, <1>6, <1>7, <2>1
  <2>3. p \in Phrases /\ n.phrase \in Phrases /\ n.wt \in Int
    <3>1. \A e \in Nodes : e.phrase \in Phrases /\ e.wt \in Int
      BY DEF Nodes
    <3>. QED
      BY <1>5, <1>7, <3>1
  <2>4. wp[<<p, n.phrase>>] \in Int
    BY <2>3 DEF Scored
  <2>5. c[j].score \in Int /\ c[b].score \in Int
    BY <1>5, <2>1
  <2>. QED
    BY <1>7, <2>1, <2>2, <2>3, <2>4, <2>5 DEF Via
<1>8. b \in 1 .. Len(c) /\ c[b].phrase = p
  BY <1>1, <1>3, <1>6
<1>. QED
  BY <1>7, <1>8 DEF b, c

\* Looking at the candidate of one phrase more is looking at all that have it.
LEMMA BetterLooks ==
  ASSUME Scored, NEW i, Column(i) \in Seq(Nodes), NEW n \in Nodes, NEW p \in Phrases,
         NEW D, D \subseteq 1 .. Len(Column(i)), Looked(wp, Column(i), D, n)
  PROVE  /\ Better(i, n, p) \in Nodes
         /\ Better(i, n, p).phrase = n.phrase /\ Better(i, n, p).wt = n.wt
         /\ Looked(wp, Column(i), D \cup { j \in 1 .. Len(Column(i)) : Column(i)[j].phrase = p },
                   Better(i, n, p))
<1>. DEFINE c == Column(i)
            G == { j \in 1 .. Len(c) : c[j].phrase = p }
            m == Better(i, n, p)
            b == GroupBack(i, p)
            s == Via(wp, c, b, n)
<1>0. c \in Seq(Nodes) /\ D \subseteq 1 .. Len(c) /\ Looked(wp, c, D, n)
  OBVIOUS
<1>1. \A j \in 1 .. Len(c) : j \in G <=> c[j].phrase = p
  OBVIOUS
<1>2. CASE ~Present(i, p)
  <2>1. G = {} /\ m = n
    BY <1>2 DEF Present, Better
  <2>2. D \cup G = D
    BY <2>1
  <2>. HIDE DEF G, m
  <2>. QED
    BY <1>0, <2>1, <2>2 DEF G, m
<1>3. CASE Present(i, p)
  <2>1. /\ b \in 1 .. Len(c) /\ c[b].phrase = p
        /\ \A j \in 1 .. Len(c) : c[j].phrase = p =>
              /\ Via(wp, c, j, n) <= s
              /\ Via(wp, c, j, n) = s => b <= j
    BY <1>3, GroupBackIs
  <2>2. m = IF ~n.hasBack \/ s > n.score \/ (s = n.score /\ b < n.back)
            THEN [n EXCEPT !.score = s, !.back = b, !.hasBack = TRUE] ELSE n
    <3>1. s = c[b].score + wp[<<p, n.phrase>>] + n.wt
      BY <2>1 DEF Via
    <3>. QED
      BY <1>3, <3>1 DEF Better
  <2>3. G \subseteq 1 .. Len(c)
    OBVIOUS
  <2>. HIDE DEF c, G, m, b, s
  <2>4. Len(c) \in Nat /\ \A j \in 1 .. Len(c) : Via(wp, c, j, n) \in Int
    BY <1>0, ViaIsNumber
  <2>5. s \in Int
    BY <2>1, <2>4 DEF s
  <2>6. b \in G
    BY <1>1, <2>1
  <2>7. \A j \in G : Via(wp, c, j, n) <= s /\ (Via(wp, c, j, n) = s => b <= j)
    BY <1>1, <2>1, <2>3
  <2>8. n.score \in Int /\ n.back \in Nat
    BY DEF Nodes
  <2>9. \A e : e.phrase = n.phrase /\ e.wt = n.wt => \A j : Via(wp, c, j, e) = Via(wp, c, j, n)
    BY DEF Via
  <2>10. CASE ~n.hasBack \/ s > n.score \/ (s = n.score /\ b < n.back)
    <3>1. /\ m \in Nodes /\ m.phrase = n.phrase /\ m.wt = n.wt
          /\ m.score = s /\ m.back = b /\ m.hasBack
      <4>1. b \in Nat
        BY <2>1
      <4>2. m = [n EXCEPT !.score = s, !.back = b, !.hasBack = TRUE]
        BY <2>2, <2>10
      <4>. QED
        BY <2>5, <4>1, <4>2 DEF Nodes
    <3>2. \A j \in D : Via(wp, c, j, n) <= s /\ (Via(wp, c, j, n) = s => b <= j)
      <4>1. CASE D = {}
        BY <4>1
      <4>2. CASE D # {}
        <5>1. /\ n.hasBack /\ n.back \in D
              /\ \A j \in D : /\ Via(wp, c, j, n) <= n.score
                              /\ Via(wp, c, j, n) = n.score => n.back <= j
          BY <1>0, <4>2 DEF Looked
        <5>2. \A j \in D : j \in Nat /\ Via(wp, c, j, n) \in Int
          BY <1>0, <2>4
        <5>3. b \in Nat
          BY <2>1
        <5>. QED
          BY <2>5, <2>8, <2>10, <5>1, <5>2, <5>3
      <4>. QED
        BY <4>1, <4>2
    <3>3. D \cup G # {} /\ b \in D \cup G
      BY <2>6
    <3>4. \A j : Via(wp, c, j, m) = Via(wp, c, j, n)
      BY <2>9, <3>1
    <3>5. Looked(wp, c, D \cup G, m)
      BY <2>7, <3>1, <3>2, <3>3, <3>4 DEF Looked, s
    <3>. QED
      BY <3>1, <3>5 DEF m, c, G
  <2>11. CASE ~(~n.hasBack \/ s > n.score \/ (s = n.score /\ b < n.back))
    <3>1. m = n
      BY <2>2, <2>11
    <3>2. D # {} /\ n.hasBack /\ n.back \in D /\ n.score = Via(wp, c, n.back, n)
          /\ \A j \in D : Via(wp, c, j, n) <= n.score /\ (Via(wp, c, j, n) = n.score => n.back <= j)
      BY <1>0, <2>11 DEF Looked
    <3>3. \A j \in G : Via(wp, c, j, n) <= n.score /\ (Via(wp, c, j, n) = n.score => n.back <= j)
      <4>1. s <= n.score /\ (s = n.score => n.back <= b)
        <5>1. b \in Nat
          BY <2>1
        <5>. QED
          BY <2>5, <2>8, <2>11, <5>1
      <4>2. \A j \in G : j \in Nat /\ Via(wp, c, j, n) \in Int
        BY <2>3, <2>4
      <4>3. b \in Nat
        BY <2>1
      <4>. QED
        BY <2>5, <2>7, <2>8, <4>1, <4>2, <4>3
    <3>4. Looked(wp, c, D \cup G, n)
      BY <3>2, <3>3 DEF Looked
    <3>. QED
      BY <3>1, <3>4 DEF m, c, G
  <2>. QED
    BY <2>10, <2>11
<1>. QED
  BY <1>2, <1>3

\* A node that has looked at the candidates of all the phrases has looked at
\* every candidate of the column.
LEMMA StepLooks ==
  ASSUME Scored, phrases \in Seq(Phrases), NEW i, Column(i) \in Seq(Nodes),
         \A j \in 1 .. Len(Column(i)) : Contains(phrases, Column(i)[j].phrase),
         NEW node \in Nodes, ~node.hasBack
  PROVE  /\ Step(i, node) \in Nodes
         /\ Step(i, node).phrase = node.phrase /\ Step(i, node).wt = node.wt
         /\ Looked(wp, Column(i), 1 .. Len(Column(i)), Step(i, node))
<1>. DEFINE N == Len(phrases)
            c == Column(i)
            of(P) == { j \in 1 .. Len(c) : c[j].phrase \in P }
            seen(m) == { phrases[k] : k \in 1 .. m }
            step == [x \in Nodes \X (1 .. N) |-> Better(i, x[1], phrases[x[2]])]
            f == CHOOSE f : f = [m \in 0 .. N |-> IF m = 0 THEN node
                                                  ELSE Better(i, f[m - 1], phrases[m])]
<1>1. N \in Nat /\ \A m \in 1 .. N : phrases[m] \in Phrases
  OBVIOUS
<1>2. Step(i, node) = f[N]
  BY DEF Step
<1>3. IsStep(step, N, Nodes)
  <2>1. \A n \in Nodes, m \in 1 .. N : Better(i, n, phrases[m]) \in Nodes
    <3>. TAKE n \in Nodes, m \in 1 .. N
    <3>1. CASE ~Present(i, phrases[m])
      BY <3>1 DEF Better
    <3>2. CASE Present(i, phrases[m])
      <4>1. /\ GroupBack(i, phrases[m]) \in 1 .. Len(Column(i))
            /\ Column(i)[GroupBack(i, phrases[m])].phrase = phrases[m]
        BY <3>2, GroupBackIs
      <4>2. Via(wp, Column(i), GroupBack(i, phrases[m]), n) \in Int
        BY <4>1, ViaIsNumber
      <4>. DEFINE b == GroupBack(i, phrases[m])
                  s == Via(wp, Column(i), b, n)
      <4>3. s = Column(i)[b].score + wp[<<phrases[m], n.phrase>>] + n.wt
        BY <4>1 DEF Via
      <4>4. \/ Better(i, n, phrases[m]) = n
            \/ Better(i, n, phrases[m]) = [n EXCEPT !.score = s, !.back = b, !.hasBack = TRUE]
        BY <4>3 DEF Better
      <4>5. b \in Nat
        BY <4>1
      <4>. HIDE DEF b, s
      <4>6. s \in Int
        BY <4>2 DEF s, b
      <4>. QED
        BY <4>4, <4>5, <4>6 DEF Nodes
    <3>. QED
      BY <3>1, <3>2
  <2>. HIDE DEF N
  <2>. QED
    BY <2>1 DEF IsStep
<1>4. \A n \in Nodes, m \in 1 .. N : step[<<n, m>>] = Better(i, n, phrases[m])
  <2>. HIDE DEF N
  <2>. QED
    OBVIOUS
<1>. HIDE DEF N, step
<1>5. PICK g : IsRun(g, N, Nodes, node, step)
  BY <1>1, <1>3, Recursion
<1>6. \A m \in 1 .. N : g[m] = Better(i, g[m - 1], phrases[m])
  <2>. TAKE m \in 1 .. N
  <2>1. m - 1 \in 0 .. N
    BY <1>1
  <2>2. g[m - 1] \in Nodes
    BY <1>5, <2>1 DEF IsRun
  <2>. QED
    BY <1>4, <1>5, <2>2 DEF IsRun
<1>7. g = [m \in 0 .. N |-> IF m = 0 THEN node ELSE Better(i, g[m - 1], phrases[m])]
  <2>. DEFINE h == [m \in 0 .. N |-> IF m = 0 THEN node ELSE Better(i, g[m - 1], phrases[m])]
  <2>1. \A m \in 0 .. N : m # 0 => m \in 1 .. N
    BY <1>1
  <2>2. \A m \in 0 .. N : g[m] = h[m]
    BY <1>5, <1>6, <2>1 DEF IsRun
  <2>3. DOMAIN g = 0 .. N /\ DOMAIN h = 0 .. N /\ g = [m \in 0 .. N |-> g[m]]
    BY <1>5 DEF IsRun
  <2>. QED
    BY <2>2, <2>3
<1>8. f = [m \in 0 .. N |-> IF m = 0 THEN node ELSE Better(i, f[m - 1], phrases[m])]
  BY <1>7
<1>9. f[0] = node /\ \A m \in 1 .. N : f[m] = Better(i, f[m - 1], phrases[m])
  <2>. HIDE DEF f
  <2>1. \A m \in 1 .. N : m \in 0 .. N /\ m # 0
    BY <1>1
  <2>2. 0 \in 0 .. N
    BY <1>1
  <2>. QED
    BY <1>8, <2>1, <2>2
<1>. HIDE DEF f
<1>. DEFINE S == { m \in 0 .. N : /\ f[m] \in Nodes
                                  /\ f[m].phrase = node.phrase /\ f[m].wt = node.wt
                                  /\ Looked(wp, c, of(seen(m)), f[m]) }
<1>10. 0 \in S
  <2>1. of(seen(0)) = {}
    OBVIOUS
  <2>2. Looked(wp, c, {}, node)
    BY DEF Looked
  <2>3. 0 \in 0 .. N
    BY <1>1
  <2>. HIDE DEF of, seen, c
  <2>. QED
    BY <1>9, <2>1, <2>2, <2>3
<1>11. ASSUME NEW m \in 1 .. N, m - 1 \in S
       PROVE  m \in S
  <2>. DEFINE D == of(seen(m - 1))
              G == { j \in 1 .. Len(Column(i)) : Column(i)[j].phrase = phrases[m] }
  <2>1. f[m - 1] \in Nodes /\ D \subseteq 1 .. Len(Column(i)) /\ Looked(wp, Column(i), D, f[m - 1])
    BY <1>11
  <2>2. of(seen(m)) = D \cup G
    <3>1. \A p : p \in seen(m) <=> (p \in seen(m - 1) \/ p = phrases[m])
      <4>1. \A k \in 1 .. m : k = m \/ k \in 1 .. (m - 1)
        OBVIOUS
      <4>2. \A k \in 1 .. (m - 1) : k \in 1 .. m
        OBVIOUS
      <4>3. m \in 1 .. m
        BY <1>1
      <4>. QED
        BY <4>1, <4>2, <4>3
    <3>. HIDE DEF seen
    <3>. QED
      BY <3>1
  <2>3. f[m] = Better(i, f[m - 1], phrases[m]) /\ phrases[m] \in Phrases
    BY <1>1, <1>9
  <2>. HIDE DEF D
  <2>4. /\ Better(i, f[m - 1], phrases[m]) \in Nodes
        /\ Better(i, f[m - 1], phrases[m]).phrase = f[m - 1].phrase
        /\ Better(i, f[m - 1], phrases[m]).wt = f[m - 1].wt
        /\ Looked(wp, Column(i), D \cup G, Better(i, f[m - 1], phrases[m]))
    BY <2>1, <2>3, BetterLooks
  <2>5. Looked(wp, c, of(seen(m)), f[m])
    BY <2>2, <2>3, <2>4
  <2>6. f[m - 1].phrase = node.phrase /\ f[m - 1].wt = node.wt
    BY <1>11
  <2>7. m \in 0 .. N
    BY <1>1
  <2>. HIDE DEF of, seen, c
  <2>. QED
    BY <2>3, <2>4, <2>5, <2>6, <2>7
<1>12. N \in S
  <2>1. 0 .. N \subseteq S
    <3>. HIDE DEF S
    <3>. QED
      BY <1>1, <1>10, <1>11, Induction
  <2>. HIDE DEF S
  <2>. QED
    BY <1>1, <2>1
<1>13. of(seen(N)) = 1 .. Len(c)
  <2>1. \A j \in 1 .. Len(c) : c[j].phrase \in seen(N)
    BY DEF Contains, N
  <2>. HIDE DEF seen
  <2>. QED
    BY <2>1
<1>14. Looked(wp, c, of(seen(N)), f[N])
  <2>. HIDE DEF of, seen
  <2>. QED
    BY <1>12
<1>15. f[N] \in Nodes /\ f[N].phrase = node.phrase /\ f[N].wt = node.wt
  <2>. HIDE DEF of, seen
  <2>. QED
    BY <1>12
<1>. QED
  BY <1>2, <1>13, <1>14, <1>15

-----------------------------------------------------------------------------
(* The invariant *)

Passing == at \in {"build", "forward", "back"}

TypeOK ==
  /\ sets \in Inputs /\ wp \in Transitions
  /\ at \in {"sentence", "build", "forward", "back", "done", "failed"}
  /\ start \in 1 .. Len(sets) + 1
  /\ phrases \in Seq(Phrases)
  /\ nodes \in Seq(Seq(Nodes))

\* A pass works on a sentence of columns that are not empty, and has built
\* those before the one it builds now.
InSentence ==
  Passing => /\ stop \in start .. Len(sets) /\ col \in start .. stop
             /\ at = "forward" => col < stop
             /\ \A i \in start .. stop : sets[i] # <<>>
             /\ Len(nodes) = IF at = "build" THEN col - start ELSE stop - start + 1

\* The nodes of a column are its candidates, each of a phrase in P.
ColumnOf(P, c, list) ==
  /\ Len(c) = Len(list)
  /\ \A j \in 1 .. Len(c) : /\ c[j].phrase = list[j].phrase /\ c[j].wt = list[j].wt
                            /\ Contains(P, c[j].phrase)

Built == Passing => \A m \in 1 .. Len(nodes) : ColumnOf(phrases, nodes[m], sets[start + m - 1])

\* How many columns have found their predecessors.
Finished == IF at = "build" THEN 1
            ELSE IF at = "forward" THEN col - start + 1 ELSE stop - start + 1

Linked ==
  Passing => \A m \in 1 .. Len(nodes) : \A k \in 1 .. Len(nodes[m]) :
    /\ m = 1 => nodes[m][k].score = nodes[m][k].wt
    /\ m > Finished => ~nodes[m][k].hasBack
    /\ m \in 2 .. Finished => Looked(wp, nodes[m - 1], 1 .. Len(nodes[m - 1]), nodes[m][k])

IInv == TypeOK /\ InSentence /\ Built /\ Linked

\* What the assumption says of the sets and the scores of this call.
LEMMA Given ==
  ASSUME sets \in Inputs, wp \in Transitions
  PROVE  /\ Scored
         /\ sets \in Seq(Seq(Candidates)) /\ Len(sets) \in Nat
         /\ \A i \in 1 .. Len(sets) : /\ sets[i] \in Seq(Candidates) /\ Len(sets[i]) \in Nat
                                      /\ \A j \in 1 .. Len(sets[i]) :
                                           /\ sets[i][j].phrase \in Phrases
                                           /\ sets[i][j].wt \in Int
<1>1. Scored
  BY TaggerAssumption DEF Scored
<1>2. sets \in Seq(Seq(Candidates)) /\ Len(sets) \in Nat
  BY TaggerAssumption
<1>3. \A i \in 1 .. Len(sets) : sets[i] \in Seq(Candidates)
  BY <1>2
<1>4. \A s \in Seq(Candidates) : Len(s) \in Nat /\ \A j \in 1 .. Len(s) : s[j] \in Candidates
  OBVIOUS
<1>5. \A e \in Candidates : e.phrase \in Phrases /\ e.wt \in Int
  BY DEF Candidates
<1>6. ASSUME NEW i \in 1 .. Len(sets)
      PROVE  /\ sets[i] \in Seq(Candidates) /\ Len(sets[i]) \in Nat
             /\ \A j \in 1 .. Len(sets[i]) : sets[i][j].phrase \in Phrases /\ sets[i][j].wt \in Int
  BY <1>3, <1>4, <1>5
<1>. QED
  BY <1>1, <1>2, <1>6

\* Before the first sentence no pass is going.
LEMMA InitInv == Init => IInv
<1>. SUFFICES ASSUME Init PROVE IInv
  OBVIOUS
<1>1. Len(sets) \in Nat /\ ~Passing
  BY Given DEF Init, Passing
<1>2. TypeOK
  BY <1>1 DEF Init, TypeOK
<1>. QED
  BY <1>1, <1>2 DEF IInv, InSentence, Built, Linked

\* A sentence begins with no column built.
LEMMA FindSentenceKeeps ==
  ASSUME IInv, FindSentence
  PROVE  IInv'
<1>. DEFINE ends == { i \in start .. Len(sets) : Stops(sets[i]) }
            last == IF ends = {} THEN Len(sets) ELSE Min(ends)
<1>1. /\ at = "sentence" /\ start <= Len(sets) /\ stop' = last
      /\ at' = IF \E i \in start .. last : sets[i] = <<>> THEN "failed" ELSE "build"
      /\ col' = start /\ phrases' = <<>> /\ nodes' = <<>>
      /\ UNCHANGED <<sets, wp, start, selected>>
  BY DEF FindSentence
<1>2. Len(sets) \in Nat /\ start \in 1 .. Len(sets)
  BY <1>1, Given DEF IInv, TypeOK
<1>3. last \in start .. Len(sets)
  <2>1. CASE ends = {}
    BY <1>2, <2>1
  <2>2. CASE ends # {}
    <3>1. ends \subseteq Nat /\ ends \subseteq start .. Len(sets)
      BY <1>2
    <3>. HIDE DEF ends
    <3>2. Min(ends) \in ends
      BY <2>2, <3>1, LeastNumber
    <3>. QED
      BY <2>2, <3>1, <3>2
  <2>. QED
    BY <2>1, <2>2
<1>. HIDE DEF last
<1>4. TypeOK'
  <2>1. <<>> \in Seq(Phrases) /\ <<>> \in Seq(Seq(Nodes))
    OBVIOUS
  <2>. QED
    BY <1>1, <2>1 DEF IInv, TypeOK
<1>5. Len(nodes') = 0 /\ at' \in {"failed", "build"}
  BY <1>1
<1>6. InSentence'
  BY <1>1, <1>2, <1>3, <1>5 DEF InSentence, Passing
<1>7. Built' /\ Linked'
  BY <1>5 DEF Built, Linked
<1>. QED
  BY <1>4, <1>6, <1>7 DEF IInv

\* The place a column gets and what it is there.
LEMMA BuildColumnKeeps ==
  ASSUME IInv, BuildColumn
  PROVE  IInv'
<1>. DEFINE list == sets[col]
            fresh == [j \in 1 .. Len(list) |->
                        [phrase |-> list[j].phrase, wt |-> list[j].wt,
                         score |-> IF col = start THEN list[j].wt ELSE 0,
                         back |-> 1, hasBack |-> FALSE]]
            L == Len(nodes)
<1>1. /\ at = "build" /\ phrases' = WithPhrasesOf(list) /\ nodes' = Append(nodes, fresh)
      /\ \/ col < stop /\ col' = col + 1 /\ at' = "build"
         \/ ~(col < stop) /\ col' = start /\ at' = IF start = stop THEN "back" ELSE "forward"
      /\ UNCHANGED <<sets, wp, start, stop, selected>>
  BY DEF BuildColumn
<1>2. /\ start \in 1 .. Len(sets) + 1 /\ stop \in start .. Len(sets) /\ col \in start .. stop
      /\ Len(sets) \in Nat /\ L = col - start /\ L \in Nat
      /\ \A i \in start .. stop : sets[i] # <<>>
  BY <1>1, Given DEF IInv, TypeOK, InSentence, Passing
<1>3. /\ col \in 1 .. Len(sets) /\ list \in Seq(Candidates)
      /\ \A j \in 1 .. Len(list) : list[j].phrase \in Phrases /\ list[j].wt \in Int
  <2>1. col \in 1 .. Len(sets)
    BY <1>2
  <2>. QED
    BY <2>1, Given DEF IInv, TypeOK
<1>4. /\ phrases' \in Seq(Phrases)
      /\ \A p : Contains(phrases, p) => Contains(phrases', p)
      /\ \A j \in 1 .. Len(list) : Contains(phrases', list[j].phrase)
  <2>1. phrases \in Seq(Phrases)
    BY DEF IInv, TypeOK
  <2>. HIDE DEF list
  <2>. QED
    BY <1>1, <1>3, <2>1, PhrasesKnown
<1>5. /\ fresh \in Seq(Nodes) /\ Len(fresh) = Len(list)
      /\ \A j \in 1 .. Len(list) :
           /\ fresh[j].phrase = list[j].phrase /\ fresh[j].wt = list[j].wt
           /\ col = start => fresh[j].score = fresh[j].wt
           /\ ~fresh[j].hasBack
  <2>1. Len(list) \in Nat
    BY <1>3
  <2>2. \A j \in 1 .. Len(list) : fresh[j] \in Nodes
    BY <1>3 DEF Nodes
  <2>3. \A j \in 1 .. Len(list) :
           /\ fresh[j].phrase = list[j].phrase /\ fresh[j].wt = list[j].wt
           /\ col = start => fresh[j].score = fresh[j].wt
           /\ ~fresh[j].hasBack
    OBVIOUS
  <2>4. DOMAIN fresh = 1 .. Len(list)
    OBVIOUS
  <2>5. fresh = [j \in 1 .. Len(list) |-> fresh[j]]
    OBVIOUS
  <2>. HIDE DEF fresh, list
  <2>6. fresh \in [1 .. Len(list) -> Nodes]
    BY <2>2, <2>5
  <2>. QED
    BY <2>1, <2>3, <2>4, <2>6
<1>. HIDE DEF fresh, list
<1>6. /\ nodes' \in Seq(Seq(Nodes)) /\ Len(nodes') = L + 1
      /\ \A m \in 1 .. L : nodes'[m] = nodes[m]
      /\ nodes'[L + 1] = fresh
  <2>1. nodes \in Seq(Seq(Nodes))
    BY DEF IInv, TypeOK
  <2>. QED
    BY <1>1, <1>5, <2>1
<1>. HIDE DEF L
<1>7. TypeOK'
  BY <1>1, <1>4, <1>6 DEF IInv, TypeOK
<1>8. InSentence'
  BY <1>1, <1>2, <1>6 DEF InSentence, Passing
<1>9. ASSUME NEW m \in 1 .. L + 1
      PROVE  ColumnOf(phrases', nodes'[m], sets[start + m - 1])
  <2>1. CASE m \in 1 .. L
    <3>1. ColumnOf(phrases, nodes[m], sets[start + m - 1])
      BY <1>1, <2>1 DEF IInv, Built, Passing, L
    <3>2. nodes'[m] = nodes[m]
      BY <1>6, <2>1
    <3>. QED
      BY <1>4, <3>1, <3>2 DEF ColumnOf
  <2>2. CASE m = L + 1
    <3>1. start + m - 1 = col
      BY <1>2, <2>2
    <3>2. nodes'[m] = fresh /\ sets[start + m - 1] = list
      BY <1>6, <2>2, <3>1 DEF list
    <3>. QED
      BY <1>4, <1>5, <3>2 DEF ColumnOf
  <2>. QED
    BY <1>2, <2>1, <2>2
<1>10. Finished' = 1
  BY <1>1, <1>2 DEF Finished
<1>11. ASSUME NEW m \in 1 .. L + 1, NEW k \in 1 .. Len(nodes'[m])
       PROVE  /\ m = 1 => nodes'[m][k].score = nodes'[m][k].wt
              /\ m > 1 => ~nodes'[m][k].hasBack
              /\ m \notin 2 .. 1
  <2>1. CASE m \in 1 .. L
    <3>1. nodes'[m] = nodes[m] /\ Finished = 1
      BY <1>1, <1>6, <2>1 DEF Finished
    <3>. QED
      BY <1>1, <2>1, <3>1 DEF IInv, Linked, Passing, L
  <2>2. CASE m = L + 1
    <3>1. nodes'[m] = fresh /\ k \in 1 .. Len(list)
      BY <1>5, <1>6, <2>2
    <3>2. m = 1 => col = start
      BY <1>2, <2>2
    <3>. QED
      BY <1>5, <3>1, <3>2
  <2>. QED
    BY <1>2, <2>1, <2>2
<1>12. Built'
  BY <1>1, <1>6, <1>9 DEF Built
<1>13. Linked'
  BY <1>6, <1>10, <1>11 DEF Linked
<1>. QED
  BY <1>7, <1>8, <1>12, <1>13 DEF IInv

\* A column finds its predecessors in the one before it, which has found its
\* own.
LEMMA ForwardColumnKeeps ==
  ASSUME IInv, ForwardColumn
  PROVE  IInv'
<1>. DEFINE m == col - start + 2
            linked == [k \in 1 .. Len(nodes[m]) |-> Step(col, nodes[m][k])]
<1>1. /\ at = "forward" /\ nodes' = [nodes EXCEPT ![m] = linked]
      /\ \/ col + 1 < stop /\ col' = col + 1 /\ at' = "forward"
         \/ ~(col + 1 < stop) /\ col' = stop /\ at' = "back"
      /\ UNCHANGED <<sets, wp, start, stop, phrases, selected>>
  BY DEF ForwardColumn
<1>2. /\ start \in 1 .. Len(sets) + 1 /\ stop \in start .. Len(sets) /\ col \in start .. stop
      /\ col < stop /\ Len(sets) \in Nat /\ Len(nodes) = stop - start + 1
      /\ \A i \in start .. stop : sets[i] # <<>>
  BY <1>1, Given DEF IInv, TypeOK, InSentence, Passing
<1>3. m \in 2 .. Len(nodes) /\ m - 1 \in 1 .. Len(nodes) /\ Column(col) = nodes[m - 1]
  BY <1>2 DEF Column
<1>4. Finished = m - 1 /\ Finished' = m
  BY <1>1, <1>2 DEF Finished
<1>. HIDE DEF m
<1>5. nodes[m] \in Seq(Nodes) /\ nodes[m - 1] \in Seq(Nodes) /\ m \in 1 .. Len(nodes)
  <2>1. nodes \in Seq(Seq(Nodes))
    BY DEF IInv, TypeOK
  <2>2. m \in 1 .. Len(nodes)
    BY <1>2, <1>3
  <2>. QED
    BY <1>3, <2>1, <2>2
<1>6. \A n \in 1 .. Len(nodes) : /\ ColumnOf(phrases, nodes[n], sets[start + n - 1])
                                 /\ n = 1 => \A k \in 1 .. Len(nodes[n]) :
                                               nodes[n][k].score = nodes[n][k].wt
                                 /\ n > m - 1 => \A k \in 1 .. Len(nodes[n]) : ~nodes[n][k].hasBack
                                 /\ n \in 2 .. (m - 1) =>
                                      \A k \in 1 .. Len(nodes[n]) :
                                        Looked(wp, nodes[n - 1], 1 .. Len(nodes[n - 1]),
                                               nodes[n][k])
  BY <1>1, <1>4 DEF IInv, Built, Linked, Passing
<1>7. ASSUME NEW k \in 1 .. Len(nodes[m])
      PROVE  /\ linked[k] \in Nodes
             /\ linked[k].phrase = nodes[m][k].phrase /\ linked[k].wt = nodes[m][k].wt
             /\ Looked(wp, nodes[m - 1], 1 .. Len(nodes[m - 1]), linked[k])
  <2>1. Scored /\ phrases \in Seq(Phrases)
    BY Given DEF IInv, TypeOK
  <2>2. Column(col) \in Seq(Nodes)
    BY <1>3, <1>5
  <2>3. \A j \in 1 .. Len(Column(col)) : Contains(phrases, Column(col)[j].phrase)
    BY <1>3, <1>6 DEF ColumnOf
  <2>4. nodes[m][k] \in Nodes
    BY <1>5
  <2>5. ~nodes[m][k].hasBack
    <3>1. m > m - 1
      BY <1>3
    <3>. QED
      BY <1>5, <1>6, <3>1
  <2>6. linked[k] = Step(col, nodes[m][k])
    OBVIOUS
  <2>. HIDE DEF linked
  <2>7. /\ Step(col, nodes[m][k]) \in Nodes
        /\ Step(col, nodes[m][k]).phrase = nodes[m][k].phrase
        /\ Step(col, nodes[m][k]).wt = nodes[m][k].wt
        /\ Looked(wp, Column(col), 1 .. Len(Column(col)), Step(col, nodes[m][k]))
    BY <2>1, <2>2, <2>3, <2>4, <2>5, StepLooks
  <2>. QED
    BY <1>3, <2>6, <2>7
<1>8. linked \in Seq(Nodes) /\ Len(linked) = Len(nodes[m])
  <2>1. Len(nodes[m]) \in Nat
    BY <1>5
  <2>2. DOMAIN linked = 1 .. Len(nodes[m]) /\ linked = [k \in 1 .. Len(nodes[m]) |-> linked[k]]
    OBVIOUS
  <2>. HIDE DEF linked
  <2>3. linked \in [1 .. Len(nodes[m]) -> Nodes]
    BY <1>7, <2>2
  <2>. QED
    BY <2>1, <2>2, <2>3
<1>. HIDE DEF linked
<1>9. /\ nodes' \in Seq(Seq(Nodes)) /\ Len(nodes') = Len(nodes)
      /\ nodes'[m] = linked
      /\ \A n \in 1 .. Len(nodes) : n # m => nodes'[n] = nodes[n]
  <2>1. nodes \in Seq(Seq(Nodes))
    BY DEF IInv, TypeOK
  <2>. QED
    BY <1>1, <1>5, <1>8, <2>1
<1>10. TypeOK'
  BY <1>1, <1>9 DEF IInv, TypeOK
<1>11. InSentence'
  BY <1>1, <1>2, <1>9 DEF InSentence, Passing
<1>12. Built'
  <2>1. ASSUME NEW n \in 1 .. Len(nodes)
        PROVE  ColumnOf(phrases, nodes'[n], sets[start + n - 1])
    <3>1. ColumnOf(phrases, nodes[n], sets[start + n - 1])
      BY <1>6
    <3>2. CASE n # m
      BY <1>9, <3>1, <3>2
    <3>3. CASE n = m
      BY <1>7, <1>8, <1>9, <3>1, <3>3 DEF ColumnOf
    <3>. QED
      BY <3>2, <3>3
  <2>. QED
    BY <1>1, <1>9, <2>1 DEF Built
<1>13. ASSUME NEW n \in 1 .. Len(nodes), NEW k \in 1 .. Len(nodes'[n])
       PROVE  /\ n = 1 => nodes'[n][k].score = nodes'[n][k].wt
              /\ n > m => ~nodes'[n][k].hasBack
              /\ n \in 2 .. m => Looked(wp, nodes'[n - 1], 1 .. Len(nodes'[n - 1]), nodes'[n][k])
  <2>1. CASE n = m
    <3>1. m - 1 # m /\ m # 1 /\ ~(m > m) /\ m - 1 \in 1 .. Len(nodes)
      BY <1>3
    <3>2. nodes'[n] = linked /\ nodes'[n - 1] = nodes[m - 1] /\ k \in 1 .. Len(nodes[m])
      BY <1>8, <1>9, <2>1, <3>1
    <3>. QED
      BY <1>7, <2>1, <3>1, <3>2
  <2>2. CASE n # m
    <3>1. nodes'[n] = nodes[n]
      BY <1>9, <2>2
    <3>2. n > m => n > m - 1
      BY <1>3
    <3>3. n \in 2 .. m => /\ n \in 2 .. (m - 1) /\ n - 1 # m /\ n - 1 \in 1 .. Len(nodes)
                          /\ nodes'[n - 1] = nodes[n - 1]
      <4>1. n \in 2 .. m => n \in 2 .. (m - 1) /\ n - 1 # m /\ n - 1 \in 1 .. Len(nodes)
        BY <1>3, <2>2
      <4>. QED
        BY <1>9, <4>1
    <3>. QED
      BY <1>6, <3>1, <3>2, <3>3
  <2>. QED
    BY <2>1, <2>2
<1>14. Linked'
  BY <1>1, <1>4, <1>9, <1>13 DEF Linked
<1>. QED
  BY <1>10, <1>11, <1>12, <1>14 DEF IInv

\* The walk back, an interrupt, a failure and the end leave no pass going.
LEMMA LeavingKeeps ==
  ASSUME IInv, TooManyPhrases \/ Interrupted \/ BackTrack \/ Finish
  PROVE  IInv'
<1>1. at' \in {"sentence", "done", "failed"} /\ UNCHANGED <<sets, wp, phrases, nodes>>
  BY DEF TooManyPhrases, Interrupted, BackTrack, Finish
<1>2. start' \in 1 .. Len(sets) + 1
  <2>1. CASE UNCHANGED start
    BY <2>1 DEF IInv, TypeOK
  <2>2. CASE BackTrack
    <3>1. at = "back" /\ start' = stop + 1
      BY <2>2 DEF BackTrack
    <3>2. stop \in start .. Len(sets) /\ start \in 1 .. Len(sets) + 1 /\ Len(sets) \in Nat
      BY <3>1, Given DEF IInv, InSentence, TypeOK, Passing
    <3>. QED
      BY <3>1, <3>2
  <2>. QED
    BY <2>1, <2>2 DEF TooManyPhrases, Interrupted, Finish
<1>3. TypeOK'
  BY <1>1, <1>2 DEF IInv, TypeOK
<1>. QED
  BY <1>1, <1>3 DEF IInv, InSentence, Built, Linked, Passing

\* Every step keeps the invariant.
LEMMA NextKeeps == IInv /\ [Next]_vars => IInv'
<1>. SUFFICES ASSUME IInv, [Next]_vars PROVE IInv'
  OBVIOUS
<1>1. CASE FindSentence
  BY <1>1, FindSentenceKeeps
<1>2. CASE BuildColumn
  BY <1>2, BuildColumnKeeps
<1>3. CASE ForwardColumn
  BY <1>3, ForwardColumnKeeps
<1>4. CASE TooManyPhrases \/ Interrupted \/ BackTrack \/ Finish
  BY <1>4, LeavingKeeps
<1>5. CASE UNCHANGED vars
  <2>1. UNCHANGED <<sets, wp, at, start, stop, col, phrases, nodes>>
    BY <1>5 DEF vars
  <2>2. TypeOK' /\ InSentence'
    BY <2>1 DEF IInv, TypeOK, InSentence, Passing
  <2>3. Built'
    BY <2>1 DEF IInv, Built, ColumnOf, Passing
  <2>4. Linked'
    BY <2>1 DEF IInv, Linked, Passing, Finished
  <2>. QED
    BY <2>2, <2>3, <2>4 DEF IInv
<1>. QED
  BY <1>1, <1>2, <1>3, <1>4, <1>5 DEF Next

\* Every state has the invariant.
LEMMA Inductive == Spec => []IInv
<1>1. Init => IInv
  BY InitInv
<1>2. IInv /\ [Next]_vars => IInv'
  BY NextKeeps
<1>. QED
  BY <1>1, <1>2, PTL DEF Spec

\* What is in a set of numbers and above all of it is its maximum.
LEMMA IsMax ==
  ASSUME NEW S, NEW x \in S, S \subseteq Int, \A y \in S : y <= x
  PROVE  Max(S) = x
<1>1. \A z \in S : (\A y \in S : z >= y) => z = x
  <2>. TAKE z \in S
  <2>1. x \in Int /\ z \in Int /\ z <= x
    OBVIOUS
  <2>. QED
    BY <2>1
<1>2. \A y \in S : x >= y
  <2>. TAKE y \in S
  <2>1. x \in Int /\ y \in Int /\ y <= x
    OBVIOUS
  <2>. QED
    BY <2>1
<1>. QED
  BY <1>1, <1>2 DEF Max

\* What is in a set of numbers and below all of it is its minimum.
LEMMA IsMin ==
  ASSUME NEW S, NEW x \in S, S \subseteq Int, \A y \in S : x <= y
  PROVE  Min(S) = x
<1>1. \A z \in S : (\A y \in S : z <= y) => z = x
  <2>. TAKE z \in S
  <2>1. x \in Int /\ z \in Int /\ x <= z
    OBVIOUS
  <2>. QED
    BY <2>1
<1>. QED
  BY <1>1 DEF Min

\* select_best_ex: one candidate per phrase is enough.  Every node of a
\* finished column has the score of the best of all its predecessors, and the
\* earliest of those that give it.
THEOREM OnePerPhraseIsEnough == Spec => []GroupingLosesNothing
<1>1. IInv => GroupingLosesNothing
  <2>. SUFFICES ASSUME IInv, at \in {"forward", "back"},
                       NEW i \in start .. (IF at = "back" THEN stop - 1 ELSE col - 1),
                       NEW k \in 1 .. Len(Column(i + 1))
                PROVE  LET n      == Column(i + 1)[k]
                           via(j) == Column(i)[j].score
                                       + wp[<<Column(i)[j].phrase, n.phrase>>] + n.wt
                           all    == 1 .. Len(Column(i))
                       IN  /\ n.score = Max({ via(j) : j \in all })
                           /\ n.back = Min({ j \in all : via(j) = n.score })
    BY DEF GroupingLosesNothing
  <2>. DEFINE m   == i - start + 2
              c   == Column(i)
              n   == Column(i + 1)[k]
              all == 1 .. Len(c)
              scores == { Via(wp, c, j, n) : j \in all }
              tops   == { j \in all : Via(wp, c, j, n) = n.score }
  <2>1. /\ start \in 1 .. Len(sets) + 1 /\ stop \in start .. Len(sets) /\ col \in start .. stop
        /\ Len(sets) \in Nat /\ Len(nodes) = stop - start + 1
        /\ at = "forward" => col < stop
        /\ \A s \in start .. stop : sets[s] # <<>>
    BY Given DEF IInv, TypeOK, InSentence, Passing
  <2>2. /\ m \in 2 .. Finished /\ m \in 1 .. Len(nodes) /\ m - 1 \in 1 .. Len(nodes)
        /\ i \in start .. stop /\ i = start + (m - 1) - 1
    BY <2>1 DEF Finished
  <2>3. c = nodes[m - 1] /\ Column(i + 1) = nodes[m]
    <3>1. (i + 1) - start + 1 = m /\ i - start + 1 = m - 1
      BY <2>1, <2>2
    <3>. QED
      BY <3>1 DEF Column
  <2>. HIDE DEF m
  <2>4. c \in Seq(Nodes) /\ n \in Nodes
    <3>1. nodes \in Seq(Seq(Nodes))
      BY DEF IInv, TypeOK
    <3>2. nodes[m] \in Seq(Nodes) /\ nodes[m - 1] \in Seq(Nodes)
      BY <2>2, <3>1
    <3>3. n = nodes[m][k] /\ k \in 1 .. Len(nodes[m])
      BY <2>3
    <3>. QED
      BY <2>3, <3>2, <3>3
  <2>5. Looked(wp, c, all, n)
    BY <2>2, <2>3 DEF IInv, Linked, Passing
  <2>6. all # {}
    <3>1. Len(c) = Len(sets[i]) /\ sets[i] # <<>> /\ sets[i] \in Seq(Candidates)
      <4>1. ColumnOf(phrases, nodes[m - 1], sets[start + (m - 1) - 1])
        BY <2>2 DEF IInv, Built, Passing
      <4>2. i \in 1 .. Len(sets)
        BY <2>1, <2>2
      <4>3. sets[i] \in Seq(Candidates)
        BY <4>2, Given DEF IInv, TypeOK
      <4>. QED
        BY <2>1, <2>2, <2>3, <4>1, <4>3 DEF ColumnOf
    <3>2. Len(c) \in Nat /\ Len(c) # 0
      BY <3>1
    <3>. QED
      BY <3>2
  <2>7. scores = { c[j].score + wp[<<c[j].phrase, n.phrase>>] + n.wt : j \in all }
    BY DEF Via
  <2>8. tops = { j \in all : c[j].score + wp[<<c[j].phrase, n.phrase>>] + n.wt = n.score }
    BY DEF Via
  <2>9. all \subseteq Int
    BY <2>4
  <2>. HIDE DEF c, n, all
  <2>10. \A j \in all : Via(wp, c, j, n) \in Int
    <3>1. Scored
      BY Given DEF IInv, TypeOK
    <3>. QED
      BY <2>4, <3>1, ViaIsNumber DEF all
  <2>11. /\ n.back \in all /\ n.score = Via(wp, c, n.back, n)
         /\ \A j \in all : /\ Via(wp, c, j, n) <= n.score
                           /\ Via(wp, c, j, n) = n.score => n.back <= j
    BY <2>5, <2>6 DEF Looked
  <2>12. n.score \in scores /\ scores \subseteq Int /\ \A y \in scores : y <= n.score
    BY <2>10, <2>11
  <2>13. n.back \in tops /\ tops \subseteq Int /\ \A y \in tops : n.back <= y
    BY <2>9, <2>11
  <2>. HIDE DEF scores, tops
  <2>14. n.score = Max(scores)
    BY <2>12, IsMax
  <2>15. n.back = Min(tops)
    BY <2>13, IsMin
  <2>. QED
    BY <2>7, <2>8, <2>14, <2>15 DEF c, n, all
<1>. QED
  BY <1>1, Inductive, PTL

-----------------------------------------------------------------------------
(* What BestTagging promises, of candidate sets S and transitions w *)

Of(S, w) == INSTANCE BestTagging WITH sets <- S, wp <- w, outcome <- "busy", choice <- <<>>

\* A sequence of one is known by its element.
LEMMA IsSingle ==
  ASSUME NEW P, NEW x, NEW t \in Seq(P)
  PROVE  t = <<x>> <=> Len(t) = 1 /\ t[1] = x
<1>1. t = <<x>> => Len(t) = 1 /\ t[1] = x
  OBVIOUS
<1>2. ASSUME Len(t) = 1, t[1] = x PROVE t = <<x>>
  <2>1. x \in P
    BY <1>2
  <2>. QED
    BY <1>2, <2>1
<1>. QED
  BY <1>1, <1>2

\* Both say alike where a sentence ends and when its last word is settled.
LEMMA SameEnds ==
  ASSUME NEW S, NEW w, NEW list \in Seq(Candidates)
  PROVE  /\ Stops(list) <=> Of(S, w)!EndsSentence(list)
         /\ FirstHasFinal(list) <=> Of(S, w)!CarriesFinal(list)
<1>1. Len(list) \in Nat /\ \A j \in 1 .. Len(list) : list[j] \in Candidates
  OBVIOUS
<1>2. \A e \in Candidates : e.tags \in Seq(STRING)
  BY DEF Candidates
<1>3. ASSUME NEW t \in Seq(STRING)
      PROVE  /\ t # <<>> /\ ToSet(t) = {"sf"} <=> t # <<>> /\ \A k \in 1 .. Len(t) : t[k] = "sf"
             /\ "sf" \in ToSet(t) <=> \E k \in 1 .. Len(t) : t[k] = "sf"
             /\ t = <<"sf">> <=> Len(t) = 1 /\ t[1] = "sf"
  <2>1. Len(t) \in Nat /\ DOMAIN t = 1 .. Len(t) /\ (t # <<>> <=> Len(t) # 0)
    OBVIOUS
  <2>2. ToSet(t) = { t[k] : k \in 1 .. Len(t) }
    BY <2>1 DEF ToSet
  <2>3. t # <<>> => 1 \in 1 .. Len(t)
    BY <2>1
  <2>4. t # <<>> /\ ToSet(t) = {"sf"} <=> t # <<>> /\ \A k \in 1 .. Len(t) : t[k] = "sf"
    BY <2>2, <2>3
  <2>5. t = <<"sf">> <=> Len(t) = 1 /\ t[1] = "sf"
    BY IsSingle
  <2>. QED
    BY <2>2, <2>4, <2>5
<1>4. list # <<>> <=> Len(list) # 0
  OBVIOUS
<1>5. list # <<>> => 1 \in 1 .. Len(list)
  BY <1>1, <1>4
<1>6. AllSentenceFinal(list) <=> list # <<>> /\ \A j \in 1 .. Len(list) : Of(S, w)!IsSf(list[j])
  BY <1>1, <1>2, <1>3 DEF AllSentenceFinal, Of!IsSf
<1>7. FirstIsSingleFinal(list)
        <=> list # <<>> /\ Of(S, w)!IsSf(list[1]) /\ Len(list[1].tags) = 1
  <2>1. list # <<>> => list[1].tags \in Seq(STRING)
    BY <1>1, <1>2, <1>5
  <2>2. \A t \in Seq(STRING) : Len(t) = 1 => t # <<>>
    <3>1. Len(<<>>) # 1
      OBVIOUS
    <3>. QED
      BY <3>1, Zenon
  <2>3. \A t \in Seq(STRING) : Len(t) = 1 => \A k \in 1 .. Len(t) : k = 1
    OBVIOUS
  <2>4. \A t \in Seq(STRING) : Len(t) = 1 => 1 \in 1 .. Len(t)
    OBVIOUS
  <2>. QED
    BY <1>3, <2>1, <2>2, <2>3, <2>4 DEF FirstIsSingleFinal, Of!IsSf
<1>8. FirstHasFinal(list) <=> Of(S, w)!CarriesFinal(list)
  <2>1. list # <<>> => list[1].tags \in Seq(STRING)
    BY <1>1, <1>2, <1>5
  <2>. QED
    BY <1>3, <2>1 DEF FirstHasFinal, Of!CarriesFinal
<1>9. Stops(list) <=> Of(S, w)!EndsSentence(list)
  BY <1>6, <1>7 DEF Stops, Of!EndsSentence
<1>. QED
  BY <1>8, <1>9

\* Induction from one number up to another.
LEMMA Upwards ==
  ASSUME NEW a \in Int, NEW b \in Int, a <= b, NEW T, a \in T,
         \A i \in (a + 1) .. b : i - 1 \in T => i \in T
  PROVE  a .. b \subseteq T
<1>. DEFINE R == { k \in 0 .. (b - a) : a + k \in T }
<1>1. b - a \in Nat /\ 0 \in R
  <2>1. b - a \in Nat /\ a + 0 = a
    OBVIOUS
  <2>. QED
    BY <2>1
<1>2. ASSUME NEW k \in 1 .. (b - a), k - 1 \in R PROVE k \in R
  <2>1. a + k \in (a + 1) .. b /\ (a + k) - 1 = a + (k - 1) /\ k \in 0 .. (b - a)
    BY <1>1
  <2>. QED
    BY <1>2, <2>1
<1>3. 0 .. (b - a) \subseteq R
  <2>. HIDE DEF R
  <2>. QED
    BY <1>1, <1>2, Induction
<1>4. ASSUME NEW i \in a .. b PROVE i \in T
  <2>1. i - a \in 0 .. (b - a) /\ a + (i - a) = i
    OBVIOUS
  <2>. QED
    BY <1>3, <2>1
<1>. QED
  BY <1>4

\* The same downwards.
LEMMA Downwards ==
  ASSUME NEW a \in Int, NEW b \in Int, a <= b, NEW T, b \in T,
         \A i \in a .. (b - 1) : i + 1 \in T => i \in T
  PROVE  a .. b \subseteq T
<1>. DEFINE R == { k \in 0 .. (b - a) : b - k \in T }
<1>1. b - a \in Nat /\ 0 \in R
  <2>1. b - a \in Nat /\ b - 0 = b
    OBVIOUS
  <2>. QED
    BY <2>1
<1>2. ASSUME NEW k \in 1 .. (b - a), k - 1 \in R PROVE k \in R
  <2>1. b - k \in a .. (b - 1) /\ (b - k) + 1 = b - (k - 1) /\ k \in 0 .. (b - a)
    BY <1>1
  <2>. QED
    BY <1>2, <2>1
<1>3. 0 .. (b - a) \subseteq R
  <2>. HIDE DEF R
  <2>. QED
    BY <1>1, <1>2, Induction
<1>4. ASSUME NEW i \in a .. b PROVE i \in T
  <2>1. b - i \in 0 .. (b - a) /\ b - (b - i) = i
    OBVIOUS
  <2>. QED
    BY <1>3, <2>1
<1>. QED
  BY <1>4

IsRangeStep(step, a, b, V) == step \in [V \X ((a + 1) .. b) -> V]
IsRangeRun(f, a, b, V, base, step) ==
  f \in [a .. b -> V] /\ f[a] = base /\ \A i \in (a + 1) .. b : f[i] = step[<<f[i - 1], i>>]

\* What is defined by recursion from one number up to another exists.
LEMMA RangeRecursion ==
  ASSUME NEW a \in Int, NEW b \in Int, a <= b, NEW V, NEW base \in V,
         NEW step, IsRangeStep(step, a, b, V)
  PROVE  \E f : IsRangeRun(f, a, b, V, base, step)
<1>. DEFINE N == b - a
            shifted == [x \in V \X (1 .. N) |-> step[<<x[1], a + x[2]>>]]
<1>1. N \in Nat /\ \A k \in 1 .. N : a + k \in (a + 1) .. b
  OBVIOUS
<1>2. \A v \in V, k \in 1 .. N : /\ step[<<v, a + k>>] \in V
                                 /\ shifted[<<v, k>>] = step[<<v, a + k>>]
  <2>. HIDE DEF N
  <2>1. \A v \in V, i \in (a + 1) .. b : step[<<v, i>>] \in V
    BY DEF IsRangeStep
  <2>. QED
    BY <1>1, <2>1
<1>3. IsStep(shifted, N, V)
  <2>. HIDE DEF N
  <2>. QED
    BY <1>1, <1>2 DEF IsStep
<1>. HIDE DEF shifted
<1>4. PICK g : IsRun(g, N, V, base, shifted)
  <2>. HIDE DEF N
  <2>. QED
    BY <1>1, <1>3, Recursion
<1>5. /\ g \in [0 .. N -> V] /\ g[0] = base
      /\ \A k \in 1 .. N : g[k] = shifted[<<g[k - 1], k>>]
  BY <1>4 DEF IsRun
<1>. DEFINE f == [i \in a .. b |-> g[i - a]]
<1>6. \A i \in a .. b : i - a \in 0 .. N
  OBVIOUS
<1>7. f \in [a .. b -> V]
  BY <1>5, <1>6
<1>8. f[a] = base
  <2>1. a \in a .. b /\ a - a = 0
    OBVIOUS
  <2>. QED
    BY <1>5, <2>1
<1>9. ASSUME NEW i \in (a + 1) .. b
      PROVE  f[i] = step[<<f[i - 1], i>>]
  <2>1. /\ i \in a .. b /\ i - 1 \in a .. b /\ i - a \in 1 .. N
        /\ (i - 1) - a = (i - a) - 1 /\ a + (i - a) = i /\ (i - a) - 1 \in 0 .. N
    OBVIOUS
  <2>2. f[i] = g[i - a] /\ f[i - 1] = g[(i - a) - 1]
    BY <2>1
  <2>3. g[(i - a) - 1] \in V
    BY <1>5, <2>1
  <2>. HIDE DEF f, N
  <2>4. g[i - a] = shifted[<<g[(i - a) - 1], i - a>>]
    BY <1>5, <2>1
  <2>5. shifted[<<g[(i - a) - 1], i - a>>] = step[<<g[(i - a) - 1], a + (i - a)>>]
    BY <1>2, <2>1, <2>3
  <2>. QED
    BY <2>1, <2>2, <2>4, <2>5
<1>. HIDE DEF f
<1>. QED
  BY <1>7, <1>8, <1>9 DEF IsRangeRun

\* The words on a choice's way have numbers for scores, and so do its steps.
HasNumbers(S, w, s, c) ==
  /\ s[1] \in Int /\ s[2] \in Int /\ s[1] <= s[2]
  /\ \A i \in s[1] .. s[2] : S[i][c[i]].wt \in Int
  /\ \A i \in (s[1] + 1) .. s[2] : w[<<S[i - 1][c[i - 1]].phrase, S[i][c[i]].phrase>>] \in Int

\* u has what a choice scores up to each word.
Grows(S, w, s, c, u) ==
  /\ u \in [s[1] .. s[2] -> Int]
  /\ u[s[1]] = S[s[1]][c[s[1]]].wt
  /\ \A i \in (s[1] + 1) .. s[2] :
       u[i] = S[i][c[i]].wt + (u[i - 1] + w[<<S[i - 1][c[i - 1]].phrase, S[i][c[i]].phrase>>])

\* The score of a choice grows word by word.
LEMMA ScoreGrows ==
  ASSUME NEW S, NEW w, NEW s, NEW c, HasNumbers(S, w, s, c)
  PROVE  \E u : /\ Grows(S, w, s, c, u)
                /\ Of(S, w)!Score(s, c)
                     = u[s[2]] + IF Of(S, w)!Pinned(s) THEN 0
                                 ELSE w[<<S[s[2]][c[s[2]]].phrase, "SF">>]
<1>. DEFINE a == s[1]
            b == s[2]
            wt(i) == S[i][c[i]].wt
            by(i) == w[<<S[i - 1][c[i - 1]].phrase, S[i][c[i]].phrase>>]
            step == [x \in Int \X ((a + 1) .. b) |-> wt(x[2]) + (x[1] + by(x[2]))]
            g == CHOOSE g : g = [i \in a .. b |-> wt(i) + IF i = a THEN 0 ELSE g[i - 1] + by(i)]
<1>0. Of(S, w)!Score(s, c) = g[b] + IF Of(S, w)!Pinned(s) THEN 0 ELSE w[<<S[b][c[b]].phrase, "SF">>]
  BY DEF Of!Score, Of!Chosen
<1>1. a \in Int /\ b \in Int /\ a <= b /\ \A i \in a .. b : wt(i) \in Int
  BY DEF HasNumbers
<1>2. \A i \in (a + 1) .. b : by(i) \in Int
  BY DEF HasNumbers
<1>. HIDE DEF a, b, wt, by
<1>3. \A v \in Int, i \in (a + 1) .. b : /\ wt(i) + (v + by(i)) \in Int
                                         /\ step[<<v, i>>] = wt(i) + (v + by(i))
  <2>1. \A i \in (a + 1) .. b : wt(i) \in Int
    BY <1>1
  <2>. QED
    BY <1>2, <2>1
<1>4. step \in [Int \X ((a + 1) .. b) -> Int]
  BY <1>3
<1>. HIDE DEF step
<1>5. a \in a .. b
  BY <1>1
<1>6. PICK u \in [a .. b -> Int] : /\ u[a] = wt(a)
                                   /\ \A i \in (a + 1) .. b : u[i] = step[<<u[i - 1], i>>]
  <2>1. wt(a) \in Int
    BY <1>1, <1>5
  <2>. QED
    <3>. DEFINE V == Int
                base == wt(a)
    <3>1. base \in V /\ a \in Int /\ b \in Int /\ a <= b /\ IsRangeStep(step, a, b, V)
      BY <1>1, <1>4, <2>1 DEF IsRangeStep
    <3>. HIDE DEF base, V
    <3>2. PICK f : IsRangeRun(f, a, b, V, base, step)
      BY <3>1, RangeRecursion
    <3>. QED
      BY <3>2 DEF IsRangeRun, base, V
<1>7. \A i \in (a + 1) .. b : u[i] = wt(i) + (u[i - 1] + by(i))
  <2>. TAKE i \in (a + 1) .. b
  <2>1. i - 1 \in a .. b
    BY <1>1
  <2>2. u[i - 1] \in Int
    BY <2>1
  <2>. QED
    BY <1>3, <1>6, <2>2
<1>8. u = [i \in a .. b |-> wt(i) + IF i = a THEN 0 ELSE u[i - 1] + by(i)]
  <2>. DEFINE h == [i \in a .. b |-> wt(i) + IF i = a THEN 0 ELSE u[i - 1] + by(i)]
  <2>1. \A i \in a .. b : i # a => i \in (a + 1) .. b
    BY <1>1
  <2>2. wt(a) + 0 = wt(a)
    BY <1>1, <1>5
  <2>3. \A i \in a .. b : u[i] = h[i]
    BY <1>6, <1>7, <2>1, <2>2
  <2>4. DOMAIN u = a .. b /\ DOMAIN h = a .. b /\ u = [i \in a .. b |-> u[i]]
    OBVIOUS
  <2>. QED
    BY <2>3, <2>4
<1>9. \A v : v = [i \in a .. b |-> wt(i) + IF i = a THEN 0 ELSE v[i - 1] + by(i)]
              => v[a] = wt(a) /\ \A i \in (a + 1) .. b : v[i] = wt(i) + (v[i - 1] + by(i))
  <2>. SUFFICES ASSUME NEW v,
                       v = [i \in a .. b |-> wt(i) + IF i = a THEN 0 ELSE v[i - 1] + by(i)]
                PROVE  v[a] = wt(a) /\ \A i \in (a + 1) .. b : v[i] = wt(i) + (v[i - 1] + by(i))
    OBVIOUS
  <2>1. \A i \in (a + 1) .. b : i \in a .. b /\ i # a
    BY <1>1
  <2>2. wt(a) + 0 = wt(a)
    BY <1>1, <1>5
  <2>. QED
    BY <1>5, <2>1, <2>2
<1>10. g = [i \in a .. b |-> wt(i) + IF i = a THEN 0 ELSE g[i - 1] + by(i)]
  BY <1>8
<1>. HIDE DEF g
<1>11. g[a] = wt(a) /\ \A i \in (a + 1) .. b : g[i] = wt(i) + (g[i - 1] + by(i))
  BY <1>9, <1>10
<1>12. \A i \in a .. b : g[i] \in Int
  <2>. DEFINE T == { i \in a .. b : g[i] \in Int }
  <2>1. a \in T
    BY <1>1, <1>5, <1>11
  <2>2. ASSUME NEW i \in (a + 1) .. b, i - 1 \in T PROVE i \in T
    <3>1. i \in a .. b /\ wt(i) \in Int /\ by(i) \in Int
      <4>1. i \in a .. b
        BY <1>1
      <4>. QED
        BY <1>1, <1>2, <4>1
    <3>. QED
      BY <1>11, <2>2, <3>1
  <2>3. a .. b \subseteq T
    <3>. HIDE DEF T
    <3>. QED
      BY <1>1, <2>1, <2>2, Upwards
  <2>. QED
    BY <2>3
<1>13. g \in [a .. b -> Int]
  <2>1. DOMAIN g = a .. b /\ g = [i \in a .. b |-> g[i]]
    BY <1>10
  <2>. QED
    BY <1>12, <2>1
<1>. QED
  BY <1>0, <1>11, <1>13 DEF a, b, wt, by, Grows

-----------------------------------------------------------------------------
(* A best choice, from the scores of a finished pass *)

\* The sentence s of S has candidates and scores that the pass can add up.
Addable(S, w, s) ==
  /\ s[1] \in Int /\ s[2] \in Int /\ s[1] <= s[2]
  /\ \A i \in s[1] .. s[2] : /\ Len(S[i]) \in Nat
                             /\ \A j \in 1 .. Len(S[i]) :
                                  S[i][j].phrase \in Phrases /\ S[i][j].wt \in Int
  /\ \A p \in Phrases, q \in Phrases \cup {"SF"} : w[<<p, q>>] \in Int

\* Reaching place k of column i from place j of the one before it.
From(S, w, v, i, j, k) ==
  v[<<i - 1, j>>] + w[<<S[i - 1][j].phrase, S[i][k].phrase>>] + S[i][k].wt

\* v has the highest score of a way to each place of s, and back the place it
\* comes from.
Highest(S, w, s, v, back) ==
  /\ \A i \in s[1] .. s[2] : \A k \in 1 .. Len(S[i]) : v[<<i, k>>] \in Int
  /\ \A k \in 1 .. Len(S[s[1]]) : v[<<s[1], k>>] = S[s[1]][k].wt
  /\ \A i \in (s[1] + 1) .. s[2] : \A k \in 1 .. Len(S[i]) :
       /\ back[<<i, k>>] \in 1 .. Len(S[i - 1])
       /\ v[<<i, k>>] = From(S, w, v, i, back[<<i, k>>], k)
       /\ \A j \in 1 .. Len(S[i - 1]) : From(S, w, v, i, j, k) <= v[<<i, k>>]

\* c follows the places back from the best one at the end of the sentence.
Walked(S, w, s, v, back, c) ==
  /\ DOMAIN c = s[1] .. s[2]
  /\ c = [i \in s[1] .. s[2] |-> c[i]]
  /\ \A i \in s[1] .. s[2] : c[i] \in 1 .. Len(S[i])
  /\ \A i \in (s[1] + 1) .. s[2] : c[i - 1] = back[<<i, c[i]>>]
  /\ IF Of(S, w)!Pinned(s) THEN c[s[2]] = 1
     ELSE \A j \in 1 .. Len(S[s[2]]) :
            v[<<s[2], j>>] + w[<<S[s[2]][j].phrase, "SF">>]
              <= v[<<s[2], c[s[2]]>>] + w[<<S[s[2]][c[s[2]]].phrase, "SF">>]

\* What is known of a choice: its places and the numbers on its way.
LEMMA OnTheWay ==
  ASSUME NEW S, NEW w, NEW s, Addable(S, w, s), NEW v, NEW back, Highest(S, w, s, v, back),
         NEW d, \A i \in s[1] .. s[2] : d[i] \in 1 .. Len(S[i])
  PROVE  /\ \A i \in s[1] .. s[2] : S[i][d[i]].wt \in Int /\ v[<<i, d[i]>>] \in Int
         /\ \A i \in (s[1] + 1) .. s[2] :
              w[<<S[i - 1][d[i - 1]].phrase, S[i][d[i]].phrase>>] \in Int
         /\ w[<<S[s[2]][d[s[2]]].phrase, "SF">>] \in Int
         /\ s[1] \in s[1] .. s[2] /\ s[2] \in s[1] .. s[2]
         /\ \A i \in (s[1] + 1) .. s[2] : i \in s[1] .. s[2] /\ i - 1 \in s[1] .. s[2]
<1>1. /\ s[1] \in s[1] .. s[2] /\ s[2] \in s[1] .. s[2]
      /\ \A i \in (s[1] + 1) .. s[2] : i \in s[1] .. s[2] /\ i - 1 \in s[1] .. s[2]
  BY DEF Addable
<1>2. \A i \in s[1] .. s[2] : /\ S[i][d[i]].wt \in Int /\ S[i][d[i]].phrase \in Phrases
                              /\ v[<<i, d[i]>>] \in Int
  BY DEF Addable, Highest
<1>3. \A i \in (s[1] + 1) .. s[2] : w[<<S[i - 1][d[i - 1]].phrase, S[i][d[i]].phrase>>] \in Int
  BY <1>1, <1>2 DEF Addable
<1>4. w[<<S[s[2]][d[s[2]]].phrase, "SF">>] \in Int
  BY <1>1, <1>2 DEF Addable
<1>. QED
  BY <1>1, <1>2, <1>3, <1>4

\* No choice gets further than the pass says, and a walk back gets that far.
LEMMA NoFurther ==
  ASSUME NEW S, NEW w, NEW s, Addable(S, w, s), NEW v, NEW back, Highest(S, w, s, v, back),
         NEW d, \A i \in s[1] .. s[2] : d[i] \in 1 .. Len(S[i]),
         NEW u, Grows(S, w, s, d, u)
  PROVE  /\ u[s[2]] <= v[<<s[2], d[s[2]]>>]
         /\ (\A i \in (s[1] + 1) .. s[2] : d[i - 1] = back[<<i, d[i]>>])
              => u[s[2]] = v[<<s[2], d[s[2]]>>]
<1>. DEFINE T == { i \in s[1] .. s[2] : u[i] <= v[<<i, d[i]>>] }
            E == { i \in s[1] .. s[2] : u[i] = v[<<i, d[i]>>] }
<1>0. /\ u \in [s[1] .. s[2] -> Int] /\ u[s[1]] = S[s[1]][d[s[1]]].wt
      /\ \A i \in (s[1] + 1) .. s[2] :
           u[i] = S[i][d[i]].wt + (u[i - 1] + w[<<S[i - 1][d[i - 1]].phrase, S[i][d[i]].phrase>>])
  BY DEF Grows
<1>1. /\ \A i \in s[1] .. s[2] : S[i][d[i]].wt \in Int /\ v[<<i, d[i]>>] \in Int
      /\ \A i \in (s[1] + 1) .. s[2] :
           w[<<S[i - 1][d[i - 1]].phrase, S[i][d[i]].phrase>>] \in Int
      /\ s[1] \in s[1] .. s[2] /\ s[2] \in s[1] .. s[2]
      /\ \A i \in (s[1] + 1) .. s[2] : i \in s[1] .. s[2] /\ i - 1 \in s[1] .. s[2]
  BY OnTheWay
<1>2. s[1] \in Int /\ s[2] \in Int /\ s[1] <= s[2]
  BY DEF Addable
<1>3. s[1] \in E /\ s[1] \in T
  <2>1. u[s[1]] = v[<<s[1], d[s[1]]>>]
    BY <1>0, <1>1 DEF Highest
  <2>2. u[s[1]] \in Int /\ s[1] \in s[1] .. s[2]
    BY <1>0, <1>1
  <2>3. u[s[1]] <= v[<<s[1], d[s[1]]>>]
    BY <2>1, <2>2
  <2>. QED
    BY <2>1, <2>2, <2>3
<1>4. ASSUME NEW i \in (s[1] + 1) .. s[2]
      PROVE  /\ From(S, w, v, i, d[i - 1], d[i]) <= v[<<i, d[i]>>]
             /\ d[i - 1] = back[<<i, d[i]>>] => From(S, w, v, i, d[i - 1], d[i]) = v[<<i, d[i]>>]
             /\ u[i - 1] <= v[<<i - 1, d[i - 1]>>] => u[i] <= From(S, w, v, i, d[i - 1], d[i])
             /\ u[i - 1] = v[<<i - 1, d[i - 1]>>] => u[i] = From(S, w, v, i, d[i - 1], d[i])
             /\ u[i] \in Int /\ From(S, w, v, i, d[i - 1], d[i]) \in Int
  <2>. DEFINE by == w[<<S[i - 1][d[i - 1]].phrase, S[i][d[i]].phrase>>]
              wt == S[i][d[i]].wt
              was == v[<<i - 1, d[i - 1]>>]
  <2>1. i \in s[1] .. s[2] /\ i - 1 \in s[1] .. s[2]
    BY <1>1
  <2>2. by \in Int /\ wt \in Int /\ was \in Int /\ u[i] \in Int /\ u[i - 1] \in Int
    BY <1>0, <1>1, <2>1
  <2>3. u[i] = wt + (u[i - 1] + by) /\ From(S, w, v, i, d[i - 1], d[i]) = was + by + wt
    BY <1>0 DEF From
  <2>. HIDE DEF by, wt, was
  <2>4. /\ u[i - 1] <= was => u[i] <= was + by + wt
        /\ u[i - 1] = was => u[i] = was + by + wt
        /\ was + by + wt \in Int
    BY <2>2, <2>3
  <2>5. /\ From(S, w, v, i, d[i - 1], d[i]) <= v[<<i, d[i]>>]
        /\ d[i - 1] = back[<<i, d[i]>>] => From(S, w, v, i, d[i - 1], d[i]) = v[<<i, d[i]>>]
    BY <2>1 DEF Highest
  <2>. QED
    BY <2>2, <2>3, <2>4, <2>5 DEF was
<1>5. ASSUME NEW i \in (s[1] + 1) .. s[2], i - 1 \in T
      PROVE  i \in T
  <2>. DEFINE from == From(S, w, v, i, d[i - 1], d[i])
              to   == v[<<i, d[i]>>]
  <2>1. u[i] <= from /\ from <= to /\ u[i] \in Int /\ from \in Int
    BY <1>4, <1>5
  <2>2. i \in s[1] .. s[2] /\ to \in Int
    BY <1>1
  <2>. HIDE DEF from
  <2>3. u[i] <= to
    BY <2>1, <2>2
  <2>. QED
    BY <2>2, <2>3
<1>6. u[s[2]] <= v[<<s[2], d[s[2]]>>]
  <2>1. s[1] .. s[2] \subseteq T
    <3>. HIDE DEF T
    <3>. QED
      BY <1>2, <1>3, <1>5, Upwards
  <2>. QED
    BY <1>1, <2>1
<1>7. ASSUME \A i \in (s[1] + 1) .. s[2] : d[i - 1] = back[<<i, d[i]>>]
      PROVE  u[s[2]] = v[<<s[2], d[s[2]]>>]
  <2>1. ASSUME NEW i \in (s[1] + 1) .. s[2], i - 1 \in E
        PROVE  i \in E
    <3>1. u[i] = From(S, w, v, i, d[i - 1], d[i])
      BY <1>4, <2>1
    <3>2. From(S, w, v, i, d[i - 1], d[i]) = v[<<i, d[i]>>]
      BY <1>4, <1>7
    <3>. QED
      BY <1>1, <3>1, <3>2
  <2>2. s[1] .. s[2] \subseteq E
    <3>. HIDE DEF E
    <3>. QED
      BY <1>2, <1>3, <2>1, Upwards
  <2>. QED
    BY <1>1, <2>2
<1>. QED
  BY <1>6, <1>7

\* The score of a choice is that of a way no better than the pass says.
LEMMA ScoreBound ==
  ASSUME NEW S, NEW w, NEW s, Addable(S, w, s), NEW v, NEW back, Highest(S, w, s, v, back),
         NEW d, \A i \in s[1] .. s[2] : d[i] \in 1 .. Len(S[i])
  PROVE  \E x \in Int :
           /\ Of(S, w)!Score(s, d)
                = x + IF Of(S, w)!Pinned(s) THEN 0 ELSE w[<<S[s[2]][d[s[2]]].phrase, "SF">>]
           /\ x <= v[<<s[2], d[s[2]]>>]
           /\ (\A i \in (s[1] + 1) .. s[2] : d[i - 1] = back[<<i, d[i]>>])
                => x = v[<<s[2], d[s[2]]>>]
<1>1. HasNumbers(S, w, s, d) /\ s[2] \in s[1] .. s[2]
  BY OnTheWay DEF HasNumbers, Addable
<1>2. PICK u : /\ Grows(S, w, s, d, u)
               /\ Of(S, w)!Score(s, d)
                    = u[s[2]] + IF Of(S, w)!Pinned(s) THEN 0
                                ELSE w[<<S[s[2]][d[s[2]]].phrase, "SF">>]
  BY <1>1, ScoreGrows
<1>3. /\ u[s[2]] <= v[<<s[2], d[s[2]]>>]
      /\ (\A i \in (s[1] + 1) .. s[2] : d[i - 1] = back[<<i, d[i]>>])
           => u[s[2]] = v[<<s[2], d[s[2]]>>]
  BY <1>2, NoFurther
<1>4. u[s[2]] \in Int
  BY <1>1, <1>2 DEF Grows
<1>. QED
  BY <1>2, <1>3, <1>4

\* The walk back is a choice, and no choice has a higher score.
LEMMA WalkIsBest ==
  ASSUME NEW S, NEW w, NEW s, Addable(S, w, s), NEW v, NEW back, Highest(S, w, s, v, back),
         NEW c, Walked(S, w, s, v, back, c)
  PROVE  c \in Of(S, w)!ChoicesOf(s) /\ Of(S, w)!Best(s, c)
<1>. DEFINE a == s[1]
            b == s[2]
            end(d) == w[<<S[b][d[b]].phrase, "SF">>]
            last(d) == IF Of(S, w)!Pinned(s) THEN 0 ELSE end(d)
<1>1. \A i \in a .. b : c[i] \in 1 .. Len(S[i])
  BY DEF Walked
<1>2. \A i \in a .. b : Len(S[i]) \in Nat
  BY DEF Addable
<1>3. c \in Of(S, w)!ChoicesOf(s)
  <2>1. c \in [a .. b -> UNION { 1 .. Len(S[i]) : i \in a .. b }]
    <3>1. \A i \in a .. b : c[i] \in UNION { 1 .. Len(S[j]) : j \in a .. b }
      BY <1>1
    <3>2. c = [i \in a .. b |-> c[i]]
      BY DEF Walked
    <3>. QED
      BY <3>1, <3>2
  <2>2. \A i \in a .. b : c[i] <= Len(S[i])
    BY <1>1, <1>2
  <2>. QED
    BY <2>1, <2>2 DEF Of!ChoicesOf, Walked
<1>4. ASSUME NEW d \in Of(S, w)!ChoicesOf(s)
      PROVE  \A i \in a .. b : d[i] \in 1 .. Len(S[i])
  <2>1. /\ d \in [a .. b -> UNION { 1 .. Len(S[i]) : i \in a .. b }]
        /\ \A i \in a .. b : d[i] <= Len(S[i])
    BY DEF Of!ChoicesOf
  <2>. TAKE i \in a .. b
  <2>2. d[i] \in UNION { 1 .. Len(S[n]) : n \in a .. b }
    BY <2>1
  <2>3. PICK n \in a .. b : d[i] \in 1 .. Len(S[n])
    BY <2>2
  <2>. QED
    BY <1>2, <2>1, <2>3
<1>5. PICK x \in Int : /\ Of(S, w)!Score(s, c) = x + last(c)
                      /\ x = v[<<b, c[b]>>]
  <2>1. \A i \in (a + 1) .. b : c[i - 1] = back[<<i, c[i]>>]
    BY DEF Walked
  <2>. QED
    BY <1>1, <2>1, ScoreBound
<1>6. ASSUME NEW d \in Of(S, w)!ChoicesOf(s)
      PROVE  Of(S, w)!Score(s, d) <= Of(S, w)!Score(s, c)
  <2>0. \A i \in a .. b : d[i] \in 1 .. Len(S[i])
    BY <1>4
  <2>1. PICK y \in Int : Of(S, w)!Score(s, d) = y + last(d) /\ y <= v[<<b, d[b]>>]
    BY <2>0, ScoreBound
  <2>3. b \in a .. b
    BY <1>1, OnTheWay
  <2>4. /\ end(d) \in Int /\ end(c) \in Int
        /\ v[<<b, d[b]>>] \in Int /\ v[<<b, c[b]>>] \in Int
    <3>1. v[<<b, d[b]>>] \in Int /\ end(d) \in Int
      BY <2>0, <2>3, OnTheWay
    <3>2. v[<<b, c[b]>>] \in Int /\ end(c) \in Int
      BY <1>1, <2>3, OnTheWay
    <3>. QED
      BY <2>3, <3>1, <3>2
  <2>5. CASE Of(S, w)!Pinned(s)
    <3>1. d[b] = 1 /\ c[b] = 1
      BY <2>5 DEF Of!ChoicesOf, Walked
    <3>2. last(d) = 0 /\ last(c) = 0
      BY <2>5
    <3>. QED
      BY <1>5, <2>1, <2>4, <3>1, <3>2
  <2>6. CASE ~Of(S, w)!Pinned(s)
    <3>1. v[<<b, d[b]>>] + end(d) <= v[<<b, c[b]>>] + end(c)
      BY <2>0, <2>3, <2>6 DEF Walked
    <3>2. last(d) = end(d) /\ last(c) = end(c)
      BY <2>6
    <3>. HIDE DEF end, last
    <3>. QED
      BY <1>5, <2>1, <2>4, <3>1, <3>2
  <2>. QED
    BY <2>5, <2>6
<1>. QED
  BY <1>3, <1>6 DEF Of!Best

-----------------------------------------------------------------------------
(* The walk back *)

\* The columns of a finished pass.
LEMMA FinishedColumns ==
  ASSUME IInv, at = "back"
  PROVE  /\ start \in 1 .. Len(sets) /\ stop \in start .. Len(sets) /\ Len(sets) \in Nat
         /\ \A i \in start .. stop :
              /\ Column(i) \in Seq(Nodes) /\ Len(Column(i)) \in Nat /\ Len(Column(i)) # 0
              /\ Len(Column(i)) = Len(sets[i])
              /\ \A k \in 1 .. Len(Column(i)) :
                   /\ Column(i)[k] \in Nodes
                   /\ Column(i)[k].phrase = sets[i][k].phrase /\ Column(i)[k].wt = sets[i][k].wt
         /\ \A k \in 1 .. Len(Column(start)) : Column(start)[k].score = Column(start)[k].wt
         /\ \A i \in (start + 1) .. stop : \A k \in 1 .. Len(Column(i)) :
              Looked(wp, Column(i - 1), 1 .. Len(Column(i - 1)), Column(i)[k])
<1>1. /\ start \in 1 .. Len(sets) /\ stop \in start .. Len(sets) /\ Len(sets) \in Nat
      /\ Len(nodes) = stop - start + 1 /\ \A i \in start .. stop : sets[i] # <<>>
  BY Given DEF IInv, TypeOK, InSentence, Passing
<1>2. nodes \in Seq(Seq(Nodes))
  BY DEF IInv, TypeOK
<1>3. ASSUME NEW i \in start .. stop
      PROVE  /\ Column(i) \in Seq(Nodes) /\ Len(Column(i)) \in Nat /\ Len(Column(i)) # 0
             /\ Len(Column(i)) = Len(sets[i])
             /\ \A k \in 1 .. Len(Column(i)) :
                  /\ Column(i)[k] \in Nodes
                  /\ Column(i)[k].phrase = sets[i][k].phrase /\ Column(i)[k].wt = sets[i][k].wt
  <2>1. /\ i - start + 1 \in 1 .. Len(nodes) /\ start + (i - start + 1) - 1 = i
        /\ i \in 1 .. Len(sets)
    BY <1>1
  <2>2. Column(i) = nodes[i - start + 1] /\ Column(i) \in Seq(Nodes)
    BY <1>2, <2>1 DEF Column
  <2>3. ColumnOf(phrases, Column(i), sets[i])
    <3>1. ColumnOf(phrases, nodes[i - start + 1], sets[start + (i - start + 1) - 1])
      BY <2>1 DEF IInv, Built, Passing
    <3>. QED
      BY <2>1, <2>2, <3>1
  <2>4. sets[i] # <<>> /\ sets[i] \in Seq(Candidates)
    BY <1>1, <2>1, Given DEF IInv, TypeOK
  <2>5. Len(sets[i]) \in Nat /\ Len(sets[i]) # 0
    BY <2>4
  <2>6. \A c \in Seq(Nodes) : \A k \in 1 .. Len(c) : c[k] \in Nodes
    OBVIOUS
  <2>. QED
    BY <2>2, <2>3, <2>5, <2>6 DEF ColumnOf
<1>4. ASSUME NEW k \in 1 .. Len(Column(start))
      PROVE  Column(start)[k].score = Column(start)[k].wt
  <2>1. start - start + 1 = 1 /\ 1 \in 1 .. Len(nodes)
    BY <1>1
  <2>2. Column(start) = nodes[1]
    BY <2>1 DEF Column
  <2>. QED
    BY <2>1, <2>2 DEF IInv, Linked, Passing
<1>5. ASSUME NEW i \in (start + 1) .. stop, NEW k \in 1 .. Len(Column(i))
      PROVE  Looked(wp, Column(i - 1), 1 .. Len(Column(i - 1)), Column(i)[k])
  <2>1. /\ i - start + 1 \in 2 .. Finished /\ i - start + 1 \in 1 .. Len(nodes)
        /\ (i - 1) - start + 1 = (i - start + 1) - 1
    BY <1>1 DEF Finished
  <2>2. Column(i) = nodes[i - start + 1] /\ Column(i - 1) = nodes[(i - start + 1) - 1]
    BY <2>1 DEF Column
  <2>. QED
    BY <2>1, <2>2 DEF IInv, Linked, Passing
<1>. QED
  BY <1>1, <1>3, <1>4, <1>5

\* The walk starts from a candidate of the last column: the first where it is
\* pinned, else one that nothing ends better than.
LEMMA LastBestIs ==
  ASSUME IInv, at = "back"
  PROVE  /\ LastBest \in 1 .. Len(Column(stop))
         /\ IF pin THEN LastBest = 1
            ELSE \A j \in 1 .. Len(Column(stop)) :
                   Column(stop)[j].score + wp[<<Column(stop)[j].phrase, "SF">>]
                     <= Column(stop)[LastBest].score
                          + wp[<<Column(stop)[LastBest].phrase, "SF">>]
<1>. DEFINE c == Column(stop)
            ended == [j \in 1 .. Len(c) |-> c[j].score + wp[<<c[j].phrase, "SF">>]]
<1>1. /\ Len(c) \in Nat /\ Len(c) # 0 /\ \A k \in 1 .. Len(c) : c[k] \in Nodes
  <2>1. stop \in start .. stop
    BY FinishedColumns
  <2>. QED
    BY <2>1, FinishedColumns
<1>2. CASE pin
  BY <1>1, <1>2 DEF LastBest
<1>3. CASE ~pin
  <2>1. \A j \in 1 .. Len(c) : ended[j] \in Int
    <3>1. \A e \in Nodes : e.score \in Int /\ e.phrase \in Phrases
      BY DEF Nodes
    <3>2. \A p \in Phrases : wp[<<p, "SF">>] \in Int
      BY Given DEF Scored, IInv, TypeOK
    <3>3. \A j \in 1 .. Len(c) : c[j].score \in Int /\ wp[<<c[j].phrase, "SF">>] \in Int
      BY <1>1, <3>1, <3>2
    <3>. HIDE DEF c
    <3>. QED
      BY <3>3
  <2>2. LastBest = EarliestTop(1 .. Len(c), ended)
    <3>1. LastBest = Min({ j \in 1 .. Len(c) :
                             \A o \in 1 .. Len(c) : c[o].score + wp[<<c[o].phrase, "SF">>]
                                                      <= c[j].score + wp[<<c[j].phrase, "SF">>] })
      BY <1>3 DEF LastBest
    <3>2. \A j \in 1 .. Len(c) : ended[j] = c[j].score + wp[<<c[j].phrase, "SF">>]
      OBVIOUS
    <3>. HIDE DEF c, ended
    <3>3. { j \in 1 .. Len(c) :
              \A o \in 1 .. Len(c) : c[o].score + wp[<<c[o].phrase, "SF">>]
                                       <= c[j].score + wp[<<c[j].phrase, "SF">>] }
            = { j \in 1 .. Len(c) : \A o \in 1 .. Len(c) : ended[o] <= ended[j] }
      BY <3>2
    <3>. QED
      BY <3>1, <3>3 DEF EarliestTop
  <2>3. \A j \in 1 .. Len(c) : ended[j] = c[j].score + wp[<<c[j].phrase, "SF">>]
    OBVIOUS
  <2>. HIDE DEF c, ended
  <2>4. LastBest \in 1 .. Len(c) /\ \A j \in 1 .. Len(c) : ended[j] <= ended[LastBest]
    <3>1. 1 .. Len(c) # {}
      BY <1>1
    <3>. QED
      BY <1>1, <2>1, <2>2, <3>1, EarliestTopIs
  <2>5. \A j \in 1 .. Len(c) : c[j].score + wp[<<c[j].phrase, "SF">>]
                                 <= c[LastBest].score + wp[<<c[LastBest].phrase, "SF">>]
    BY <2>3, <2>4
  <2>. QED
    BY <1>3, <2>4, <2>5 DEF c
<1>. QED
  BY <1>2, <1>3

\* A node of a finished column comes from a place of the one before it.
LEMMA BackIsPlace ==
  ASSUME IInv, at = "back", NEW i \in (start + 1) .. stop, NEW k \in 1 .. Len(Column(i))
  PROVE  /\ Column(i)[k].back \in 1 .. Len(Column(i - 1))
         /\ Column(i)[k].score = Via(wp, Column(i - 1), Column(i)[k].back, Column(i)[k])
         /\ \A j \in 1 .. Len(Column(i - 1)) :
              Via(wp, Column(i - 1), j, Column(i)[k]) <= Column(i)[k].score
<1>1. Looked(wp, Column(i - 1), 1 .. Len(Column(i - 1)), Column(i)[k])
  BY FinishedColumns
<1>2. 1 .. Len(Column(i - 1)) # {}
  <2>1. i - 1 \in start .. stop
    BY FinishedColumns
  <2>2. Len(Column(i - 1)) \in Nat /\ Len(Column(i - 1)) # 0
    BY <2>1, FinishedColumns
  <2>3. 1 \in 1 .. Len(Column(i - 1))
    BY <2>2
  <2>. QED
    BY <2>3
<1>. QED
  BY <1>1, <1>2 DEF Looked

\* What the walk back leaves in the output.
LEMMA WalkBack ==
  ASSUME IInv, BackTrack
  PROVE  /\ \A i \in start .. stop : selected'[i] \in 1 .. Len(Column(i))
         /\ selected'[stop] = LastBest
         /\ \A i \in (start + 1) .. stop : selected'[i - 1] = Column(i)[selected'[i]].back
         /\ selected' = [i \in 1 .. Len(sets) |-> IF i \in start .. stop THEN selected'[i]
                                                  ELSE selected[i]]
<1>. DEFINE N == stop - start
            V == Nat
            base == LastBest
            from(v, k) == IF v \in 1 .. Len(Column(stop - k + 1)) THEN Column(stop - k + 1)[v].back
                          ELSE 0
            step == [x \in V \X (1 .. N) |-> from(x[1], x[2])]
            w == CHOOSE w : w = [i \in start .. stop |->
                                   IF i = stop THEN base ELSE Column(i + 1)[w[i + 1]].back]
<1>1. at = "back" /\ selected' = [i \in 1 .. Len(sets) |-> IF i \in start .. stop THEN w[i]
                                                           ELSE selected[i]]
  BY DEF BackTrack
<1>2. start \in 1 .. Len(sets) /\ stop \in start .. Len(sets) /\ Len(sets) \in Nat /\ N \in Nat
  BY <1>1, FinishedColumns
<1>3. base \in 1 .. Len(Column(stop)) /\ base \in V
  BY <1>1, LastBestIs
<1>4. ASSUME NEW k \in 1 .. N
      PROVE  /\ \A v \in V : from(v, k) \in V
             /\ \A v \in 1 .. Len(Column(stop - k + 1)) :
                  /\ from(v, k) = Column(stop - k + 1)[v].back
                  /\ from(v, k) \in 1 .. Len(Column(stop - k))
  <2>1. stop - k + 1 \in (start + 1) .. stop /\ (stop - k + 1) - 1 = stop - k
    BY <1>2
  <2>2. \A v \in 1 .. Len(Column(stop - k + 1)) :
           /\ from(v, k) = Column(stop - k + 1)[v].back
           /\ from(v, k) \in 1 .. Len(Column(stop - k))
    <3>. TAKE v \in 1 .. Len(Column(stop - k + 1))
    <3>1. Column(stop - k + 1)[v].back \in 1 .. Len(Column((stop - k + 1) - 1))
      BY <1>1, <2>1, BackIsPlace
    <3>. QED
      BY <2>1, <3>1
  <2>3. \A v \in V : from(v, k) \in V
    <3>. TAKE v \in V
    <3>1. CASE v \in 1 .. Len(Column(stop - k + 1))
      BY <2>2, <3>1
    <3>2. CASE v \notin 1 .. Len(Column(stop - k + 1))
      BY <3>2
    <3>. QED
      BY <3>1, <3>2
  <2>. QED
    BY <2>2, <2>3
<1>5. \A v \in V, k \in 1 .. N : step[<<v, k>>] = from(v, k) /\ from(v, k) \in V
  <2>. HIDE DEF from, N
  <2>. QED
    BY <1>4
<1>. HIDE DEF V, from
<1>6. IsStep(step, N, V)
  <2>. HIDE DEF N
  <2>. QED
    BY <1>5 DEF IsStep
<1>. HIDE DEF N, base, step
<1>7. PICK g : IsRun(g, N, V, base, step)
  BY <1>2, <1>3, <1>6, Recursion
<1>8. /\ DOMAIN g = 0 .. N /\ g[0] = base /\ \A k \in 0 .. N : g[k] \in V
      /\ \A k \in 1 .. N : g[k] = from(g[k - 1], k)
  <2>1. g \in [0 .. N -> V] /\ g[0] = base /\ \A k \in 1 .. N : g[k] = step[<<g[k - 1], k>>]
    BY <1>7 DEF IsRun
  <2>2. \A k \in 1 .. N : k - 1 \in 0 .. N
    BY <1>2
  <2>. QED
    BY <1>5, <2>1, <2>2
<1>9. \A k \in 0 .. N : g[k] \in 1 .. Len(Column(stop - k))
  <2>. DEFINE T == { k \in 0 .. N : g[k] \in 1 .. Len(Column(stop - k)) }
  <2>1. 0 \in T
    <3>1. stop - 0 = stop /\ 0 \in 0 .. N
      BY <1>2
    <3>. QED
      BY <1>3, <1>8, <3>1
  <2>2. ASSUME NEW k \in 1 .. N, k - 1 \in T PROVE k \in T
    <3>1. stop - (k - 1) = stop - k + 1 /\ k \in 0 .. N
      BY <1>2
    <3>2. g[k - 1] \in 1 .. Len(Column(stop - k + 1))
      BY <2>2, <3>1
    <3>. QED
      BY <1>4, <1>8, <3>1, <3>2
  <2>3. 0 .. N \subseteq T
    <3>. HIDE DEF T
    <3>. QED
      BY <1>2, <2>1, <2>2, Induction
  <2>. QED
    BY <2>3
<1>. DEFINE h == [i \in start .. stop |-> g[stop - i]]
<1>10. ASSUME NEW i \in start .. stop
       PROVE  /\ h[i] \in 1 .. Len(Column(i))
              /\ h[i] = IF i = stop THEN base ELSE Column(i + 1)[h[i + 1]].back
  <2>1. stop - i \in 0 .. N /\ stop - (stop - i) = i
    BY <1>2 DEF N
  <2>2. h[i] \in 1 .. Len(Column(i))
    BY <1>9, <2>1
  <2>3. CASE i = stop
    <3>1. stop - stop = 0
      BY <1>2
    <3>. QED
      BY <1>8, <2>2, <2>3, <3>1
  <2>4. CASE i # stop
    <3>1. /\ stop - i \in 1 .. N /\ i + 1 \in start .. stop /\ stop - (i + 1) = (stop - i) - 1
          /\ (stop - i) - 1 \in 0 .. N
          /\ stop - ((stop - i) - 1) = i + 1 /\ stop - (stop - i) + 1 = i + 1
      BY <1>2, <2>4 DEF N
    <3>2. h[i] = from(g[(stop - i) - 1], stop - i) /\ h[i + 1] = g[(stop - i) - 1]
      BY <1>8, <3>1
    <3>3. g[(stop - i) - 1] \in 1 .. Len(Column(stop - ((stop - i) - 1)))
      BY <1>9, <3>1
    <3>4. h[i + 1] \in 1 .. Len(Column(i + 1))
      BY <3>1, <3>2, <3>3
    <3>5. from(h[i + 1], stop - i) = Column(i + 1)[h[i + 1]].back
      BY <1>4, <3>1, <3>4
    <3>. QED
      BY <2>2, <2>4, <3>2, <3>5
  <2>. QED
    BY <2>3, <2>4
<1>11. h = [i \in start .. stop |-> IF i = stop THEN base ELSE Column(i + 1)[h[i + 1]].back]
  <2>. DEFINE r == [i \in start .. stop |-> IF i = stop THEN base ELSE Column(i + 1)[h[i + 1]].back]
  <2>1. DOMAIN h = start .. stop /\ DOMAIN r = start .. stop /\ h = [i \in start .. stop |-> h[i]]
    OBVIOUS
  <2>. HIDE DEF h
  <2>2. \A i \in start .. stop : h[i] = r[i]
    BY <1>10
  <2>. QED
    BY <2>1, <2>2
<1>12. w = [i \in start .. stop |-> IF i = stop THEN base ELSE Column(i + 1)[w[i + 1]].back]
  <2>. HIDE DEF h
  <2>. QED
    BY <1>11
<1>. HIDE DEF w, h
<1>13. /\ w[stop] = base
       /\ \A i \in (start + 1) .. stop : w[i - 1] = Column(i)[w[i]].back
  <2>1. stop \in start .. stop
    BY <1>2
  <2>2. ASSUME NEW i \in (start + 1) .. stop PROVE w[i - 1] = Column(i)[w[i]].back
    <3>1. i - 1 \in start .. stop /\ i - 1 # stop /\ (i - 1) + 1 = i
      BY <1>2
    <3>. QED
      BY <1>12, <3>1
  <2>. QED
    BY <1>12, <2>1, <2>2
<1>14. \A i \in start .. stop : w[i] \in 1 .. Len(Column(i))
  <2>. DEFINE T == { i \in start .. stop : w[i] \in 1 .. Len(Column(i)) }
  <2>1. stop \in T /\ start \in Int /\ stop \in Int /\ start <= stop
    BY <1>2, <1>3, <1>13
  <2>2. ASSUME NEW i \in start .. (stop - 1), i + 1 \in T PROVE i \in T
    <3>1. i + 1 \in (start + 1) .. stop /\ (i + 1) - 1 = i /\ i \in start .. stop
      BY <1>2
    <3>2. w[i + 1] \in 1 .. Len(Column(i + 1))
      BY <2>2
    <3>3. Column(i + 1)[w[i + 1]].back \in 1 .. Len(Column((i + 1) - 1))
      BY <1>1, <3>1, <3>2, BackIsPlace
    <3>4. w[(i + 1) - 1] = Column(i + 1)[w[i + 1]].back
      BY <1>13, <3>1
    <3>. QED
      BY <3>1, <3>3, <3>4
  <2>3. start .. stop \subseteq T
    <3>. HIDE DEF T
    <3>. QED
      BY <2>1, <2>2, Downwards
  <2>. QED
    BY <2>3
<1>15. \A i \in start .. stop : selected'[i] = w[i]
  <2>1. \A i \in start .. stop : i \in 1 .. Len(sets)
    BY <1>2
  <2>. QED
    BY <1>1, <2>1
<1>16. \A i \in (start + 1) .. stop : i \in start .. stop /\ i - 1 \in start .. stop
  BY <1>2
<1>17. stop \in start .. stop
  BY <1>2
<1>18. selected' = [i \in 1 .. Len(sets) |-> IF i \in start .. stop THEN selected'[i]
                                             ELSE selected[i]]
  BY <1>1, <1>15
<1>. QED
  BY <1>13, <1>14, <1>15, <1>16, <1>17, <1>18 DEF base

-----------------------------------------------------------------------------
(* The sentences behind are settled *)

\* A sentence begins where the text does or behind one that stops, and the
\* present one stops where the first of its columns does.
Bounded ==
  /\ at \in {"sentence", "build", "forward", "back"} /\ start <= Len(sets) =>
       start = 1 \/ Stops(sets[start - 1])
  /\ Passing => /\ stop = Len(sets) \/ Stops(sets[stop])
                /\ \A i \in start .. (stop - 1) : ~Stops(sets[i])
                /\ pin <=> Stops(sets[stop]) \/ FirstHasFinal(sets[stop])

\* What is chosen in the sentence s is a choice there, and a best one.
Good(S, w, s, chosen) ==
  LET c == [i \in s[1] .. s[2] |-> chosen[i]]
  IN  c \in Of(S, w)!ChoicesOf(s) /\ Of(S, w)!Best(s, c)

Settled ==
  /\ DOMAIN selected = 1 .. Len(sets)
  /\ selected = [i \in 1 .. Len(sets) |-> selected[i]]
  /\ \A s \in Of(sets, wp)!Sentences : s[2] < start => Good(sets, wp, s, selected)

PInv == IInv /\ Bounded /\ Settled

\* At first no sentence is behind.
LEMMA InitPInv == Init => PInv
<1>. SUFFICES ASSUME Init PROVE PInv
  OBVIOUS
<1>1. IInv
  BY InitInv
<1>2. Bounded
  BY DEF Init, Bounded, Passing
<1>3. \A s \in Of(sets, wp)!Sentences : ~(s[2] < start)
  <2>. TAKE s \in Of(sets, wp)!Sentences
  <2>1. s \in (1 .. Len(sets)) \X (1 .. Len(sets))
    BY DEF Of!Sentences
  <2>2. s[2] \in 1 .. Len(sets) /\ start = 1
    BY <2>1 DEF Init
  <2>. QED
    BY <2>2
<1>4. Settled
  BY <1>3 DEF Init, Settled
<1>. QED
  BY <1>1, <1>2, <1>4 DEF PInv

\* A step that moves on neither the sentence nor the choices leaves settled
\* what is.
LEMMA SettledStays ==
  ASSUME Settled, UNCHANGED <<sets, wp, start, selected>>
  PROVE  Settled'
BY DEF Settled

\* The sentence cut off stops at the first column that does, and is pinned as
\* the promise says.
LEMMA FindSentenceSettles ==
  ASSUME PInv, FindSentence
  PROVE  PInv'
<1>. DEFINE ends == { i \in start .. Len(sets) : Stops(sets[i]) }
            last == IF ends = {} THEN Len(sets) ELSE Min(ends)
<1>1. /\ at = "sentence" /\ start <= Len(sets) /\ stop' = last
      /\ pin' = (ends # {} \/ FirstHasFinal(sets[last]))
      /\ at' \in {"build", "failed"}
      /\ UNCHANGED <<sets, wp, start, selected>>
  BY DEF FindSentence
<1>2. Len(sets) \in Nat /\ start \in 1 .. Len(sets)
  BY <1>1, Given DEF PInv, IInv, TypeOK
<1>3. /\ last = Len(sets) \/ Stops(sets[last])
      /\ \A i \in start .. (last - 1) : ~Stops(sets[i])
      /\ ends # {} <=> Stops(sets[last])
  <2>1. CASE ends = {}
    <3>1. last = Len(sets) /\ Len(sets) \in start .. Len(sets)
      BY <1>2, <2>1
    <3>2. \A i \in start .. Len(sets) : ~Stops(sets[i])
      BY <2>1
    <3>3. \A i \in start .. (last - 1) : i \in start .. Len(sets)
      BY <1>2, <3>1
    <3>. HIDE DEF last, ends
    <3>. QED
      BY <2>1, <3>1, <3>2, <3>3
  <2>2. CASE ends # {}
    <3>1. last \in ends /\ \A y \in ends : last <= y
      <4>1. ends \subseteq Nat
        BY <1>2
      <4>2. last = Min(ends)
        BY <2>2
      <4>. HIDE DEF ends, last
      <4>. QED
        BY <2>2, <4>1, <4>2, LeastNumber
    <3>2. last \in start .. Len(sets) /\ Stops(sets[last])
      <4>. HIDE DEF last
      <4>. QED
        BY <3>1
    <3>3. ASSUME NEW i \in start .. (last - 1) PROVE ~Stops(sets[i])
      <4>1. i \in start .. Len(sets) /\ ~(last <= i)
        <5>. HIDE DEF last, ends
        <5>. QED
          BY <1>2, <3>2
      <4>2. i \notin ends
        <5>. HIDE DEF last, ends
        <5>. QED
          BY <3>1, <4>1
      <4>. QED
        BY <4>1, <4>2
    <3>. HIDE DEF last, ends
    <3>. QED
      BY <2>2, <3>2, <3>3
  <2>. QED
    BY <2>1, <2>2
<1>. HIDE DEF last, ends
<1>4. Bounded'
  BY <1>1, <1>2, <1>3 DEF PInv, Bounded, Passing
<1>5. Settled'
  BY <1>1, SettledStays DEF PInv
<1>6. IInv'
  BY FindSentenceKeeps DEF PInv
<1>. QED
  BY <1>4, <1>5, <1>6 DEF PInv

\* The passes work on a sentence that stays what it is.
LEMMA PassSettles ==
  ASSUME PInv, BuildColumn \/ ForwardColumn
  PROVE  PInv'
<1>1. /\ at \in {"build", "forward"} /\ at' \in {"build", "forward", "back"}
      /\ UNCHANGED <<sets, wp, start, stop, pin, selected>>
  BY DEF BuildColumn, ForwardColumn
<1>2. IInv'
  BY BuildColumnKeeps, ForwardColumnKeeps DEF PInv
<1>3. Bounded'
  BY <1>1 DEF PInv, Bounded, Passing
<1>4. Settled'
  BY <1>1, SettledStays DEF PInv
<1>. QED
  BY <1>2, <1>3, <1>4 DEF PInv

\* The end, a failure and an interrupt settle nothing more.
LEMMA EndSettles ==
  ASSUME PInv, TooManyPhrases \/ Interrupted \/ Finish
  PROVE  PInv'
<1>1. at' \in {"done", "failed"} /\ UNCHANGED <<sets, wp, start, selected>>
  BY DEF TooManyPhrases, Interrupted, Finish
<1>2. IInv'
  BY LeavingKeeps DEF PInv
<1>3. Bounded'
  BY <1>1 DEF Bounded, Passing
<1>4. Settled'
  BY <1>1, SettledStays DEF PInv
<1>. QED
  BY <1>2, <1>3, <1>4 DEF PInv

\* A sentence of the text up to the present one's end lies behind it or is it.
LEMMA SentenceHere ==
  ASSUME PInv, Passing, NEW s \in Of(sets, wp)!Sentences, s[2] < stop + 1
  PROVE  s[2] < start \/ s = <<start, stop>>
<1>. DEFINE E(i) == Of(sets, wp)!EndsSentence(sets[i])
<1>1. /\ s \in (1 .. Len(sets)) \X (1 .. Len(sets)) /\ s[1] <= s[2]
      /\ s[1] = 1 \/ E(s[1] - 1)
      /\ s[2] = Len(sets) \/ E(s[2])
      /\ \A i \in s[1] .. (s[2] - 1) : ~E(i)
  BY DEF Of!Sentences
<1>2. /\ start \in 1 .. Len(sets) /\ stop \in start .. Len(sets) /\ Len(sets) \in Nat
  BY Given DEF PInv, IInv, TypeOK, InSentence
<1>3. \A i \in 1 .. Len(sets) : Stops(sets[i]) <=> E(i)
  BY Given, SameEnds DEF PInv, IInv, TypeOK
<1>4. /\ start = 1 \/ Stops(sets[start - 1])
      /\ stop = Len(sets) \/ Stops(sets[stop])
      /\ \A i \in start .. (stop - 1) : ~Stops(sets[i])
  BY <1>2 DEF PInv, Bounded, Passing
<1>. HIDE DEF E
<1>5. s[1] \in 1 .. Len(sets) /\ s[2] \in 1 .. Len(sets) /\ s = <<s[1], s[2]>>
  BY <1>1
<1>6. start = 1 \/ (start - 1 \in 1 .. Len(sets) /\ E(start - 1))
  BY <1>2, <1>3, <1>4
<1>7. \A i \in start .. (stop - 1) : ~E(i)
  <2>1. \A i \in start .. (stop - 1) : i \in 1 .. Len(sets)
    BY <1>2
  <2>. QED
    BY <1>3, <1>4, <2>1
<1>8. ASSUME ~(s[2] < start)
      PROVE  s[1] = start /\ s[2] = stop
  <2>1. s[2] = stop
    <3>1. s[2] \in start .. stop
      BY <1>2, <1>5, <1>8
    <3>2. CASE s[2] # stop
      <4>1. s[2] \in start .. (stop - 1) /\ s[2] # Len(sets)
        BY <1>2, <3>1, <3>2
      <4>. QED
        BY <1>1, <1>7, <4>1
    <3>. QED
      BY <3>2
  <2>2. ~(s[1] < start)
    <3>. SUFFICES ASSUME s[1] < start PROVE FALSE
      OBVIOUS
    <3>1. start # 1 /\ start - 1 \in s[1] .. (s[2] - 1)
      BY <1>2, <1>5, <2>1
    <3>. QED
      BY <1>1, <1>6, <3>1
  <2>3. ~(start < s[1])
    <3>. SUFFICES ASSUME start < s[1] PROVE FALSE
      OBVIOUS
    <3>1. s[1] # 1 /\ s[1] - 1 \in start .. (stop - 1)
      BY <1>1, <1>2, <1>5, <2>1
    <3>. QED
      BY <1>1, <1>7, <3>1
  <2>. QED
    BY <1>2, <1>5, <2>1, <2>2, <2>3
<1>. QED
  BY <1>5, <1>8

\* The walk back leaves a best choice in the present sentence.
LEMMA WalkIsGood ==
  ASSUME PInv, BackTrack
  PROVE  Good(sets, wp, <<start, stop>>, selected')
<1>. DEFINE s == <<start, stop>>
            v == [x \in (start .. stop) \X Nat |-> Column(x[1])[x[2]].score]
            back == [x \in (start .. stop) \X Nat |-> Column(x[1])[x[2]].back]
            c == [i \in start .. stop |-> selected'[i]]
<1>0. at = "back" /\ IInv
  BY DEF BackTrack, PInv
<1>1. start \in 1 .. Len(sets) /\ stop \in start .. Len(sets) /\ Len(sets) \in Nat
  BY <1>0, FinishedColumns
<1>2. s[1] = start /\ s[2] = stop
  OBVIOUS
<1>3. ASSUME NEW i \in start .. stop
      PROVE  /\ Len(Column(i)) = Len(sets[i]) /\ Len(Column(i)) \in Nat
             /\ \A k \in 1 .. Len(sets[i]) :
                  /\ Column(i)[k] \in Nodes /\ Column(i)[k].score \in Int
                  /\ sets[i][k].phrase \in Phrases /\ sets[i][k].wt \in Int
                  /\ Column(i)[k].phrase = sets[i][k].phrase
                  /\ Column(i)[k].wt = sets[i][k].wt
                  /\ v[<<i, k>>] = Column(i)[k].score /\ back[<<i, k>>] = Column(i)[k].back
  <2>1. /\ Len(Column(i)) = Len(sets[i]) /\ Len(Column(i)) \in Nat
        /\ \A k \in 1 .. Len(sets[i]) :
             /\ Column(i)[k] \in Nodes
             /\ Column(i)[k].phrase = sets[i][k].phrase /\ Column(i)[k].wt = sets[i][k].wt
    BY <1>0, FinishedColumns
  <2>2. \A e \in Nodes : e.score \in Int /\ e.phrase \in Phrases /\ e.wt \in Int
    BY DEF Nodes
  <2>3. \A k \in 1 .. Len(sets[i]) : k \in Nat
    BY <2>1
  <2>4. \A k \in Nat : /\ v[<<i, k>>] = Column(i)[k].score
                       /\ back[<<i, k>>] = Column(i)[k].back
    OBVIOUS
  <2>. HIDE DEF v, back
  <2>5. ASSUME NEW k \in 1 .. Len(sets[i])
        PROVE  /\ Column(i)[k].score \in Int
               /\ sets[i][k].phrase \in Phrases /\ sets[i][k].wt \in Int
               /\ v[<<i, k>>] = Column(i)[k].score /\ back[<<i, k>>] = Column(i)[k].back
    BY <2>1, <2>2, <2>3, <2>4
  <2>. QED
    BY <2>1, <2>5
<1>. HIDE DEF v, back
<1>4. start \in start .. stop /\ stop \in start .. stop
      /\ \A i \in (start + 1) .. stop : i \in start .. stop /\ i - 1 \in start .. stop
  BY <1>1
<1>5. Addable(sets, wp, s)
  <2>1. Scored
    BY <1>0, Given DEF IInv, TypeOK
  <2>2. start \in Int /\ stop \in Int /\ start <= stop
    BY <1>1
  <2>3. \A i \in start .. stop : /\ Len(sets[i]) \in Nat
                                 /\ \A j \in 1 .. Len(sets[i]) :
                                      sets[i][j].phrase \in Phrases /\ sets[i][j].wt \in Int
    BY <1>3
  <2>. HIDE DEF s
  <2>. QED
    BY <1>2, <2>1, <2>2, <2>3 DEF Addable, Scored
<1>6. Highest(sets, wp, s, v, back)
  <2>1. \A i \in start .. stop : \A k \in 1 .. Len(sets[i]) : v[<<i, k>>] \in Int
    BY <1>3
  <2>2. \A k \in 1 .. Len(sets[start]) : v[<<start, k>>] = sets[start][k].wt
    BY <1>0, <1>3, <1>4, FinishedColumns
  <2>3. ASSUME NEW i \in (start + 1) .. stop, NEW k \in 1 .. Len(sets[i])
        PROVE  /\ back[<<i, k>>] \in 1 .. Len(sets[i - 1])
               /\ v[<<i, k>>] = From(sets, wp, v, i, back[<<i, k>>], k)
               /\ \A j \in 1 .. Len(sets[i - 1]) : From(sets, wp, v, i, j, k) <= v[<<i, k>>]
    <3>1. i \in start .. stop /\ i - 1 \in start .. stop
      BY <1>4
    <3>2. /\ Len(Column(i)) = Len(sets[i]) /\ Len(Column(i - 1)) = Len(sets[i - 1])
          /\ v[<<i, k>>] = Column(i)[k].score /\ back[<<i, k>>] = Column(i)[k].back
      BY <1>3, <3>1
    <3>3. /\ Column(i)[k].back \in 1 .. Len(Column(i - 1))
          /\ Column(i)[k].score = Via(wp, Column(i - 1), Column(i)[k].back, Column(i)[k])
          /\ \A j \in 1 .. Len(Column(i - 1)) :
               Via(wp, Column(i - 1), j, Column(i)[k]) <= Column(i)[k].score
      <4>1. k \in 1 .. Len(Column(i))
        BY <3>2
      <4>. QED
        BY <1>0, <4>1, BackIsPlace
    <3>4. ASSUME NEW j \in 1 .. Len(sets[i - 1])
          PROVE  From(sets, wp, v, i, j, k) = Via(wp, Column(i - 1), j, Column(i)[k])
      <4>1. /\ Column(i - 1)[j].phrase = sets[i - 1][j].phrase
            /\ v[<<i - 1, j>>] = Column(i - 1)[j].score
        BY <1>3, <3>1
      <4>2. Column(i)[k].phrase = sets[i][k].phrase /\ Column(i)[k].wt = sets[i][k].wt
        BY <1>3, <3>1
      <4>. QED
        BY <4>1, <4>2 DEF From, Via
    <3>. QED
      BY <3>2, <3>3, <3>4
  <2>. HIDE DEF s
  <2>. QED
    BY <1>2, <2>1, <2>2, <2>3 DEF Highest
<1>7. Walked(sets, wp, s, v, back, c)
  <2>1. /\ \A i \in start .. stop : selected'[i] \in 1 .. Len(Column(i))
        /\ selected'[stop] = LastBest
        /\ \A i \in (start + 1) .. stop : selected'[i - 1] = Column(i)[selected'[i]].back
    BY <1>0, WalkBack
  <2>2. /\ LastBest \in 1 .. Len(Column(stop))
        /\ IF pin THEN LastBest = 1
           ELSE \A j \in 1 .. Len(Column(stop)) :
                  Column(stop)[j].score + wp[<<Column(stop)[j].phrase, "SF">>]
                    <= Column(stop)[LastBest].score
                         + wp[<<Column(stop)[LastBest].phrase, "SF">>]
    BY <1>0, LastBestIs
  <2>3. DOMAIN c = start .. stop /\ \A i \in start .. stop : c[i] = selected'[i]
    OBVIOUS
  <2>4. c = [i \in start .. stop |-> c[i]]
    OBVIOUS
  <2>5. pin <=> Of(sets, wp)!Pinned(s)
    <3>1. sets[stop] \in Seq(Candidates)
      BY <1>0, <1>1, Given DEF IInv, TypeOK
    <3>2. pin <=> Stops(sets[stop]) \/ FirstHasFinal(sets[stop])
      BY <1>0 DEF PInv, Bounded, Passing
    <3>. QED
      BY <3>1, <3>2, SameEnds DEF Of!Pinned
  <2>. HIDE DEF c, s
  <2>6. \A i \in start .. stop : c[i] \in 1 .. Len(sets[i])
    BY <1>3, <2>1, <2>3
  <2>7. ASSUME NEW i \in (start + 1) .. stop
        PROVE  c[i - 1] = back[<<i, c[i]>>]
    <3>1. i \in start .. stop /\ i - 1 \in start .. stop
      BY <1>4
    <3>2. back[<<i, c[i]>>] = Column(i)[c[i]].back
      BY <1>3, <2>6, <3>1
    <3>. QED
      BY <2>1, <2>3, <3>1, <3>2
  <2>8. CASE pin
    <3>1. c[stop] = 1
      BY <1>4, <2>1, <2>2, <2>3, <2>8
    <3>. QED
      BY <1>2, <2>3, <2>4, <2>5, <2>6, <2>7, <2>8, <3>1 DEF Walked
  <2>9. CASE ~pin
    <3>1. c[stop] = LastBest /\ Len(Column(stop)) = Len(sets[stop])
      BY <1>3, <1>4, <2>1, <2>3
    <3>2. ASSUME NEW j \in 1 .. Len(sets[stop])
          PROVE  /\ v[<<stop, j>>] = Column(stop)[j].score
                 /\ Column(stop)[j].phrase = sets[stop][j].phrase
      BY <1>3, <1>4
    <3>3. c[stop] \in 1 .. Len(sets[stop])
      BY <1>4, <2>6
    <3>4. \A j \in 1 .. Len(sets[stop]) :
             v[<<stop, j>>] + wp[<<sets[stop][j].phrase, "SF">>]
               <= v[<<stop, c[stop]>>] + wp[<<sets[stop][c[stop]].phrase, "SF">>]
      BY <2>2, <2>9, <3>1, <3>2, <3>3
    <3>. QED
      BY <1>2, <2>3, <2>4, <2>5, <2>6, <2>7, <2>9, <3>4 DEF Walked
  <2>. QED
    BY <2>8, <2>9
<1>8. c = [i \in s[1] .. s[2] |-> selected'[i]]
  OBVIOUS
<1>. HIDE DEF s, c
<1>9. c \in Of(sets, wp)!ChoicesOf(s) /\ Of(sets, wp)!Best(s, c)
  BY <1>5, <1>6, <1>7, WalkIsBest
<1>10. Good(sets, wp, s, selected')
  BY <1>8, <1>9 DEF Good
<1>. QED
  BY <1>10 DEF s

\* After the walk back the present sentence is settled too.
LEMMA BackTrackSettles ==
  ASSUME PInv, BackTrack
  PROVE  PInv'
<1>1. /\ at = "back" /\ start' = stop + 1 /\ at' = "sentence"
      /\ UNCHANGED <<sets, wp, stop, pin>>
  BY DEF BackTrack
<1>2. IInv'
  BY LeavingKeeps DEF PInv
<1>3. /\ start \in 1 .. Len(sets) /\ stop \in start .. Len(sets) /\ Len(sets) \in Nat
  BY <1>1, FinishedColumns DEF PInv
<1>4. Bounded'
  <2>1. stop = Len(sets) \/ Stops(sets[stop])
    BY <1>1 DEF PInv, Bounded, Passing
  <2>2. (stop + 1) - 1 = stop /\ (stop = Len(sets) => ~(stop + 1 <= Len(sets)))
    BY <1>3
  <2>. QED
    BY <1>1, <2>1, <2>2 DEF Bounded, Passing
<1>5. selected' = [i \in 1 .. Len(sets) |-> IF i \in start .. stop THEN selected'[i]
                                            ELSE selected[i]]
  BY WalkBack DEF PInv
<1>6. DOMAIN selected' = 1 .. Len(sets) /\ selected' = [i \in 1 .. Len(sets) |-> selected'[i]]
  BY <1>5
<1>7. ASSUME NEW s \in Of(sets, wp)!Sentences, s[2] < stop + 1
      PROVE  Good(sets, wp, s, selected')
  <2>1. CASE s[2] < start
    <3>1. Good(sets, wp, s, selected)
      BY <2>1 DEF PInv, Settled
    <3>2. s[1] \in 1 .. Len(sets) /\ s[2] \in 1 .. Len(sets)
      BY DEF Of!Sentences
    <3>3. \A i \in s[1] .. s[2] : selected'[i] = selected[i]
      <4>1. \A i \in s[1] .. s[2] : i \in 1 .. Len(sets) /\ i \notin start .. stop
        BY <1>3, <2>1, <3>2
      <4>. QED
        BY <1>5, <4>1
    <3>4. [i \in s[1] .. s[2] |-> selected'[i]] = [i \in s[1] .. s[2] |-> selected[i]]
      BY <3>3
    <3>. QED
      BY <3>1, <3>4 DEF Good
  <2>2. CASE s = <<start, stop>>
    BY <2>2, WalkIsGood
  <2>. QED
    BY <1>1, <1>7, <2>1, <2>2, SentenceHere DEF Passing
<1>8. Settled'
  BY <1>1, <1>6, <1>7 DEF Settled
<1>. QED
  BY <1>2, <1>4, <1>8 DEF PInv

\* Every step keeps what is settled.
LEMMA NextSettles == PInv /\ [Next]_vars => PInv'
<1>. SUFFICES ASSUME PInv, [Next]_vars PROVE PInv'
  OBVIOUS
<1>1. CASE FindSentence
  BY <1>1, FindSentenceSettles
<1>2. CASE BuildColumn \/ ForwardColumn
  BY <1>2, PassSettles
<1>3. CASE BackTrack
  BY <1>3, BackTrackSettles
<1>4. CASE TooManyPhrases \/ Interrupted \/ Finish
  BY <1>4, EndSettles
<1>5. CASE UNCHANGED vars
  <2>1. UNCHANGED <<sets, wp, at, start, stop, pin, selected>>
    BY <1>5 DEF vars
  <2>2. IInv'
    BY <1>5, NextKeeps DEF PInv
  <2>3. Bounded'
    BY <2>1 DEF PInv, Bounded, Passing
  <2>4. Settled'
    BY <2>1, SettledStays DEF PInv
  <2>. QED
    BY <2>2, <2>3, <2>4 DEF PInv
<1>. QED
  BY <1>1, <1>2, <1>3, <1>4, <1>5 DEF Next

-----------------------------------------------------------------------------
(* The promise kept *)

\* A step of the tagger is a step of its promise or changes nothing there.
LEMMA StepPromised ==
  PInv /\ [Next]_vars
    => [Promise!Next]_<<sets, wp, IF at \in {"done", "failed"} THEN at ELSE "busy",
                        IF at = "done" THEN selected ELSE <<>>>>
<1>. DEFINE outcome == IF at \in {"done", "failed"} THEN at ELSE "busy"
            choice  == IF at = "done" THEN selected ELSE <<>>
<1>. SUFFICES ASSUME PInv, [Next]_vars
              PROVE  Promise!Next \/ UNCHANGED <<sets, wp, outcome, choice>>
  OBVIOUS
<1>1. ASSUME at \notin {"done", "failed"}, at' \notin {"done", "failed"},
             UNCHANGED <<sets, wp>>
      PROVE  UNCHANGED <<sets, wp, outcome, choice>>
  BY <1>1
<1>2. ASSUME at \notin {"done", "failed"}, at' = "failed", UNCHANGED <<sets, wp>>
      PROVE  Promise!Next
  BY <1>2 DEF Promise!Next, Promise!Fail
<1>3. CASE FindSentence
  <2>1. at = "sentence" /\ at' \in {"failed", "build"} /\ UNCHANGED <<sets, wp>>
    BY <1>3 DEF FindSentence
  <2>. QED
    BY <1>1, <1>2, <2>1
<1>4. CASE BuildColumn \/ ForwardColumn \/ BackTrack
  <2>1. /\ at \in {"build", "forward", "back"} /\ at' \in {"build", "forward", "back", "sentence"}
        /\ UNCHANGED <<sets, wp>>
    BY <1>4 DEF BuildColumn, ForwardColumn, BackTrack
  <2>. QED
    BY <1>1, <2>1
<1>5. CASE TooManyPhrases \/ Interrupted
  <2>1. at \in {"build", "forward"} /\ at' = "failed" /\ UNCHANGED <<sets, wp>>
    BY <1>5 DEF TooManyPhrases, Interrupted
  <2>. QED
    BY <1>2, <2>1
<1>6. CASE Finish
  <2>1. /\ at = "sentence" /\ start > Len(sets) /\ at' \in {"done", "failed"}
        /\ UNCHANGED <<sets, wp, selected>>
    BY <1>6 DEF Finish
  <2>2. CASE at' = "failed"
    BY <1>2, <2>1, <2>2
  <2>3. CASE at' = "done"
    <3>1. Len(sets) \in Nat /\ start \in Nat
      BY Given DEF PInv, IInv, TypeOK
    <3>2. DOMAIN selected = 1 .. Len(sets) /\ selected = [i \in 1 .. Len(sets) |-> selected[i]]
      BY DEF PInv, Settled
    <3>3. Len(selected) = Len(sets)
      BY <3>1, <3>2
    <3>4. ASSUME NEW s \in Promise!Sentences
          PROVE  LET c == [i \in s[1] .. s[2] |-> selected[i]]
                 IN  c \in Promise!ChoicesOf(s) /\ Promise!Best(s, c)
      <4>1. s \in Of(sets, wp)!Sentences
        BY DEF Promise!Sentences, Of!Sentences, Promise!EndsSentence, Of!EndsSentence,
               Promise!IsSf, Of!IsSf
      <4>2. s[2] < start
        <5>1. s[2] \in 1 .. Len(sets)
          BY <4>1 DEF Of!Sentences
        <5>. QED
          BY <2>1, <3>1, <5>1
      <4>3. Good(sets, wp, s, selected)
        BY <4>1, <4>2 DEF PInv, Settled
      <4>. QED
        BY <4>3 DEF Good, Promise!Best, Of!Best, Promise!ChoicesOf, Of!ChoicesOf, Promise!Score,
                    Of!Score, Promise!Pinned, Of!Pinned, Promise!Chosen, Of!Chosen,
                    Promise!EndsSentence, Of!EndsSentence, Promise!CarriesFinal, Of!CarriesFinal,
                    Promise!IsSf, Of!IsSf
    <3>5. choice' = selected /\ outcome = "busy" /\ outcome' = "done"
      BY <2>1, <2>3
    <3>6. Promise!Choose
      BY <2>1, <3>3, <3>4, <3>5 DEF Promise!Choose
    <3>. QED
      BY <3>6 DEF Promise!Next
  <2>. QED
    BY <2>1, <2>2, <2>3
<1>7. CASE UNCHANGED vars
  BY <1>7 DEF vars
<1>. QED
  BY <1>3, <1>4, <1>5, <1>6, <1>7 DEF Next

\* select_best_by_sentence implements BestTagging: a call that succeeds has
\* chosen, sentence by sentence, candidates whose total score no other choice
\* beats; one that fails has promised nothing.
THEOREM TaggerKeepsPromise == Spec => KeepsPromise
<1>1. Init => PInv
  BY InitPInv
<1>2. PInv /\ [Next]_vars => PInv'
  BY NextSettles
<1>3. Init => Promise!Init
  BY DEF Init, Promise!Init
<1>. QED
  BY <1>1, <1>2, <1>3, StepPromised, PTL DEF Spec, KeepsPromise, Promise!Spec

=============================================================================
