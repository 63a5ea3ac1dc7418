------------------------ MODULE SegmentLatticeProofs ------------------------
(***************************************************************************)
(* Proofs about SegmentLattice, for any alphabet, any words and segments,  *)
(* and any number of positions.                                            *)
(***************************************************************************)
EXTENDS SegmentLattice, FiniteSetTheorems, WellFoundedInduction, TLAPS

\* A trie path is at most as long as the word that is looked up.
LEMMA SearchLengthType ==
  ASSUME NEW w \in Seq(Keys)
  PROVE  SearchLength(w) \in 0 .. Len(w)
<1> DEFINE known == { n \in 1 .. Len(w) :
                        \A m \in 1 .. n : Suffix(w, m) \in DOMAIN simti }
<1>1. Len(w) \in Nat
  OBVIOUS
<1>2. /\ IsFiniteSet(1 .. Len(w))
      /\ Cardinality(1 .. Len(w)) = IF 1 > Len(w) THEN 0 ELSE Len(w) - 1 + 1
  BY <1>1, FS_Interval
<1>3. known \in SUBSET (1 .. Len(w))
  OBVIOUS
<1>4. IsFiniteSet(known) /\ Cardinality(known) <= Cardinality(1 .. Len(w))
  BY <1>2, <1>3, FS_Subset
<1>5. Cardinality(known) \in Nat
  BY <1>4, FS_CardinalityType
<1>6. QED
  BY <1>1, <1>2, <1>4, <1>5 DEF SearchLength

\* A non-empty suffix of a word is a non-empty sequence of jamo.
LEMMA SuffixType ==
  ASSUME NEW w \in Seq(Keys), NEW n \in 1 .. Len(w)
  PROVE  Suffix(w, n) \in Seq(Keys) \ {<<>>}
<1>1. Len(w) \in Nat /\ Len(w) - n + 1 \in 1 .. Len(w)
  OBVIOUS
<1>2. /\ SubSeq(w, Len(w) - n + 1, Len(w)) \in Seq(Keys)
      /\ Len(SubSeq(w, Len(w) - n + 1, Len(w))) = n
  BY <1>1
<1>3. QED
  BY <1>2 DEF Suffix

\* Inserting suffixes keeps the trie a function from suffixes to positions
\* that are in use once `count` positions from `base` on have been added.
LEMMA InsertSuffixesType ==
  ASSUME LatticeAssumption, TypeOK, NEW w \in Seq(Keys),
         NEW count \in 0 .. Len(w), NEW base \in Nat \ {0},
         base + count <= MaxSegment, positionEnd <= base + count
  PROVE  LET t == InsertSuffixes(w, count, base)
         IN  /\ DOMAIN t \subseteq Seq(Keys) \ {<<>>}
             /\ t \in [DOMAIN t -> Slots]
             /\ \A s \in DOMAIN t : t[s] = 0 \/ t[s] < base + count
<1> DEFINE dom == DOMAIN simti \cup (IF count = 0 THEN {} ELSE Suffixes(w))
           val(s) == IF Fetch(s) # 0 THEN Fetch(s)
                     ELSE IF s \in Suffixes(w) /\ Len(s) > Len(w) - count
                          THEN base + (Len(w) - Len(s)) ELSE 0
<1>1. InsertSuffixes(w, count, base) = [s \in dom |-> val(s)]
  BY DEF InsertSuffixes
<1>2. Suffixes(w) \subseteq Seq(Keys) \ {<<>>}
  BY SuffixType DEF Suffixes
<1>3. dom \subseteq Seq(Keys) \ {<<>>}
  BY <1>2 DEF TypeOK
<1>4. ASSUME NEW s \in Suffixes(w)
      PROVE  Len(s) \in 1 .. Len(w)
  <2>1. PICK n \in 1 .. Len(w) : s = Suffix(w, n)
    BY DEF Suffixes
  <2>2. Len(w) \in Nat /\ Len(w) - n + 1 \in 1 .. Len(w)
    OBVIOUS
  <2>3. Len(SubSeq(w, Len(w) - n + 1, Len(w))) = n
    BY <2>2
  <2>4. QED
    BY <2>1, <2>3 DEF Suffix
<1>5. ASSUME NEW s \in dom
      PROVE  val(s) \in Slots /\ (val(s) = 0 \/ val(s) < base + count)
  <2>1. CASE Fetch(s) # 0
    BY <2>1 DEF Fetch, TypeOK, Slots
  <2>2. CASE Fetch(s) = 0 /\ s \in Suffixes(w) /\ Len(s) > Len(w) - count
    <3>1. Len(s) \in 1 .. Len(w) /\ Len(w) \in Nat
      BY <1>4, <2>2
    <3>2. base + (Len(w) - Len(s)) \in Nat /\ base + (Len(w) - Len(s)) < base + count
      BY <2>2, <3>1
    <3>3. QED
      BY <2>2, <3>2 DEF Slots, LatticeAssumption
  <2>3. CASE Fetch(s) = 0 /\ ~(s \in Suffixes(w) /\ Len(s) > Len(w) - count)
    BY <2>3 DEF Slots, LatticeAssumption
  <2>4. QED
    BY <2>1, <2>2, <2>3
<1> HIDE DEF dom, val
<1>6. QED
  BY <1>1, <1>3, <1>5

-----------------------------------------------------------------------------
(* Type correctness *)

\* The empty lattice before init_word has the shape TypeOK asks for.
LEMMA InitTypeOK == LatticeAssumption /\ Init => TypeOK
  BY DEF LatticeAssumption, Init, TypeOK, Slots

\* init_from_triple_with_simti keeps the shape, also when the word does not fit.
LEMMA InitWordTypeOK ==
  ASSUME LatticeAssumption, TypeOK, NEW w \in Words, InitWord(w)
  PROVE  TypeOK'
<1> DEFINE count == AtMost(Len(w), MaxSegment - 1)
<1>1. w \in Seq(Keys) /\ Len(w) \in Nat
  BY DEF LatticeAssumption
<1>2. count \in 0 .. Len(w) /\ count <= MaxSegment - 1
  BY <1>1 DEF AtMost, LatticeAssumption
<1>3. /\ started' = (IF count = Len(w) THEN "ready" ELSE "failed")
      /\ positionEnd = 0
      /\ positionEnd' = count + 1
      /\ key' = [ p \in Slots |-> IF p \in 1 .. count THEN w[p] ELSE StartKey ]
      /\ next' = [ p \in Slots |-> IF p < count THEN p + 1 ELSE 0 ]
      /\ simti' = InsertSuffixes(w, count, 1)
  BY DEF InitWord, TypeOK
<1> HIDE DEF count
<1>4. /\ DOMAIN simti' \subseteq Seq(Keys) \ {<<>>}
      /\ simti' \in [DOMAIN simti' -> Slots]
      /\ \A s \in DOMAIN simti' : simti'[s] = 0 \/ simti'[s] < 1 + count
  <2>1. 1 + count <= MaxSegment /\ positionEnd <= 1 + count /\ 1 \in Nat \ {0}
    BY <1>1, <1>2, <1>3 DEF LatticeAssumption
  <2>2. QED
    BY <1>1, <1>2, <1>3, <2>1, InsertSuffixesType
<1>5. key' \in [Slots -> Keys \cup {StartKey}]
  BY <1>1, <1>2, <1>3
<1>6. next' \in [Slots -> Slots] /\ \A p \in Slots : next'[p] = 0 \/ next'[p] < count + 1
  BY <1>1, <1>2, <1>3 DEF Slots, LatticeAssumption
<1>7. positionEnd' \in 0 .. MaxSegment /\ positionEnd' # 0
  BY <1>1, <1>2, <1>3 DEF LatticeAssumption
<1>8. QED
  BY <1>1, <1>2, <1>3, <1>4, <1>5, <1>6, <1>7 DEF TypeOK

\* What an AltSegment step does to the positions, with the numbers it
\* computes named once for the proofs below.
LEMMA AltSegmentStep ==
  ASSUME LatticeAssumption, TypeOK, NEW w \in Segments, AltSegment(w)
  PROVE  \E count \in 0 .. Len(w), tail \in Slots :
           /\ positionEnd + count <= MaxSegment
           /\ positionEnd > 0
           /\ tail = 0 \/ tail < positionEnd
           /\ positionEnd' = positionEnd + count
           /\ key' = AddedKeys(w, count, key)
           /\ next' = AddedLinks(count, tail, next)
           /\ simti' = InsertSuffixes(w, count, positionEnd)
           /\ UNCHANGED started
<1> DEFINE match == SearchLength(w)
           to == IF match = 0 THEN 0 ELSE Fetch(Suffix(w, match))
           count == AtMost(Len(w) - match, MaxSegment - positionEnd)
           tail == IF count = Len(w) - match THEN to ELSE 0
<1>1. w \in Seq(Keys) /\ Len(w) \in Nat
  BY DEF LatticeAssumption
<1>2. match \in 0 .. Len(w)
  BY <1>1, SearchLengthType
<1>3. positionEnd > 0 /\ positionEnd <= MaxSegment /\ positionEnd \in Nat
  BY DEF TypeOK, AltSegment, LatticeAssumption
<1>4. count \in 0 .. Len(w) /\ positionEnd + count <= MaxSegment
  BY <1>1, <1>2, <1>3 DEF AtMost, LatticeAssumption
<1>5. to \in Slots /\ (to = 0 \/ to < positionEnd)
  BY DEF Fetch, TypeOK, Slots, LatticeAssumption
<1>6. /\ positionEnd' = positionEnd + count
      /\ key' = AddedKeys(w, count, key)
      /\ next' = AddedLinks(count, tail, next)
      /\ simti' = InsertSuffixes(w, count, positionEnd)
      /\ UNCHANGED started
  BY DEF AltSegment
<1> HIDE DEF match, to, count
<1>7. tail \in Slots /\ (tail = 0 \/ tail < positionEnd)
  BY <1>5 DEF Slots, LatticeAssumption
<1> HIDE DEF tail
<1>8. QED
  BY <1>3, <1>4, <1>6, <1>7

\* alt_segment keeps the shape, also when the positions run out half way.
LEMMA AltSegmentTypeOK ==
  ASSUME LatticeAssumption, TypeOK, NEW w \in Segments, AltSegment(w)
  PROVE  TypeOK'
<1>1. PICK count \in 0 .. Len(w), tail \in Slots :
        /\ positionEnd + count <= MaxSegment
        /\ positionEnd > 0
        /\ tail = 0 \/ tail < positionEnd
        /\ positionEnd' = positionEnd + count
        /\ key' = AddedKeys(w, count, key)
        /\ next' = AddedLinks(count, tail, next)
        /\ simti' = InsertSuffixes(w, count, positionEnd)
        /\ UNCHANGED started
  BY AltSegmentStep
<1>2. w \in Seq(Keys) /\ Len(w) \in Nat /\ positionEnd \in Nat /\ MaxSegment \in Nat
  BY DEF LatticeAssumption, TypeOK
<1>3. positionEnd' \in 0 .. MaxSegment /\ positionEnd' > 0
  BY <1>1, <1>2
<1>4. key' \in [Slots -> Keys \cup {StartKey}]
  <2>1. ASSUME NEW p \in positionEnd .. (positionEnd + count - 1)
        PROVE  w[p - positionEnd + 1] \in Keys
    <3>1. p - positionEnd + 1 \in 1 .. Len(w)
      BY <1>1, <1>2
    <3>2. QED
      BY <1>2, <3>1
  <2>2. QED
    BY <1>1, <2>1 DEF AddedKeys, TypeOK
<1>5. next' \in [Slots -> Slots]
  BY <1>1, <1>2 DEF AddedLinks, TypeOK, Slots
<1>6. \A p \in Slots : next'[p] = 0 \/ next'[p] < positionEnd'
  BY <1>1, <1>2 DEF AddedLinks, TypeOK, Slots
<1>7. /\ DOMAIN simti' \subseteq Seq(Keys) \ {<<>>}
      /\ simti' \in [DOMAIN simti' -> Slots]
      /\ \A s \in DOMAIN simti' : simti'[s] = 0 \/ simti'[s] < positionEnd'
  <2>1. positionEnd \in Nat \ {0} /\ positionEnd <= positionEnd + count
    BY <1>1, <1>2
  <2>2. QED
    BY <1>1, <1>2, <2>1, InsertSuffixesType
<1>8. started' = "ready"
  BY <1>1 DEF AltSegment
<1>9. QED
  BY <1>3, <1>4, <1>5, <1>6, <1>7, <1>8 DEF TypeOK

\* The arrays stay well formed and every link and trie entry names a
\* position in use (segment_position.c, simti.c, alt_segment).
THEOREM TypeCorrect == Spec => []TypeOK
<1> USE LatticeAssumption
<1>1. Init => TypeOK
  BY InitTypeOK
<1>2. TypeOK /\ [Next]_vars => TypeOK'
  <2> SUFFICES ASSUME TypeOK, [Next]_vars
               PROVE  TypeOK'
    OBVIOUS
  <2>1. ASSUME NEW w \in Words, InitWord(w)
        PROVE  TypeOK'
    BY <2>1, InitWordTypeOK
  <2>2. ASSUME NEW w \in Segments, AltSegment(w)
        PROVE  TypeOK'
    BY <2>2, AltSegmentTypeOK
  <2>3. CASE UNCHANGED vars
    BY <2>3 DEF vars, TypeOK
  <2>4. QED
    BY <2>1, <2>2, <2>3 DEF Next
<1>3. QED
  BY <1>1, <1>2, PTL DEF Spec

-----------------------------------------------------------------------------
(* Every walk along the links ends *)

\* The strengthening: some rank decreases along every link.  The links of a
\* word go upwards and those of a changed suffix upwards and, at its end,
\* back to a lower position, so the numbers of the positions are no rank.
Ranked == \E rank \in [Slots -> Nat] :
            \A p \in 1 .. (positionEnd - 1) :
              next[p] = 0 \/ rank[next[p]] < rank[p]

\* A non-empty set of positions has a member of least rank.
LEMMA LeastRank ==
  ASSUME NEW rank \in [Slots -> Nat], NEW S \in SUBSET Slots, S # {}
  PROVE  \E p \in S : \A q \in S : rank[p] <= rank[q]
<1> DEFINE T == { rank[p] : p \in S }
           R == { ss \in Nat \X Nat : ss[1] < ss[2] }
<1>1. IsWellFoundedOn(R, Nat)
  BY NatLessThanWellFounded DEF OpToRel
<1>2. T \subseteq Nat /\ T # {}
  OBVIOUS
<1>3. PICK x \in T : \A y \in T : ~(<<y, x>> \in R)
  <2> HIDE DEF T, R
  <2>1. QED
    BY <1>1, <1>2, WFMin
<1>4. ASSUME NEW y \in T
      PROVE  x <= y
  <2>1. x \in Nat /\ y \in Nat
    BY <1>2
  <2>2. ~(y < x)
    BY <1>3, <2>1
  <2>3. QED
    BY <2>1, <2>2
<1>5. QED
  BY <1>4

\* Links that go down in some rank never close a set of positions.
LEMMA RankedEnds == ASSUME LatticeAssumption, TypeOK, Ranked
                    PROVE  LinksEnd
<1>1. PICK rank \in [Slots -> Nat] :
        \A p \in 1 .. (positionEnd - 1) :
          next[p] = 0 \/ rank[next[p]] < rank[p]
  BY DEF Ranked
<1>2. SUFFICES ASSUME NEW S \in SUBSET (1 .. (positionEnd - 1)), S # {}
               PROVE  \E p \in S : next[p] \notin S
  BY DEF LinksEnd
<1>3. S \in SUBSET Slots
  BY DEF TypeOK, Slots, LatticeAssumption
<1>4. PICK p \in S : \A q \in S : rank[p] <= rank[q]
  BY <1>2, <1>3, LeastRank
<1>5. next[p] \in Slots /\ rank[p] \in Nat /\ rank[next[p]] \in Nat
  BY <1>3 DEF TypeOK
<1>6. next[p] \notin S
  <2>1. p \in 1 .. (positionEnd - 1) /\ 0 \notin S
    OBVIOUS
  <2>2. CASE next[p] = 0
    BY <2>1, <2>2
  <2>3. CASE rank[next[p]] < rank[p]
    BY <1>4, <1>5, <2>3
  <2>4. QED
    BY <1>1, <2>1, <2>2, <2>3
<1>7. QED
  BY <1>6

\* The positions of the word are ranked by how far they are from its end.
LEMMA InitWordRanked ==
  ASSUME LatticeAssumption, TypeOK, NEW w \in Words, InitWord(w)
  PROVE  Ranked'
<1> DEFINE rank == [p \in Slots |-> IF p = 0 THEN 0 ELSE MaxSegment - p]
<1>1. rank \in [Slots -> Nat]
  BY DEF Slots, LatticeAssumption
<1>2. Len(w) \in Nat
  BY DEF LatticeAssumption
<1>3. PICK count \in Nat : /\ count <= MaxSegment - 1
                           /\ positionEnd' = count + 1
                           /\ next' = [ p \in Slots |-> IF p < count THEN p + 1 ELSE 0 ]
  BY <1>2 DEF InitWord, AtMost, LatticeAssumption
<1>4. ASSUME NEW p \in 1 .. (positionEnd' - 1)
      PROVE  next'[p] = 0 \/ rank[next'[p]] < rank[p]
  BY <1>3 DEF Slots, LatticeAssumption
<1>5. QED
  BY <1>1, <1>4 DEF Ranked

\* The positions of a changed suffix rank above the known rest they lead to.
LEMMA AltSegmentRanked ==
  ASSUME LatticeAssumption, TypeOK, Ranked, NEW w \in Segments, AltSegment(w)
  PROVE  Ranked'
<1>1. PICK count \in 0 .. Len(w), tail \in Slots :
        /\ positionEnd + count <= MaxSegment
        /\ positionEnd > 0
        /\ tail = 0 \/ tail < positionEnd
        /\ positionEnd' = positionEnd + count
        /\ next' = AddedLinks(count, tail, next)
  BY AltSegmentStep
<1>2. PICK rank \in [Slots -> Nat] :
        \A p \in 1 .. (positionEnd - 1) :
          next[p] = 0 \/ rank[next[p]] < rank[p]
  BY DEF Ranked
<1> DEFINE rank2 == [p \in Slots |-> IF p < positionEnd THEN rank[p]
                                     ELSE rank[tail] + (MaxSegment - p)]
<1>3. Len(w) \in Nat /\ positionEnd \in Nat /\ MaxSegment \in Nat /\ count \in Nat
  BY DEF LatticeAssumption, TypeOK
<1>4. rank2 \in [Slots -> Nat]
  BY <1>3 DEF Slots
<1>5. ASSUME NEW p \in 1 .. (positionEnd - 1)
      PROVE  next'[p] = 0 \/ rank2[next'[p]] < rank2[p]
  <2>1. p \in Slots /\ next'[p] = next[p]
    BY <1>1, <1>3 DEF AddedLinks, Slots
  <2>2. next[p] \in Slots /\ (next[p] = 0 \/ next[p] < positionEnd)
    BY <2>1 DEF TypeOK
  <2>3. CASE next[p] = 0
    BY <2>1, <2>3
  <2>4. CASE next[p] # 0 /\ next[p] < positionEnd
    <3>1. rank2[next'[p]] = rank[next[p]] /\ rank2[p] = rank[p]
      BY <1>3, <2>1, <2>2, <2>4
    <3>2. QED
      BY <1>2, <2>4, <3>1
  <2>5. QED
    BY <2>2, <2>3, <2>4
<1>6. ASSUME NEW p \in positionEnd .. (positionEnd + count - 2)
      PROVE  next'[p] = 0 \/ rank2[next'[p]] < rank2[p]
  <2>1. p \in Slots /\ p + 1 \in Slots /\ next'[p] = p + 1
    BY <1>1, <1>3 DEF AddedLinks, Slots
  <2>2. rank2[p + 1] = rank[tail] + (MaxSegment - (p + 1))
    BY <1>3, <2>1
  <2>3. rank2[p] = rank[tail] + (MaxSegment - p)
    BY <1>3, <2>1
  <2>4. QED
    BY <1>3, <2>1, <2>2, <2>3
<1>7. ASSUME NEW p \in {positionEnd + count - 1}, count > 0
      PROVE  next'[p] = 0 \/ rank2[next'[p]] < rank2[p]
  <2>1. p \in Slots /\ next'[p] = tail
    BY <1>1, <1>3, <1>7 DEF AddedLinks, Slots
  <2>2. CASE tail = 0
    BY <2>1, <2>2
  <2>3. CASE tail # 0
    <3>1. rank2[tail] = rank[tail] /\ rank2[p] = rank[tail] + (MaxSegment - p)
      BY <1>1, <1>3, <1>7, <2>1, <2>3
    <3>2. QED
      BY <1>3, <2>1, <3>1 DEF Slots
  <2>4. QED
    BY <2>2, <2>3
<1>8. ASSUME NEW p \in 1 .. (positionEnd' - 1)
      PROVE  next'[p] = 0 \/ rank2[next'[p]] < rank2[p]
  <2>1. \/ p \in 1 .. (positionEnd - 1)
        \/ p \in positionEnd .. (positionEnd + count - 2)
        \/ p = positionEnd + count - 1 /\ count > 0
    BY <1>1, <1>3
  <2>2. QED
    BY <1>5, <1>6, <1>7, <2>1
<1>9. QED
  BY <1>4, <1>8 DEF Ranked

\* Every `for (to = from; to != 0; ...)` walk of the chart ends, for every
\* word, every sequence of segments and every number of positions.
THEOREM WalksEnd == Spec => []LinksEnd
<1> USE LatticeAssumption
<1>1. Init => Ranked
  <2>1. SUFFICES ASSUME Init PROVE Ranked
    OBVIOUS
  <2>2. [p \in Slots |-> 0] \in [Slots -> Nat] /\ 1 .. (positionEnd - 1) = {}
    BY <2>1 DEF Init
  <2>3. QED
    BY <2>2 DEF Ranked
<1>2. TypeOK /\ Ranked /\ [Next]_vars => Ranked'
  <2> SUFFICES ASSUME TypeOK, Ranked, [Next]_vars
               PROVE  Ranked'
    OBVIOUS
  <2>1. ASSUME NEW w \in Words, InitWord(w)
        PROVE  Ranked'
    BY <2>1, InitWordRanked
  <2>2. ASSUME NEW w \in Segments, AltSegment(w)
        PROVE  Ranked'
    BY <2>2, AltSegmentRanked
  <2>3. CASE UNCHANGED vars
    BY <2>3 DEF vars, Ranked
  <2>4. QED
    BY <2>1, <2>2, <2>3 DEF Next
<1>3. TypeOK /\ Ranked => LinksEnd
  BY RankedEnds
<1>4. QED
  BY <1>1, <1>2, <1>3, TypeCorrect, PTL DEF Spec

-----------------------------------------------------------------------------
\* An insertion takes nothing from the trie and replaces no info.
LEMMA InsertKeeps ==
  ASSUME NEW w, NEW count, NEW base, simti' = InsertSuffixes(w, count, base)
  PROVE  \A s \in DOMAIN simti : s \in DOMAIN simti' /\ (simti[s] # 0 => simti'[s] = simti[s])
  BY DEF InsertSuffixes, Fetch

\* The new positions are beyond those in use.
LEMMA AddedBeyond ==
  ASSUME LatticeAssumption, TypeOK, NEW count \in Nat, NEW w, NEW tail,
         key' = AddedKeys(w, count, key), next' = AddedLinks(count, tail, next)
  PROVE  \A p \in 0 .. (positionEnd - 1) : key'[p] = key[p] /\ next'[p] = next[p]
<1>. SUFFICES ASSUME NEW p \in 0 .. (positionEnd - 1)
              PROVE  key'[p] = key[p] /\ next'[p] = next[p]
  OBVIOUS
<1>1. positionEnd \in Nat /\ p \in Nat /\ p < positionEnd /\ positionEnd <= MaxSegment
  BY DEF TypeOK, LatticeAssumption
<1>2. /\ p \in Slots /\ p \notin positionEnd .. (positionEnd + count - 1)
      /\ p \notin positionEnd .. (positionEnd + count - 2)
      /\ ~(p = positionEnd + count - 1 /\ count > 0)
  BY <1>1 DEF Slots, LatticeAssumption
<1>. QED
  BY <1>2 DEF AddedKeys, AddedLinks

\* Whatever segments the rules ask for, in whatever order, and also when the
\* positions run out: the positions chart nodes remember keep their jamo and
\* their links, and the trie keeps the positions it has named.
THEOREM PositionsStay == Spec => HandedOutStays
<1>. DEFINE Stays ==
       /\ \A p \in 0 .. (positionEnd - 1) : key'[p] = key[p] /\ next'[p] = next[p]
       /\ \A s \in DOMAIN simti : s \in DOMAIN simti' /\ (simti[s] # 0 => simti'[s] = simti[s])
<1>1. ASSUME TypeOK, NEW w \in Words, InitWord(w) PROVE Stays
  <2>1. positionEnd = 0
    BY <1>1 DEF InitWord, TypeOK
  <2>2. 0 .. (positionEnd - 1) = {}
    BY <2>1
  <2>. QED
    BY <1>1, <2>2, InsertKeeps DEF InitWord
<1>2. ASSUME TypeOK, NEW w \in Segments, AltSegment(w) PROVE Stays
  <2>. DEFINE match == SearchLength(w)
              count == AtMost(Len(w) - match, MaxSegment - positionEnd)
  <2>1. w \in Seq(Keys) /\ match \in 0 .. Len(w) /\ Len(w) \in Nat
    BY LatticeAssumption, SearchLengthType
  <2>2. count \in Nat
    BY <1>2, <2>1, LatticeAssumption DEF AtMost, TypeOK
  <2>. HIDE DEF match
  <2>3. PICK tail : key' = AddedKeys(w, count, key) /\ next' = AddedLinks(count, tail, next)
    BY <1>2 DEF AltSegment, match
  <2>4. simti' = InsertSuffixes(w, count, positionEnd)
    BY <1>2 DEF AltSegment, match
  <2>. QED
    BY <1>2, <2>2, <2>3, <2>4, AddedBeyond, InsertKeeps, LatticeAssumption
<1>3. TypeOK /\ Next => Stays
  BY <1>1, <1>2 DEF Next
<1>. QED
  BY <1>3, TypeCorrect, PTL DEF Spec, HandedOutStays

-----------------------------------------------------------------------------
(* Induction and recursion over a range of numbers *)

\* A set with 0 and with the successor of each of its elements has all.
LEMMA Induction ==
  ASSUME NEW N \in Nat, NEW S, 0 \in S, \A k \in 1 .. N : k - 1 \in S => k \in S
  PROVE  0 .. N \subseteq S
<1> DEFINE T == (0 .. N) \ S
           R == { ss \in Nat \X Nat : ss[1] < ss[2] }
<1>. SUFFICES ASSUME T # {} PROVE FALSE
  OBVIOUS
<1>1. IsWellFoundedOn(R, Nat)
  BY NatLessThanWellFounded DEF OpToRel
<1>2. T \subseteq Nat
  OBVIOUS
<1>3. PICK x \in T : \A y \in T : ~(<<y, x>> \in R)
  <2> HIDE DEF T, R
  <2>. QED
    BY <1>1, <1>2, WFMin
<1>4. x \in 1 .. N /\ x - 1 \in 0 .. N
  OBVIOUS
<1>5. x - 1 \notin T
  <2>1. x \in Nat /\ x - 1 \in Nat /\ x - 1 < x
    BY <1>4
  <2>. QED
    BY <1>3, <2>1
<1>. QED
  BY <1>3, <1>4, <1>5

IsStep(step, N, V) == step \in [V \X (1 .. N) -> V]
IsRun(f, N, V, base, step) ==
  f \in [0 .. N -> V] /\ f[0] = base /\ \A k \in 1 .. N : f[k] = step[<<f[k - 1], k>>]

\* What is defined by recursion exists.
LEMMA Recursion ==
  ASSUME NEW N \in Nat, NEW V, NEW base \in V, NEW step, IsStep(step, N, V)
  PROVE  \E f : IsRun(f, N, V, base, step)
<1> DEFINE Upto(n, f) == /\ f \in [0 .. n -> V]
                         /\ f[0] = base /\ \A k \in 1 .. n : f[k] = step[<<f[k - 1], k>>]
           S == { n \in 0 .. N : \E f \in [0 .. n -> V] : Upto(n, f) }
<1>0. \A k \in 1 .. N, v \in V : step[<<v, k>>] \in V
  BY DEF IsStep
<1>1. 0 \in S
  <2> DEFINE f == [k \in 0 .. 0 |-> base]
  <2>1. f \in [0 .. 0 -> V] /\ Upto(0, f)
    OBVIOUS
  <2> HIDE DEF f, Upto
  <2>. QED
    BY <2>1
<1>2. ASSUME NEW n \in 1 .. N, n - 1 \in S
      PROVE  n \in S
  <2>1. PICK f \in [0 .. (n - 1) -> V] : Upto(n - 1, f)
    BY <1>2
  <2> DEFINE g == [k \in 0 .. n |-> IF k = n THEN step[<<f[n - 1], n>>] ELSE f[k]]
  <2>2. f[n - 1] \in V /\ step[<<f[n - 1], n>>] \in V
    BY <1>0, <2>1
  <2>3. g \in [0 .. n -> V]
    BY <2>1, <2>2
  <2>4. g[0] = base
    BY <2>1
  <2>5. ASSUME NEW k \in 1 .. n
        PROVE  g[k] = step[<<g[k - 1], k>>]
    <3>1. CASE k = n
      <4>1. n \in 0 .. n /\ n - 1 \in 0 .. n /\ n - 1 # n
        OBVIOUS
      <4>2. g[n] = step[<<f[n - 1], n>>] /\ g[n - 1] = f[n - 1]
        BY <4>1
      <4>. QED
        BY <3>1, <4>2
    <3>2. CASE k # n
      <4>1. k \in 1 .. (n - 1)
        BY <3>2
      <4>2. f[k] = step[<<f[k - 1], k>>]
        BY <2>1, <4>1
      <4>3. g[k] = f[k] /\ g[k - 1] = f[k - 1]
        BY <4>1
      <4>. QED
        BY <4>2, <4>3
    <3>. QED
      BY <3>1, <3>2
  <2>6. Upto(n, g)
    BY <2>3, <2>4, <2>5
  <2> HIDE DEF g, Upto
  <2>. QED
    BY <2>3, <2>6
<1>3. 0 .. N \subseteq S
  <2> HIDE DEF S
  <2>. QED
    BY <1>1, <1>2, Induction
<1>4. N \in S
  <2> HIDE DEF S
  <2>. QED
    BY <1>3
<1>. QED
  BY <1>4 DEF IsRun

-----------------------------------------------------------------------------
(* The trie tells the truth *)

\* The position of a suffix holds its first jamo and leads to that of the
\* rest, or to the end where the positions have run out.
Local ==
  \A s \in DOMAIN simti :
    simti[s] # 0 =>
      /\ key[simti[s]] = s[1]
      /\ next[simti[s]] = 0 \/ (Tail(s) \in DOMAIN simti /\ next[simti[s]] = simti[Tail(s)])

\* While there are positions, every suffix of a suffix has its own.
Whole ==
  positionEnd < MaxSegment =>
    \A s \in DOMAIN simti :
      /\ simti[s] # 0
      /\ IF Len(s) = 1 THEN next[simti[s]] = 0
         ELSE Tail(s) \in DOMAIN simti /\ next[simti[s]] = simti[Tail(s)]

Truthful == /\ Local /\ Whole
            /\ started = "fresh" => DOMAIN simti = {}

\* The first element of a suffix, and the next shorter one.
LEMMA SuffixParts ==
  ASSUME NEW w \in Seq(Keys), NEW n \in 1 .. Len(w)
  PROVE  /\ Len(Suffix(w, n)) = n /\ Suffix(w, n)[1] = w[Len(w) - n + 1]
         /\ n > 1 => n - 1 \in 1 .. Len(w) /\ Tail(Suffix(w, n)) = Suffix(w, n - 1)
<1>1. Len(w) \in Nat /\ n \in Nat /\ Len(w) - n + 1 \in 1 .. Len(w)
  OBVIOUS
<1>2. ASSUME NEW m \in 1 .. Len(w)
      PROVE  /\ Suffix(w, m) \in Seq(Keys) /\ Len(Suffix(w, m)) = m
             /\ \A k \in 1 .. m : Suffix(w, m)[k] = w[Len(w) - m + k]
  <2>1. Len(w) - m + 1 \in 1 .. Len(w) /\ Len(w) - (Len(w) - m + 1) + 1 = m
    BY <1>1
  <2>2. /\ SubSeq(w, Len(w) - m + 1, Len(w)) \in Seq(Keys)
        /\ Len(SubSeq(w, Len(w) - m + 1, Len(w))) = m
        /\ \A k \in 1 .. m : SubSeq(w, Len(w) - m + 1, Len(w))[k] = w[(Len(w) - m + 1) + k - 1]
    BY <1>1, <2>1
  <2>3. \A k \in 1 .. m : (Len(w) - m + 1) + k - 1 = Len(w) - m + k
    BY <1>1
  <2>. QED
    BY <2>2, <2>3 DEF Suffix
<1>3. ASSUME n > 1
      PROVE  n - 1 \in 1 .. Len(w) /\ Tail(Suffix(w, n)) = Suffix(w, n - 1)
  <2>1. n - 1 \in 1 .. Len(w)
    BY <1>1, <1>3
  <2> DEFINE s == Suffix(w, n)
             r == Suffix(w, n - 1)
  <2>2. s \in Seq(Keys) /\ Len(s) = n /\ \A k \in 1 .. n : s[k] = w[Len(w) - n + k]
    BY <1>2
  <2>3. r \in Seq(Keys) /\ Len(r) = n - 1 /\ \A k \in 1 .. (n - 1) : r[k] = w[Len(w) - (n - 1) + k]
    BY <1>2, <2>1
  <2> HIDE DEF s, r
  <2>4. Tail(s) \in Seq(Keys) /\ Len(Tail(s)) = n - 1 /\ \A k \in 1 .. (n - 1) : Tail(s)[k] = s[k + 1]
    BY <1>1, <1>3, <2>2
  <2>5. \A k \in 1 .. (n - 1) : k + 1 \in 1 .. n /\ Len(w) - n + (k + 1) = Len(w) - (n - 1) + k
    BY <1>1
  <2>6. ASSUME NEW k \in 1 .. (n - 1)
        PROVE  Tail(s)[k] = r[k]
    <3>1. Tail(s)[k] = s[k + 1] /\ s[k + 1] = w[Len(w) - n + (k + 1)]
      BY <2>2, <2>4, <2>5
    <3>2. r[k] = w[Len(w) - (n - 1) + k]
      BY <2>3
    <3>. QED
      BY <2>5, <3>1, <3>2
  <2>7. Tail(s) = r
    BY <2>3, <2>4, <2>6
  <2>. QED
    BY <2>1, <2>7 DEF s, r
<1>4. 1 \in 1 .. n /\ Len(w) - n + 1 = Len(w) - n + 1
  BY <1>1
<1>. QED
  BY <1>2, <1>3, <1>4

\* What an insertion gives a suffix: the position it had, one of the new ones,
\* or none.
LEMMA InsertInfo ==
  ASSUME LatticeAssumption, TypeOK, NEW w \in Seq(Keys), NEW count \in 1 .. Len(w), NEW base \in Nat
  PROVE  LET t == InsertSuffixes(w, count, base)
         IN  /\ DOMAIN t = DOMAIN simti \cup { Suffix(w, n) : n \in 1 .. Len(w) }
             /\ \A s \in DOMAIN simti : simti[s] # 0 => t[s] = simti[s]
             /\ \A n \in 1 .. Len(w) : Fetch(Suffix(w, n)) = 0 =>
                  t[Suffix(w, n)] = IF n > Len(w) - count THEN base + (Len(w) - n) ELSE 0
             /\ \A s \in DOMAIN simti : s \notin Suffixes(w) /\ simti[s] = 0 => t[s] = 0
<1> DEFINE t == InsertSuffixes(w, count, base)
<1>1. count # 0 /\ Len(w) \in Nat
  OBVIOUS
<1>2. t = [ s \in DOMAIN simti \cup Suffixes(w) |->
              IF Fetch(s) # 0 THEN Fetch(s)
              ELSE IF s \in Suffixes(w) /\ Len(s) > Len(w) - count
                   THEN base + (Len(w) - Len(s)) ELSE 0 ]
  BY <1>1 DEF InsertSuffixes
<1>3. \A n \in 1 .. Len(w) : Suffix(w, n) \in Suffixes(w) /\ Len(Suffix(w, n)) = n
  BY SuffixParts DEF Suffixes
<1> HIDE DEF t
<1>4. DOMAIN t = DOMAIN simti \cup { Suffix(w, n) : n \in 1 .. Len(w) }
  BY <1>2 DEF Suffixes
<1>5. \A s \in DOMAIN simti : simti[s] # 0 => t[s] = simti[s]
  BY <1>2 DEF Fetch
<1>6. \A n \in 1 .. Len(w) : Fetch(Suffix(w, n)) = 0 =>
        t[Suffix(w, n)] = IF n > Len(w) - count THEN base + (Len(w) - n) ELSE 0
  BY <1>2, <1>3
<1>7. \A s \in DOMAIN simti : s \notin Suffixes(w) /\ simti[s] = 0 => t[s] = 0
  BY <1>2 DEF Fetch
<1>. QED
  BY <1>4, <1>5, <1>6, <1>7 DEF t

\* What a search finds of a word is the suffixes the trie knows, as long as
\* it knows every suffix of a suffix.
LEMMA SearchFinds ==
  ASSUME LatticeAssumption, TypeOK, Whole, positionEnd < MaxSegment, NEW w \in Seq(Keys)
  PROVE  \A n \in 1 .. Len(w) : Suffix(w, n) \in DOMAIN simti <=> n <= SearchLength(w)
<1> DEFINE L == Len(w)
           known(n) == Suffix(w, n) \in DOMAIN simti
           K == { n \in 1 .. L : \A m \in 1 .. n : known(m) }
<1>1. L \in Nat
  OBVIOUS
<1>2. \A n \in 1 .. L : n > 1 /\ known(n) => known(n - 1)
  <2>. SUFFICES ASSUME NEW n \in 1 .. L, n > 1, known(n)
                PROVE  known(n - 1)
    OBVIOUS
  <2>1. Len(Suffix(w, n)) = n /\ Tail(Suffix(w, n)) = Suffix(w, n - 1)
    BY SuffixParts
  <2>2. \A s \in DOMAIN simti : Len(s) # 1 => Tail(s) \in DOMAIN simti
    BY DEF Whole
  <2>3. Len(Suffix(w, n)) # 1 /\ Suffix(w, n) \in DOMAIN simti
    BY <2>1
  <2>. QED
    BY <2>1, <2>2, <2>3
<1> HIDE DEF known
<1> DEFINE S == { d \in 0 .. L : \A n \in 1 .. L : known(n) /\ n - d >= 1 => known(n - d) }
<1>3. 0 .. L \subseteq S
  <2>1. 0 \in S
    BY <1>1
  <2>2. ASSUME NEW d \in 1 .. L, d - 1 \in S
        PROVE  d \in S
    <3>. SUFFICES ASSUME NEW n \in 1 .. L, known(n), n - d >= 1
                  PROVE  known(n - d)
      BY <1>1
    <3>1. n - (d - 1) \in 1 .. L /\ n - (d - 1) > 1 /\ (n - (d - 1)) - 1 = n - d
      BY <1>1
    <3>2. known(n - (d - 1))
      BY <2>2, <3>1
    <3>3. known((n - (d - 1)) - 1)
      BY <1>2, <3>1, <3>2
    <3>. QED
      BY <3>1, <3>3
  <2> HIDE DEF S
  <2>. QED
    BY <1>1, <2>1, <2>2, Induction
<1>4. \A n \in 1 .. L : n \in K <=> known(n)
  <2>1. ASSUME NEW n \in 1 .. L, known(n), NEW m \in 1 .. n
        PROVE  known(m)
    <3>1. n - m \in 0 .. L /\ n - (n - m) = m /\ m >= 1
      BY <1>1
    <3>2. n - m \in S
      BY <1>3, <3>1
    <3>. QED
      BY <2>1, <3>1, <3>2
  <2>. QED
    BY <2>1
<1>5. \A n \in K : \A m \in 1 .. n : m \in K
  <2>. SUFFICES ASSUME NEW n \in K, NEW m \in 1 .. n
                PROVE  m \in K
    OBVIOUS
  <2>1. m \in 1 .. L /\ known(m)
    BY <1>1
  <2>. QED
    BY <1>4, <2>1
<1>6. \E j \in 0 .. L : K = 1 .. j
  <2> HIDE DEF K
  <2> DEFINE T == { j \in 0 .. L : \A m \in 1 .. j : m \in K }
  <2>1. 0 \in T
    BY <1>1
  <2>2. CASE \E j \in T : j + 1 \notin T
    <3>1. PICK j \in T : j + 1 \notin T
      BY <2>2
    <3>2. j + 1 \notin K \/ j + 1 \notin 0 .. L
      BY <3>1
    <3>3. \A n \in K : n <= j
      <4>. SUFFICES ASSUME NEW n \in K, n > j
                    PROVE  FALSE
        BY <1>1 DEF K
      <4>1. n \in 1 .. L /\ j + 1 \in 1 .. n /\ j + 1 \in 0 .. L
        BY <1>1, <3>1 DEF K
      <4>. QED
        BY <1>5, <3>2, <4>1
    <3>4. K = 1 .. j
      BY <1>1, <3>1, <3>3 DEF K
    <3>. QED
      BY <3>1, <3>4
  <2>3. CASE \A j \in T : j + 1 \in T
    <3>1. 0 .. L \subseteq T
      <4>1. \A k \in 1 .. L : k - 1 \in T => k \in T
        <5>. SUFFICES ASSUME NEW k \in 1 .. L, k - 1 \in T
                      PROVE  k \in T
          OBVIOUS
        <5>1. (k - 1) + 1 = k
          OBVIOUS
        <5>2. (k - 1) + 1 \in T
          BY <2>3
        <5>. QED
          BY <5>1, <5>2
      <4> HIDE DEF T
      <4>. QED
        BY <1>1, <2>1, <4>1, Induction
    <3>2. L + 1 \in T
      BY <1>1, <2>3, <3>1
    <3>. QED
      BY <1>1, <3>2
  <2>. QED
    BY <2>2, <2>3
<1>7. PICK j \in 0 .. L : K = 1 .. j
  BY <1>6
<1>8. SearchLength(w) = j
  <2>1. Cardinality(1 .. j) = IF 1 > j THEN 0 ELSE j - 1 + 1
    BY FS_Interval
  <2>2. SearchLength(w) = Cardinality(K)
    BY DEF SearchLength, known
  <2> HIDE DEF K
  <2>. QED
    BY <1>1, <1>7, <2>1, <2>2
<1>. QED
  BY <1>1, <1>4, <1>7, <1>8 DEF known

\* Where nothing is added everything stays as it is.
LEMMA NothingAdded ==
  ASSUME LatticeAssumption, TypeOK, NEW w, NEW base, NEW tail
  PROVE  /\ AddedKeys(w, 0, key) = key /\ AddedLinks(0, tail, next) = next
         /\ w \in Seq(Keys) => InsertSuffixes(w, 0, base) = simti
<1>1. positionEnd \in Nat /\ key = [p \in Slots |-> key[p]] /\ next = [p \in Slots |-> next[p]]
  BY DEF TypeOK, LatticeAssumption
<1>2. AddedKeys(w, 0, key) = key
  BY <1>1 DEF AddedKeys, Slots
<1>3. AddedLinks(0, tail, next) = next
  BY <1>1 DEF AddedLinks, Slots
<1>4. ASSUME w \in Seq(Keys)
      PROVE  InsertSuffixes(w, 0, base) = simti
  <2>1. \A s \in Suffixes(w) : ~(Len(s) > Len(w) - 0)
    <3>1. \A n \in 1 .. Len(w) : ~(Len(Suffix(w, n)) > Len(w) - 0)
      BY <1>4, SuffixParts
    <3>. QED
      BY <3>1 DEF Suffixes
  <2>2. simti = [s \in DOMAIN simti |-> simti[s]]
    BY DEF TypeOK
  <2>3. \A s \in DOMAIN simti : Fetch(s) = simti[s]
    BY DEF Fetch
  <2>4. InsertSuffixes(w, 0, base) = [s \in DOMAIN simti |-> IF Fetch(s) # 0 THEN Fetch(s) ELSE 0]
    BY <2>1 DEF InsertSuffixes
  <2>. QED
    BY <2>2, <2>3, <2>4
<1>. QED
  BY <1>2, <1>3, <1>4

\* The word: its suffixes have the positions from 1 on, as many as fit.
LEMMA InitWordTruthful ==
  ASSUME LatticeAssumption, TypeOK, Truthful, NEW w \in Words, InitWord(w)
  PROVE  Truthful'
<1> DEFINE L == Len(w)
           count == AtMost(L, MaxSegment - 1)
<1>1. w \in Seq(Keys) /\ L \in Nat /\ MaxSegment \in Nat \ {0}
  BY DEF LatticeAssumption
<1>2. count \in 0 .. L /\ count <= MaxSegment - 1 /\ (count < MaxSegment - 1 => count = L)
  BY <1>1 DEF AtMost
<1>3. /\ positionEnd' = count + 1 /\ started' # "fresh"
      /\ key' = [ p \in Slots |-> IF p \in 1 .. count THEN w[p] ELSE StartKey ]
      /\ next' = [ p \in Slots |-> IF p < count THEN p + 1 ELSE 0 ]
      /\ simti' = InsertSuffixes(w, count, 1)
      /\ DOMAIN simti = {}
  BY DEF InitWord, Truthful
<1> HIDE DEF count
<1>4. CASE count = 0
  <2>1. simti' = simti
    BY <1>1, <1>3, <1>4, NothingAdded
  <2>. QED
    BY <1>3, <2>1 DEF Truthful, Local, Whole
<1>5. CASE count # 0
  <2>1. /\ DOMAIN simti' = { Suffix(w, n) : n \in 1 .. L }
        /\ \A n \in 1 .. L : simti'[Suffix(w, n)] = IF n > L - count THEN 1 + (L - n) ELSE 0
    <3>1. count \in 1 .. Len(w) /\ 1 \in Nat
      BY <1>1, <1>2, <1>5
    <3>2. \A n \in 1 .. L : Fetch(Suffix(w, n)) = 0
      BY <1>3 DEF Fetch
    <3>. QED
      BY <1>1, <1>3, <3>1, <3>2, InsertInfo, ZenonT(60)
  <2>2. ASSUME NEW n \in 1 .. L, n > L - count
        PROVE  LET s == Suffix(w, n)
               IN  /\ simti'[s] # 0 /\ key'[simti'[s]] = s[1]
                   /\ n = 1 => next'[simti'[s]] = 0
                   /\ n > 1 => Tail(s) \in DOMAIN simti' /\ next'[simti'[s]] = simti'[Tail(s)]
    <3> DEFINE p == 1 + (L - n)
    <3>1. p \in 1 .. count /\ p \in Slots /\ p = L - n + 1 /\ p # 0 /\ (n = 1 => p = L /\ p = count)
      BY <1>1, <1>2, <2>2 DEF Slots
    <3>2. simti'[Suffix(w, n)] = p
      BY <2>1, <2>2
    <3>3. key'[p] = w[p]
      BY <1>3, <3>1
    <3>4. ASSUME n > 1
          PROVE  Tail(Suffix(w, n)) \in DOMAIN simti' /\ next'[p] = simti'[Tail(Suffix(w, n))]
      <4>1. n - 1 \in 1 .. L /\ Tail(Suffix(w, n)) = Suffix(w, n - 1)
        BY <1>1, <3>4, SuffixParts
      <4>2. simti'[Suffix(w, n - 1)] = IF n - 1 > L - count THEN 1 + (L - (n - 1)) ELSE 0
        BY <2>1, <4>1
      <4>3. next'[p] = IF p < count THEN p + 1 ELSE 0
        BY <1>3, <3>1
      <4>4. (p < count <=> n - 1 > L - count) /\ 1 + (L - (n - 1)) = p + 1
        BY <1>1, <1>2, <4>1
      <4>. QED
        BY <2>1, <4>1, <4>2, <4>3, <4>4
    <3>5. n = 1 => next'[p] = 0
      BY <1>3, <3>1
    <3>6. Suffix(w, n)[1] = w[p]
      BY <1>1, <3>1, SuffixParts
    <3> HIDE DEF p
    <3>. QED
      BY <3>1, <3>2, <3>3, <3>4, <3>5, <3>6
  <2>3. \A n \in 1 .. L : n > 1 \/ n = 1
    OBVIOUS
  <2>4. Local'
    <3>. SUFFICES ASSUME NEW s \in DOMAIN simti', simti'[s] # 0
                  PROVE  /\ key'[simti'[s]] = s[1]
                         /\ next'[simti'[s]] = 0
                            \/ (Tail(s) \in DOMAIN simti' /\ next'[simti'[s]] = simti'[Tail(s)])
      BY DEF Local
    <3>1. PICK n \in 1 .. L : s = Suffix(w, n)
      BY <2>1
    <3>2. n > L - count
      BY <2>1, <3>1
    <3>. QED
      BY <2>2, <2>3, <3>1, <3>2
  <2>5. Whole'
    <3>. SUFFICES ASSUME positionEnd' < MaxSegment, NEW s \in DOMAIN simti'
                  PROVE  /\ simti'[s] # 0
                         /\ IF Len(s) = 1 THEN next'[simti'[s]] = 0
                            ELSE Tail(s) \in DOMAIN simti' /\ next'[simti'[s]] = simti'[Tail(s)]
      BY DEF Whole
    <3>1. PICK n \in 1 .. L : s = Suffix(w, n)
      BY <2>1
    <3>2. n > L - count /\ Len(s) = n
      BY <1>1, <1>2, <1>3, <3>1, SuffixParts
    <3>. QED
      BY <2>2, <2>3, <3>1, <3>2
  <2>. QED
    BY <1>3, <2>4, <2>5 DEF Truthful
<1>. QED
  BY <1>4, <1>5

\* A changed suffix: those of its suffixes the trie does not know get the new
\* positions, which lead to each other and on to the longest one it knows.
LEMMA AltSegmentTruthful ==
  ASSUME LatticeAssumption, TypeOK, Truthful, NEW w \in Segments, AltSegment(w)
  PROVE  Truthful'
<1> DEFINE L == Len(w)
           match == SearchLength(w)
           to == IF match = 0 THEN 0 ELSE Fetch(Suffix(w, match))
           count == AtMost(L - match, MaxSegment - positionEnd)
           tail == IF count = L - match THEN to ELSE 0
           P == positionEnd
<1>1. w \in Seq(Keys) /\ L \in Nat /\ MaxSegment \in Nat \ {0} /\ P \in 0 .. MaxSegment /\ P # 0
  BY DEF LatticeAssumption, TypeOK, AltSegment
<1>2. match \in 0 .. L
  BY <1>1, SearchLengthType
<1>3. /\ P' = P + count /\ started' # "fresh"
      /\ key' = AddedKeys(w, count, key)
      /\ next' = AddedLinks(count, tail, next)
      /\ simti' = InsertSuffixes(w, count, P)
  BY DEF AltSegment
<1> HIDE DEF match
<1>4. /\ count \in 0 .. (L - match) /\ P + count <= MaxSegment
      /\ P + count < MaxSegment => count = L - match
      /\ P = MaxSegment => count = 0
  BY <1>1, <1>2 DEF AtMost
<1> HIDE DEF count
<1>5. CASE count = 0
  <2>1. P' = P /\ key' = key /\ next' = next /\ simti' = simti
    BY <1>1, <1>3, <1>5, NothingAdded
  <2>. QED
    BY <1>3, <2>1 DEF Truthful, Local, Whole
<1>6. CASE count # 0
  <2>1. count \in 1 .. L /\ P < MaxSegment /\ P \in Nat
    BY <1>1, <1>2, <1>4, <1>6
  <2>2. \A n \in 1 .. L : Suffix(w, n) \in DOMAIN simti <=> n <= match
    BY <1>1, <2>1, SearchFinds DEF Truthful, match
  <2>3. \A s \in DOMAIN simti :
          /\ simti[s] # 0 /\ key[simti[s]] = s[1]
          /\ IF Len(s) = 1 THEN next[simti[s]] = 0
             ELSE Tail(s) \in DOMAIN simti /\ next[simti[s]] = simti[Tail(s)]
    BY <2>1 DEF Truthful, Local, Whole
  <2>4. /\ DOMAIN simti' = DOMAIN simti \cup { Suffix(w, n) : n \in 1 .. L }
        /\ \A s \in DOMAIN simti : simti'[s] = simti[s]
        /\ \A n \in 1 .. L : Fetch(Suffix(w, n)) = 0 =>
             simti'[Suffix(w, n)] = IF n > L - count THEN P + (L - n) ELSE 0
    <3> DEFINE t == InsertSuffixes(w, count, P)
    <3>1. /\ DOMAIN t = DOMAIN simti \cup { Suffix(w, n) : n \in 1 .. L }
          /\ \A s \in DOMAIN simti : simti[s] # 0 => t[s] = simti[s]
          /\ \A n \in 1 .. L : Fetch(Suffix(w, n)) = 0 =>
               t[Suffix(w, n)] = IF n > L - count THEN P + (L - n) ELSE 0
      <4> HIDE DEF P
      <4>. QED
        BY <1>1, <2>1, InsertInfo, ZenonT(60)
    <3> HIDE DEF t
    <3>2. simti' = t
      BY <1>3 DEF t
    <3>3. \A s \in DOMAIN simti : simti'[s] = simti[s]
      BY <2>3, <3>1, <3>2
    <3>. QED
      BY <3>1, <3>2, <3>3
  <2>5. ASSUME NEW n \in 1 .. L, n > match
        PROVE  simti'[Suffix(w, n)] = IF n > L - count THEN P + (L - n) ELSE 0
    <3>1. match \in Nat /\ ~(n <= match)
      BY <1>2, <2>5
    <3>2. Suffix(w, n) \notin DOMAIN simti
      BY <2>2, <3>1
    <3>3. Fetch(Suffix(w, n)) = 0
      BY <3>2 DEF Fetch
    <3>. QED
      BY <2>4, <3>3
  <2>6. ASSUME NEW s \in DOMAIN simti
        PROVE  /\ simti'[s] # 0 /\ key'[simti'[s]] = s[1]
               /\ IF Len(s) = 1 THEN next'[simti'[s]] = 0
                  ELSE Tail(s) \in DOMAIN simti' /\ next'[simti'[s]] = simti'[Tail(s)]
    <3>1. simti'[s] = simti[s] /\ simti[s] \in 0 .. (P - 1) /\ simti[s] # 0
      BY <1>1, <2>3, <2>4 DEF TypeOK, Slots
    <3>2. key'[simti[s]] = key[simti[s]] /\ next'[simti[s]] = next[simti[s]]
      BY <1>3, <2>1, <3>1, AddedBeyond
    <3>. QED
      BY <2>3, <2>4, <3>1, <3>2
  <2>7. ASSUME NEW n \in 1 .. L, n > match, n > L - count
        PROVE  LET s == Suffix(w, n)
               IN  /\ simti'[s] # 0 /\ key'[simti'[s]] = s[1]
                   /\ n = 1 => next'[simti'[s]] = 0
                   /\ n > 1 => \/ Tail(s) \in DOMAIN simti' /\ next'[simti'[s]] = simti'[Tail(s)]
                               \/ next'[simti'[s]] = 0 /\ count # L - match
    <3> DEFINE p == P + (L - n)
    <3>1. /\ p \in P .. (P + count - 1) /\ p \in Slots /\ p - P + 1 = L - n + 1 /\ p # 0
          /\ n > L - count + 1 <=> p \in P .. (P + count - 2)
          /\ n = L - count + 1 <=> p = P + count - 1
      BY <1>1, <1>4, <2>1, <2>7 DEF Slots
    <3>2. simti'[Suffix(w, n)] = p
      BY <2>5, <2>7
    <3>3. key'[p] = w[L - n + 1]
      BY <1>3, <3>1 DEF AddedKeys
    <3>4. ASSUME n > L - count + 1
          PROVE  n > 1 /\ Tail(Suffix(w, n)) \in DOMAIN simti' /\ next'[p] = simti'[Tail(Suffix(w, n))]
      <4>1. n > 1 /\ n - 1 \in 1 .. L /\ n - 1 > match /\ n - 1 > L - count /\ P + (L - (n - 1)) = p + 1
        BY <1>1, <1>2, <1>4, <2>1, <3>4
      <4>2. Tail(Suffix(w, n)) = Suffix(w, n - 1)
        BY <1>1, <4>1, SuffixParts
      <4>3. simti'[Suffix(w, n - 1)] = p + 1
        BY <2>5, <4>1
      <4>4. next'[p] = p + 1
        BY <1>3, <3>1, <3>4 DEF AddedLinks
      <4>. QED
        BY <2>4, <4>1, <4>2, <4>3, <4>4
    <3>5. ASSUME n = L - count + 1
          PROVE  /\ n = 1 => next'[p] = 0
                 /\ n > 1 => \/ Tail(Suffix(w, n)) \in DOMAIN simti' /\ next'[p] = simti'[Tail(Suffix(w, n))]
                             \/ next'[p] = 0 /\ count # L - match
      <4>1. next'[p] = tail
        <5>1. p \notin P .. (P + count - 2) /\ p = P + count - 1 /\ count > 0
          BY <1>1, <2>1, <3>1, <3>5
        <5>. QED
          BY <1>3, <3>1, <5>1 DEF AddedLinks
      <4>2. CASE count # L - match
        BY <4>1, <4>2
      <4>3. CASE count = L - match /\ match = 0
        <5>1. n = 1 /\ tail = 0
          BY <1>1, <3>5, <4>3
        <5>. QED
          BY <4>1, <5>1
      <4>4. CASE count = L - match /\ match # 0
        <5>1. n > 1 /\ n # 1 /\ n - 1 = match /\ match \in 1 .. L
          BY <1>1, <1>2, <3>5, <4>4
        <5>2. Tail(Suffix(w, n)) = Suffix(w, match)
          BY <1>1, <5>1, SuffixParts
        <5>3. Suffix(w, match) \in DOMAIN simti
          BY <2>2, <5>1
        <5>4. tail = simti[Suffix(w, match)]
          BY <4>4, <5>3 DEF Fetch
        <5> HIDE DEF tail, p
        <5>5. Suffix(w, match) \in DOMAIN simti' /\ simti'[Suffix(w, match)] = tail
          BY <2>4, <5>3, <5>4
        <5>. QED
          BY <4>1, <5>1, <5>2, <5>5
      <4>. QED
        BY <4>2, <4>3, <4>4
    <3>6. n > L - count + 1 \/ n = L - count + 1
      BY <1>1, <1>4, <2>7
    <3>7. Suffix(w, n)[1] = w[L - n + 1]
      BY <1>1, SuffixParts
    <3> HIDE DEF p, tail, to
    <3>. QED
      BY <3>1, <3>2, <3>3, <3>4, <3>5, <3>6, <3>7
  <2>8. \A s \in DOMAIN simti' : s \in DOMAIN simti \/ \E n \in 1 .. L : s = Suffix(w, n) /\ n > match
    BY <1>2, <2>2, <2>4
  <2>9. Local'
    <3>. SUFFICES ASSUME NEW s \in DOMAIN simti', simti'[s] # 0
                  PROVE  /\ key'[simti'[s]] = s[1]
                         /\ next'[simti'[s]] = 0
                            \/ (Tail(s) \in DOMAIN simti' /\ next'[simti'[s]] = simti'[Tail(s)])
      BY DEF Local
    <3>1. CASE s \in DOMAIN simti
      BY <2>6, <3>1
    <3>2. ASSUME NEW n \in 1 .. L, s = Suffix(w, n), n > match
          PROVE  /\ key'[simti'[s]] = s[1]
                 /\ next'[simti'[s]] = 0
                    \/ (Tail(s) \in DOMAIN simti' /\ next'[simti'[s]] = simti'[Tail(s)])
      <4>1. n > L - count
        BY <2>5, <3>2
      <4>2. n > 1 \/ n = 1
        OBVIOUS
      <4>. QED
        BY <2>7, <3>2, <4>1, <4>2
    <3>. QED
      BY <2>8, <3>1, <3>2
  <2>10. Whole'
    <3>. SUFFICES ASSUME P' < MaxSegment, NEW s \in DOMAIN simti'
                  PROVE  /\ simti'[s] # 0
                         /\ IF Len(s) = 1 THEN next'[simti'[s]] = 0
                            ELSE Tail(s) \in DOMAIN simti' /\ next'[simti'[s]] = simti'[Tail(s)]
      BY DEF Whole
    <3>1. CASE s \in DOMAIN simti
      BY <2>6, <3>1
    <3>2. ASSUME NEW n \in 1 .. L, s = Suffix(w, n), n > match
          PROVE  /\ simti'[s] # 0
                 /\ IF Len(s) = 1 THEN next'[simti'[s]] = 0
                    ELSE Tail(s) \in DOMAIN simti' /\ next'[simti'[s]] = simti'[Tail(s)]
      <4>1. count = L - match /\ n > L - count /\ (n > 1 \/ n = 1) /\ Len(s) = n
        BY <1>1, <1>2, <1>3, <1>4, <3>2, SuffixParts
      <4>. QED
        BY <2>7, <3>2, <4>1
    <3>. QED
      BY <2>8, <3>1, <3>2
  <2>. QED
    BY <1>3, <2>9, <2>10 DEF Truthful
<1>. QED
  BY <1>5, <1>6

\* What stands in front of a prefix of the rest is a prefix.
LEMMA PrefixGrows ==
  ASSUME NEW s \in Seq(Keys), s # <<>>, NEW u, u \in Seq(Keys \cup {StartKey}), IsPrefixOf(u, Tail(s))
  PROVE  IsPrefixOf(<<s[1]>> \o u, s)
<1> DEFINE J == Keys \cup {StartKey}
           v == <<s[1]>> \o u
           m == Len(u)
<1>1. /\ Tail(s) \in Seq(Keys) /\ Len(Tail(s)) = Len(s) - 1 /\ Len(s) \in Nat /\ Len(s) >= 1
      /\ \A k \in 1 .. (Len(s) - 1) : Tail(s)[k] = s[k + 1]
  OBVIOUS
<1>2. m \in Nat /\ m <= Len(s) - 1 /\ u = SubSeq(Tail(s), 1, m)
  BY <1>1 DEF IsPrefixOf
<1>3. \A k \in 1 .. m : u[k] = s[k + 1]
  <2>. SUFFICES ASSUME NEW k \in 1 .. m
                PROVE  u[k] = s[k + 1]
    OBVIOUS
  <2>1. k \in 1 .. (Len(s) - 1) /\ k \in 1 .. Len(Tail(s))
    BY <1>1, <1>2
  <2>2. SubSeq(Tail(s), 1, m)[k] = Tail(s)[k]
    BY <1>1, <1>2, <2>1
  <2>. QED
    BY <1>1, <1>2, <2>1, <2>2
<1>4. s[1] \in J /\ <<s[1]>> \in Seq(J)
  BY <1>1
<1>5. v \in Seq(J) /\ Len(v) = m + 1 /\ v[1] = s[1] /\ \A k \in 1 .. m : v[k + 1] = u[k]
  BY <1>2, <1>4
<1>6. SubSeq(s, 1, m + 1) \in Seq(J) /\ Len(SubSeq(s, 1, m + 1)) = m + 1
      /\ \A k \in 1 .. (m + 1) : SubSeq(s, 1, m + 1)[k] = s[k]
  BY <1>1, <1>2
<1> HIDE DEF v
<1>7. ASSUME NEW k \in 1 .. (m + 1)
      PROVE  v[k] = s[k]
  <2>1. k = 1 \/ (k - 1 \in 1 .. m /\ (k - 1) + 1 = k)
    BY <1>2
  <2>2. CASE k = 1
    BY <1>5, <2>2
  <2>3. CASE k - 1 \in 1 .. m /\ (k - 1) + 1 = k
    <3>1. v[(k - 1) + 1] = u[k - 1] /\ u[k - 1] = s[(k - 1) + 1]
      BY <1>3, <1>5, <2>3
    <3>. QED
      BY <2>3, <3>1
  <2>. QED
    BY <2>1, <2>2, <2>3
<1>8. v = SubSeq(s, 1, m + 1)
  BY <1>5, <1>6, <1>7
<1>. QED
  BY <1>1, <1>2, <1>5, <1>8 DEF IsPrefixOf, v

\* The text from the position of a suffix is a prefix of that suffix.
LEMMA TextIsPrefix ==
  ASSUME LatticeAssumption, TypeOK, Local, NEW s0 \in DOMAIN simti, simti[s0] # 0
  PROVE  IsPrefixOf(Remaining(simti[s0]), s0)
<1> DEFINE N == MaxSegment
           J == Keys \cup {StartKey}
           V == [Slots -> Seq(J)]
           base == [q \in Slots |-> <<>>]
           then(v) == [q \in Slots |-> IF q = 0 THEN <<>> ELSE <<key[q]>> \o v[next[q]]]
           step == [x \in V \X (1 .. N) |-> then(x[1])]
           f == CHOOSE f : f = [fuel \in 0 .. N |-> IF fuel = 0 THEN base ELSE then(f[fuel - 1])]
<1>1. N \in Nat /\ base \in V
  BY DEF LatticeAssumption
<1>2. \A v \in V : then(v) \in V
  <2>. SUFFICES ASSUME NEW v \in V, NEW q \in Slots
                PROVE  (IF q = 0 THEN <<>> ELSE <<key[q]>> \o v[next[q]]) \in Seq(J)
    OBVIOUS
  <2>1. key[q] \in J /\ next[q] \in Slots
    BY DEF TypeOK
  <2> HIDE DEF J
  <2>2. v[next[q]] \in Seq(J) /\ <<key[q]>> \in Seq(J)
    BY <2>1
  <2>. QED
    BY <2>2
<1>3. \A v \in V : /\ then(v)[0] = <<>>
                   /\ \A q \in Slots \ {0} : then(v)[q] = <<key[q]>> \o v[next[q]]
  BY DEF Slots, LatticeAssumption
<1>4. IsStep(step, N, V)
  <2> HIDE DEF V, then
  <2>. QED
    BY <1>2 DEF IsStep
<1>5. \A v \in V, k \in 1 .. N : step[<<v, k>>] = then(v)
  <2> HIDE DEF V, then
  <2>. QED
    OBVIOUS
<1>6. base[0] = <<>> /\ \A q \in Slots : base[q] = <<>>
  BY DEF Slots, LatticeAssumption
<1>7. \A v \in V, q \in Slots : v[q] \in Seq(J)
  OBVIOUS
<1> HIDE DEF N, V, base, step, then
<1>8. PICK g : IsRun(g, N, V, base, step)
  BY <1>1, <1>4, Recursion
<1>9. \A k \in 1 .. N : g[k] = then(g[k - 1])
  <2>. SUFFICES ASSUME NEW k \in 1 .. N
                PROVE  g[k] = then(g[k - 1])
    OBVIOUS
  <2>1. k - 1 \in 0 .. N
    BY <1>1
  <2>2. g[k - 1] \in V
    BY <1>8, <2>1 DEF IsRun
  <2>. QED
    BY <1>5, <1>8, <2>2 DEF IsRun
<1>10. g = [k \in 0 .. N |-> IF k = 0 THEN base ELSE then(g[k - 1])]
  <2> DEFINE h == [k \in 0 .. N |-> IF k = 0 THEN base ELSE then(g[k - 1])]
  <2>1. \A k \in 0 .. N : k # 0 => k \in 1 .. N
    BY <1>1
  <2>2. \A k \in 0 .. N : g[k] = h[k]
    BY <1>8, <1>9, <2>1 DEF IsRun
  <2>3. DOMAIN g = 0 .. N /\ DOMAIN h = 0 .. N /\ g = [k \in 0 .. N |-> g[k]]
    BY <1>8 DEF IsRun
  <2>. QED
    BY <2>2, <2>3
<1>11. f = [k \in 0 .. N |-> IF k = 0 THEN base ELSE then(f[k - 1])]
  BY <1>10
<1>12. Remaining(simti[s0]) = f[N][simti[s0]]
  BY DEF Remaining, f, N, base, then
<1> HIDE DEF f
<1> DEFINE S == { k \in 0 .. N :
                    /\ f[k] \in V /\ f[k][0] = <<>>
                    /\ \A s \in DOMAIN simti : simti[s] # 0 => IsPrefixOf(f[k][simti[s]], s) }
<1>13. \A s \in DOMAIN simti : s \in Seq(Keys) /\ s # <<>> /\ simti[s] \in Slots
  BY DEF TypeOK
<1>14. \A s \in Seq(Keys) : IsPrefixOf(<<>>, s)
  <2>. SUFFICES ASSUME NEW s \in Seq(Keys) PROVE IsPrefixOf(<<>>, s)
    OBVIOUS
  <2>1. SubSeq(s, 1, 0) = <<>> /\ Len(<<>>) = 0 /\ Len(s) \in Nat
    OBVIOUS
  <2>. QED
    BY <2>1 DEF IsPrefixOf
<1>15. 0 \in S
  <2>1. f[0] = base /\ 0 \in 0 .. N
    BY <1>1, <1>11
  <2>. QED
    BY <1>1, <1>6, <1>13, <1>14, <2>1
<1>16. ASSUME NEW k \in 1 .. N, k - 1 \in S
       PROVE  k \in S
  <2>1. k \in 0 .. N /\ k # 0
    BY <1>1
  <2> DEFINE v == f[k - 1]
  <2>2. f[k] = then(v)
    BY <1>11, <2>1
  <2>3. /\ v \in V /\ v[0] = <<>>
        /\ \A s \in DOMAIN simti : simti[s] # 0 => IsPrefixOf(v[simti[s]], s)
    BY <1>16
  <2> HIDE DEF v
  <2>4. then(v) \in V /\ then(v)[0] = <<>>
    BY <1>2, <1>3, <2>3
  <2>5. ASSUME NEW s \in DOMAIN simti, simti[s] # 0
        PROVE  IsPrefixOf(then(v)[simti[s]], s)
    <3> DEFINE p == simti[s]
    <3>1. s \in Seq(Keys) /\ s # <<>> /\ p \in Slots \ {0}
      BY <1>13, <2>5
    <3>2. key[p] = s[1] /\ (next[p] = 0 \/ (Tail(s) \in DOMAIN simti /\ next[p] = simti[Tail(s)]))
      BY <2>5 DEF Local
    <3>3. next[p] \in Slots
      BY <3>1 DEF TypeOK
    <3> HIDE DEF p
    <3>4. then(v)[p] = <<s[1]>> \o v[next[p]]
      BY <1>3, <2>3, <3>1, <3>2
    <3>5. Tail(s) \in Seq(Keys)
      BY <3>1
    <3>6. IsPrefixOf(v[next[p]], Tail(s))
      <4>1. CASE next[p] = 0
        BY <1>14, <2>3, <3>5, <4>1
      <4>2. CASE next[p] # 0
        BY <2>3, <3>2, <4>2
      <4>. QED
        BY <4>1, <4>2
    <3>7. v[next[p]] \in Seq(J)
      BY <1>7, <2>3, <3>3
    <3>8. IsPrefixOf(<<s[1]>> \o v[next[p]], s)
      BY <3>1, <3>6, <3>7, PrefixGrows
    <3>. QED
      BY <3>4, <3>8 DEF p
  <2>. QED
    BY <2>1, <2>2, <2>4, <2>5
<1>17. N \in S
  <2>1. 0 .. N \subseteq S
    <3> HIDE DEF S
    <3>. QED
      BY <1>1, <1>15, <1>16, Induction
  <2>. QED
    BY <1>1, <2>1
<1>. QED
  BY <1>12, <1>17

\* Whatever segments the rules ask for, and also when the positions run out
\* half way through one, a position the trie names has the text it was made
\* for: all of it, or its beginning where the positions have run out.
THEOREM TrieHolds == Spec => []TrieTellsTruth
<1> USE LatticeAssumption
<1>1. Init => Truthful
  BY DEF Init, Truthful, Local, Whole
<1>2. TypeOK /\ Truthful /\ [Next]_vars => Truthful'
  <2> SUFFICES ASSUME TypeOK, Truthful, [Next]_vars
               PROVE  Truthful'
    OBVIOUS
  <2>1. ASSUME NEW w \in Words, InitWord(w)
        PROVE  Truthful'
    BY <2>1, InitWordTruthful
  <2>2. ASSUME NEW w \in Segments, AltSegment(w)
        PROVE  Truthful'
    BY <2>2, AltSegmentTruthful
  <2>3. CASE UNCHANGED vars
    BY <2>3 DEF vars, Truthful, Local, Whole
  <2>4. QED
    BY <2>1, <2>2, <2>3 DEF Next
<1>3. TypeOK /\ Truthful => TrieTellsTruth
  <2>. SUFFICES ASSUME TypeOK, Truthful
                PROVE  TrieTellsTruth
    OBVIOUS
  <2>1. \A s \in DOMAIN simti : simti[s] # 0 => IsPrefixOf(Remaining(simti[s]), s)
    BY TextIsPrefix DEF Truthful
  <2>. QED
    BY <2>1 DEF Truthful, Local, Whole, TrieTellsTruth
<1>4. QED
  BY <1>1, <1>2, <1>3, TypeCorrect, PTL DEF Spec

=============================================================================
