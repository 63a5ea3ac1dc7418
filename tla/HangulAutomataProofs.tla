------------------------ MODULE HangulAutomataProofs ------------------------
(***************************************************************************)
(* Proofs about HangulAutomata, for every table of letters and keys that   *)
(* satisfies TablesAssumption and for inputs of any length.                *)
(***************************************************************************)
EXTENDS HangulAutomata, SequenceTheorems, WellFoundedInduction, TLAPS

Consonants == { cp \in Jaeums : Simple(cp) }
Finals == { cp \in Jaeums : Contains(Jongseong, cp) }

\* A component as the automaton builds it of simple consonants and vowels: it
\* has no final consonant without the letters before it, and every letter is
\* in the table for its place.
Building(c) ==
  /\ c \in [cho : {0} \cup Consonants, jung : {0} \cup Moeums, jong : {0} \cup Finals]
  /\ c.jong # 0 => c.cho # 0 /\ c.jung # 0

\* The input is a text.
Text == input \in Seq(Nat)

\* What the proofs are about: a compound consonant in the input.
Offending == \E j \in 1 .. Len(input) : IsJaeum(input[j]) /\ Compound(input[j])

\* FailsOnlyOnCompound says nothing of the component that is being composed.
IInv == ~Offending => at # "error" /\ Building(comp)

-----------------------------------------------------------------------------
\* Consonants and vowels are different, and no jamo is 0.
LEMMA JamoFacts == Jaeums \cap Moeums = {} /\ 0 \notin Jaeums \cup Moeums
  BY DEF Jaeums, Moeums

\* A letter of its kind is in the table for its place.
LEMMA InTables ==
  /\ \A cp \in Consonants : Contains(Choseong, cp)
  /\ \A cp \in Moeums : Contains(Jungseong, cp)
  /\ \A cp \in Finals : Contains(Jongseong, cp)
  BY TablesAssumption, SMTT(30) DEF PartTables, Consonants, Finals

\* A jamo that is one key is the jamo of that key.
LEMMA SimpleKey ==
  ASSUME NEW cp \in Jaeums \cup Moeums, Simple(cp)
  PROVE  JamoKey[cp][1] \in DOMAIN KeyToJamo /\ KeyToJamo[JamoKey[cp][1]] = cp
<1>1. JamoKey[cp] \in Seq(DOMAIN KeyToJamo) /\ KeyToJamo[JamoKey[cp][1]] = cp
  BY TablesAssumption DEF KeyTables
<1>2. Len(JamoKey[cp]) = 1
  BY DEF Simple
<1>. QED
  BY <1>1, <1>2

\* What a key types is simple.
LEMMA KeyTypes ==
  ASSUME NEW k \in DOMAIN KeyToJamo
  PROVE  KeyToJamo[k] \in Jaeums \cup Moeums /\ Simple(KeyToJamo[k])
<1>1. IsJamo(KeyToJamo[k]) /\ JamoKey[KeyToJamo[k]] = <<k>>
  BY TablesAssumption, SMTT(30) DEF KeyTables
<1>. QED
  BY <1>1 DEF IsJamo, IsJaeum, IsMoeum, Simple

\* A consonant that is not one key is two.
LEMMA TwoKeys ==
  ASSUME NEW cp \in Jaeums \cup Moeums
  PROVE  /\ Simple(cp) <=> ~Compound(cp)
         /\ Compound(cp) => /\ JamoKey[cp][1] \in DOMAIN KeyToJamo
                            /\ JamoKey[cp][2] \in DOMAIN KeyToJamo
<1>. DEFINE keys == JamoKey[cp]
<1>1. keys \in Seq(DOMAIN KeyToJamo) /\ (Len(keys) = 1 \/ Len(keys) = 2)
  BY TablesAssumption DEF KeyTables, Simple, Compound
<1>. HIDE DEF keys
<1>2. Len(keys) = 2 => keys[1] \in DOMAIN KeyToJamo /\ keys[2] \in DOMAIN KeyToJamo
  BY <1>1
<1>3. (Simple(cp) <=> Len(keys) = 1) /\ (Compound(cp) <=> Len(keys) = 2)
  BY DEF Simple, Compound, keys
<1>. QED
  BY <1>1, <1>2, <1>3 DEF keys

\* The parts of a compound final consonant are consonants, and the first may
\* be a final one.
LEMMA PartsOfFinal ==
  ASSUME NEW cp \in Finals, Compound(cp)
  PROVE  FirstPart(cp) \in Finals /\ SecondPart(cp) \in Consonants
<1>1. cp \in Jaeums /\ ~Simple(cp) /\ JamoKey[cp][2] \in DOMAIN KeyToJamo
  BY TwoKeys DEF Finals
<1>2. /\ IsJaeum(FirstPart(cp)) /\ Contains(Jongseong, FirstPart(cp))
      /\ IsJaeum(SecondPart(cp))
  BY <1>1, TablesAssumption, SMTT(30) DEF PartTables, FirstPart, SecondPart
<1>3. Simple(SecondPart(cp))
  BY <1>1, KeyTypes DEF SecondPart
<1>. QED
  BY <1>2, <1>3 DEF Finals, Consonants, IsJaeum

\* Two jamo that merge make one that is two keys, the first that of the first.
LEMMA Merged ==
  ASSUME NEW a \in Jaeums \cup Moeums, NEW b, Merge(a, b) # 0
  PROVE  /\ Merge(a, b) \in Jaeums \cup Moeums /\ Compound(Merge(a, b))
         /\ KeyToJamo[JamoKey[Merge(a, b)][1]] = a
<1>. DEFINE pair == <<JamoKey[a][1], JamoKey[b][1]>>
            m == Merge(a, b)
<1>1. Simple(a) /\ pair \in DOMAIN KeyPairToJamo /\ m = KeyPairToJamo[pair]
  BY DEF Merge
<1>2. IsJamo(m) /\ JamoKey[m] = pair
  BY <1>1, TablesAssumption DEF KeyTables
<1>3. Len(JamoKey[m]) = 2 /\ JamoKey[m][1] = JamoKey[a][1]
  BY <1>2
<1>. HIDE DEF m
<1>4. m \in Jaeums \cup Moeums /\ Compound(m) /\ KeyToJamo[JamoKey[m][1]] = a
  BY <1>1, <1>2, <1>3, SimpleKey DEF IsJamo, IsJaeum, IsMoeum, Compound
<1>. QED
  BY <1>4 DEF m

\* Two consonants merge to a final consonant and two vowels to a vowel.
LEMMA MergedKinds ==
  ASSUME NEW a, NEW b, Merge(a, b) # 0
  PROVE  /\ a \in Finals => Merge(a, b) \in Finals
         /\ a \in Moeums => Merge(a, b) \in Moeums
<1>. DEFINE m == Merge(a, b)
<1>1. ASSUME a \in Jaeums \cup Moeums
      PROVE  /\ m \in Jaeums \cup Moeums /\ Compound(m) /\ ~Simple(m)
             /\ KeyToJamo[JamoKey[m][1]] = a
  BY <1>1, Merged, TwoKeys
<1>. HIDE DEF m
<1>2. ASSUME a \in Jaeums PROVE m \in Finals
  <2>1. m \notin Moeums
    BY <1>1, <1>2, JamoFacts, TablesAssumption, SMTT(30) DEF PartTables, IsMoeum
  <2>2. Contains(Jongseong, m)
    BY <1>1, <1>2, <2>1, TablesAssumption DEF PartTables
  <2>. QED
    BY <1>1, <1>2, <2>1, <2>2 DEF Finals
<1>3. ASSUME a \in Moeums PROVE m \in Moeums
  <2>1. m \notin Jaeums
    BY <1>1, <1>3, JamoFacts, TablesAssumption DEF PartTables, IsJaeum
  <2>. QED
    BY <1>1, <1>3, <2>1
<1>. QED
  BY <1>2, <1>3 DEF Finals, m

-----------------------------------------------------------------------------
\* An index in a table is a number.
LEMMA IndexType ==
  ASSUME NEW S, NEW t \in Seq(S), NEW cp, Contains(t, cp)
  PROVE  IndexIn(t, cp) \in Nat
<1>1. Len(t) \in Nat
  OBVIOUS
<1>2. (CHOOSE j \in 1 .. Len(t) : t[j] = cp) \in 1 .. Len(t)
  BY DEF Contains
<1>. QED
  BY <1>1, <1>2 DEF IndexIn

\* The letters of a component that is being built compose.
LEMMA BuildingComposes ==
  ASSUME NEW c, Building(c), c # None
  PROVE  Compose(c) # 0
<1>1. /\ c \in [cho : {0} \cup Consonants, jung : {0} \cup Moeums, jong : {0} \cup Finals]
      /\ c.jong # 0 => c.cho # 0 /\ c.jung # 0
  BY DEF Building
<1>2. c.cho = 0 => c.jung # 0
  BY <1>1 DEF None
<1>3. CASE c.cho # 0 /\ c.jung # 0
  <2>1. Choseong \in Seq(Jaeums) /\ Jungseong \in Seq(Moeums) /\ Jongseong \in Seq({0} \cup Jaeums)
    BY TablesAssumption DEF LetterTables
  <2>2. Contains(Choseong, c.cho) /\ Contains(Jungseong, c.jung)
    BY <1>1, <1>3, InTables
  <2>3. Contains(Jongseong, c.jong)
    <3>1. CASE c.jong = 0
      <4>1. Jongseong \in Seq({0} \cup Jaeums) /\ Len(Jongseong) = 28 /\ Jongseong[1] = 0
        BY TablesAssumption DEF LetterTables
      <4>2. 1 \in 1 .. Len(Jongseong)
        BY <4>1
      <4>. QED
        BY <3>1, <4>1, <4>2 DEF Contains
    <3>. QED
      BY <1>1, <3>1, InTables
  <2>4. /\ IndexIn(Choseong, c.cho) \in Nat /\ IndexIn(Jungseong, c.jung) \in Nat
        /\ IndexIn(Jongseong, c.jong) \in Nat
    BY <2>1, <2>2, <2>3, IndexType
  <2>. QED
    BY <1>3, <2>2, <2>3, <2>4 DEF Compose
<1>. QED
  BY <1>2, <1>3 DEF Compose

-----------------------------------------------------------------------------
\* What a consonant or a vowel makes of a component: what is pushed and what
\* is left are both being built.
LEMMA JaeumBuilds ==
  ASSUME NEW c, Building(c), NEW cp \in Consonants
  PROVE  Building(Jaeum(c, cp).push) /\ Building(Jaeum(c, cp).comp)
<1>1. /\ c \in [cho : {0} \cup Consonants, jung : {0} \cup Moeums, jong : {0} \cup Finals]
      /\ c.jong # 0 => c.cho # 0 /\ c.jung # 0
  BY DEF Building
<1>2. cp # 0 /\ cp \in Jaeums
  BY JamoFacts DEF Consonants
<1>3. Building(None) /\ Building(Lead(cp))
  BY <1>2 DEF Building, None, Lead
<1>4. ASSUME c.cho # 0, c.jung # 0, NEW f \in Finals PROVE Building([c EXCEPT !.jong = f])
  BY <1>1, <1>4 DEF Building
<1>5. Contains(Jongseong, cp) => cp \in Finals
  BY <1>2 DEF Finals
<1>6. c.jong # 0 /\ Merge(c.jong, cp) # 0 => Merge(c.jong, cp) \in Finals
  BY <1>1, MergedKinds
<1>. QED
  BY <1>1, <1>3, <1>4, <1>5, <1>6 DEF Jaeum, Keep, Push, Spoil

\* The same of a vowel.
LEMMA MoeumBuilds ==
  ASSUME NEW c, Building(c), NEW cp \in Moeums
  PROVE  Building(Moeum(c, cp).push) /\ Building(Moeum(c, cp).comp)
<1>1. /\ c \in [cho : {0} \cup Consonants, jung : {0} \cup Moeums, jong : {0} \cup Finals]
      /\ c.jong # 0 => c.cho # 0 /\ c.jung # 0
  BY DEF Building
<1>2. Building(None) /\ Building([None EXCEPT !.jung = cp])
  BY DEF Building, None
<1>3. ASSUME NEW l \in Consonants PROVE Building([Lead(l) EXCEPT !.jung = cp])
  BY DEF Building, None, Lead
<1>4. CASE c.jong # 0 /\ Compound(c.jong)
  <2>1. FirstPart(c.jong) \in Finals /\ SecondPart(c.jong) \in Consonants
    BY <1>1, <1>4, PartsOfFinal
  <2>2. Building([c EXCEPT !.jong = FirstPart(c.jong)])
    BY <1>1, <1>4, <2>1 DEF Building
  <2>. QED
    BY <1>3, <1>4, <2>1, <2>2 DEF Moeum, Push
<1>5. CASE c.jong # 0 /\ ~Compound(c.jong)
  <2>1. c.jong \in Consonants
    BY <1>1, <1>5, TwoKeys DEF Finals, Consonants
  <2>2. Building([c EXCEPT !.jong = 0])
    BY <1>1 DEF Building
  <2>. QED
    BY <1>3, <1>5, <2>1, <2>2 DEF Moeum, Push
<1>6. CASE c.jong = 0
  <2>1. ASSUME NEW v \in Moeums PROVE Building([c EXCEPT !.jung = v])
    BY <1>1, <1>6 DEF Building
  <2>2. c.jung # 0 /\ Merge(c.jung, cp) # 0 => Merge(c.jung, cp) \in Moeums
    BY <1>1, MergedKinds
  <2>. QED
    BY <1>2, <1>6, <2>1, <2>2 DEF Moeum, Keep, Push
<1>. QED
  BY <1>4, <1>5, <1>6

\* What is typed, if the input has no compound consonant.
LEMMA TypedKinds ==
  ASSUME NEW ch, ~(IsJaeum(ch) /\ Compound(ch)), IsJamo(Typed(ch))
  PROVE  Typed(ch) \in Consonants \cup Moeums
<1>1. CASE keystroke /\ ch \in DOMAIN KeyToJamo
  BY <1>1, KeyTypes DEF Typed, Consonants
<1>2. CASE ~(keystroke /\ ch \in DOMAIN KeyToJamo)
  BY <1>2, TwoKeys DEF Typed, IsJamo, IsJaeum, IsMoeum, Consonants
<1>. QED
  BY <1>1, <1>2

\* What has been fed stays in the input.
LEMMA FedStays ==
  ASSUME NEW ch, input \in Seq(Nat), ch \in Nat, input' = Append(input, ch), ~Offending'
  PROVE  ~Offending /\ ~(IsJaeum(ch) /\ Compound(ch))
<1>1. /\ Len(input) \in Nat /\ Len(input') = Len(input) + 1
      /\ \A j \in 1 .. Len(input) : input'[j] = input[j]
      /\ input'[Len(input) + 1] = ch
  OBVIOUS
<1>2. 1 .. Len(input) \subseteq 1 .. Len(input') /\ Len(input) + 1 \in 1 .. Len(input')
  BY <1>1
<1>. QED
  BY <1>1, <1>2 DEF Offending

\* Every character keeps the component a part of a syllable.
LEMMA NextIInv == Text /\ IInv /\ [Next]_vars => IInv'
<1>. SUFFICES ASSUME Text, IInv, [Next]_vars, ~Offending'
              PROVE  at' # "error" /\ Building(comp')
  BY DEF IInv
<1>1. ASSUME NEW ch \in KeyAlphabet \cup JamoAlphabet, Feed(ch)
      PROVE  at' # "error" /\ Building(comp')
  <2>1. ch \in Nat /\ input' = Append(input, ch) /\ at = "feeding"
    BY <1>1, TablesAssumption DEF Feed
  <2>2. ~Offending /\ ~(IsJaeum(ch) /\ Compound(ch))
    BY <2>1, FedStays DEF Text
  <2>3. Building(comp)
    BY <2>2 DEF IInv
  <2>4. CASE FeedJamo(ch)
    <3>. DEFINE cp == Typed(ch)
                next == IF IsJaeum(cp) THEN Jaeum(comp, cp) ELSE Moeum(comp, cp)
    <3>1. IsJamo(cp) /\ cp \in Consonants \cup Moeums
      BY <2>2, <2>4, TypedKinds DEF FeedJamo
    <3>. HIDE DEF cp
    <3>2. Building(next.push) /\ Building(next.comp)
      <4>1. CASE IsJaeum(cp)
        <5>1. cp \in Consonants
          BY <3>1, <4>1, JamoFacts DEF IsJaeum
        <5>. QED
          BY <2>3, <4>1, <5>1, JaeumBuilds
      <4>2. CASE ~IsJaeum(cp)
        <5>1. cp \in Moeums
          BY <3>1, <4>2 DEF IsJamo, IsMoeum
        <5>. QED
          BY <2>3, <4>2, <5>1, MoeumBuilds
      <4>. QED
        BY <4>1, <4>2
    <3>. HIDE DEF next
    <3>3. ~(next.push # None /\ Compose(next.push) = 0)
      BY <3>2, BuildingComposes
    <3>4. IF next.push # None /\ Compose(next.push) = 0
          THEN at' = "error"
          ELSE comp' = next.comp /\ UNCHANGED at
      BY <2>4 DEF FeedJamo, next, cp
    <3>. QED
      BY <2>1, <3>2, <3>3, <3>4
  <2>5. CASE FeedOther(ch)
    <3>1. ~FlushFails
      BY <2>3, BuildingComposes DEF FlushFails
    <3>2. comp' = None /\ UNCHANGED at
      BY <2>5, <3>1 DEF FeedOther, NewWord
    <3>. QED
      BY <2>1, <3>2 DEF Building, None
  <2>. QED
    BY <1>1, <2>4, <2>5 DEF Feed
<1>2. CASE Finish
  <2>1. ~Offending /\ Building(comp)
    BY <1>2 DEF Finish, Offending, IInv
  <2>2. ~FlushFails
    BY <2>1, BuildingComposes DEF FlushFails
  <2>3. comp' = None /\ at' = "done"
    BY <1>2, <2>2 DEF Finish, NewWord
  <2>. QED
    BY <2>3 DEF Building, None
<1>3. CASE UNCHANGED vars
  BY <1>3 DEF vars, Offending, IInv
<1>. QED
  BY <1>1, <1>2, <1>3 DEF Next

\* It is a text in every behaviour.
LEMMA InputType == Spec => []Text
<1>1. Init => Text
  BY DEF Init, Text
<1>2. Text /\ [Next]_vars => Text'
  BY TablesAssumption, SMTT(30) DEF Text, Next, Feed, Finish, vars
<1>. QED
  BY <1>1, <1>2, PTL DEF Spec

\* For every keyboard and every table of letters as TablesAssumption has them,
\* and for inputs of any length: the automaton fails only on an input with a
\* compound consonant given as a single jamo, and so never on keys.
THEOREM OnlyCompoundFails == Spec => []FailsOnlyOnCompound
<1>1. Init => IInv
  BY DEF Init, IInv, Building, None
<1>2. IInv => FailsOnlyOnCompound
  BY DEF IInv, Offending, FailsOnlyOnCompound
<1>. QED
  BY <1>1, <1>2, NextIInv, InputType, PTL DEF Spec

-----------------------------------------------------------------------------
(* Induction and recursion over a range of numbers *)

\* A set with 0 and with the successor of each of its elements has all.
LEMMA Induction ==
  ASSUME NEW N \in Nat, NEW S, 0 \in S, \A k \in 1 .. N : k - 1 \in S => k \in S
  PROVE  0 .. N \subseteq S
<1> DEFINE T == (0 .. N) \ S
           R == { ss \in Nat \X Nat : ss[1] < ss[2] }
<1>. SUFFICES ASSUME T # {} PROVE FALSE
  OBVIOUS
<1>1. IsWellFoundedOn(R, Nat)
  BY NatLessThanWellFounded DEF OpToRel
<1>2. T \subseteq Nat
  OBVIOUS
<1>3. PICK x \in T : \A y \in T : ~(<<y, x>> \in R)
  <2> HIDE DEF T, R
  <2>. QED
    BY <1>1, <1>2, WFMin
<1>4. x \in 1 .. N /\ x - 1 \in 0 .. N
  OBVIOUS
<1>5. x - 1 \notin T
  <2>1. x \in Nat /\ x - 1 \in Nat /\ x - 1 < x
    BY <1>4
  <2>. QED
    BY <1>3, <2>1
<1>. QED
  BY <1>3, <1>4, <1>5

IsStep(step, N, V) == step \in [V \X (1 .. N) -> V]
IsRun(f, N, V, base, step) ==
  f \in [0 .. N -> V] /\ f[0] = base /\ \A k \in 1 .. N : f[k] = step[<<f[k - 1], k>>]

\* What is defined by recursion exists.
LEMMA Recursion ==
  ASSUME NEW N \in Nat, NEW V, NEW base \in V, NEW step, IsStep(step, N, V)
  PROVE  \E f : IsRun(f, N, V, base, step)
<1> DEFINE Upto(n, f) == /\ f \in [0 .. n -> V]
                         /\ f[0] = base /\ \A k \in 1 .. n : f[k] = step[<<f[k - 1], k>>]
           S == { n \in 0 .. N : \E f \in [0 .. n -> V] : Upto(n, f) }
<1>0. \A k \in 1 .. N, v \in V : step[<<v, k>>] \in V
  BY DEF IsStep
<1>1. 0 \in S
  <2> DEFINE f == [k \in 0 .. 0 |-> base]
  <2>1. f \in [0 .. 0 -> V] /\ Upto(0, f)
    OBVIOUS
  <2> HIDE DEF f, Upto
  <2>. QED
    BY <2>1
<1>2. ASSUME NEW n \in 1 .. N, n - 1 \in S
      PROVE  n \in S
  <2>1. PICK f \in [0 .. (n - 1) -> V] : Upto(n - 1, f)
    BY <1>2
  <2> DEFINE g == [k \in 0 .. n |-> IF k = n THEN step[<<f[n - 1], n>>] ELSE f[k]]
  <2>2. f[n - 1] \in V /\ step[<<f[n - 1], n>>] \in V
    BY <1>0, <2>1
  <2>3. g \in [0 .. n -> V]
    BY <2>1, <2>2
  <2>4. g[0] = base
    BY <2>1
  <2>5. ASSUME NEW k \in 1 .. n
        PROVE  g[k] = step[<<g[k - 1], k>>]
    <3>1. CASE k = n
      <4>1. n \in 0 .. n /\ n - 1 \in 0 .. n /\ n - 1 # n
        OBVIOUS
      <4>2. g[n] = step[<<f[n - 1], n>>] /\ g[n - 1] = f[n - 1]
        BY <4>1
      <4>. QED
        BY <3>1, <4>2
    <3>2. CASE k # n
      <4>1. k \in 1 .. (n - 1)
        BY <3>2
      <4>2. f[k] = step[<<f[k - 1], k>>]
        BY <2>1, <4>1
      <4>3. g[k] = f[k] /\ g[k - 1] = f[k - 1]
        BY <4>1
      <4>. QED
        BY <4>2, <4>3
    <3>. QED
      BY <3>1, <3>2
  <2>6. Upto(n, g)
    BY <2>3, <2>4, <2>5
  <2> HIDE DEF g, Upto
  <2>. QED
    BY <2>3, <2>6
<1>3. 0 .. N \subseteq S
  <2> HIDE DEF S
  <2>. QED
    BY <1>1, <1>2, Induction
<1>4. N \in S
  <2> HIDE DEF S
  <2>. QED
    BY <1>3
<1>. QED
  BY <1>4 DEF IsRun

-----------------------------------------------------------------------------
(* Keys and texts *)

\* Sequences of keys are put one after the other in any grouping.
LEMMA Joining ==
  /\ \A a, b \in Seq(Nat) : a \o b \in Seq(Nat)
  /\ \A a, b, c \in Seq(Nat) : (a \o b) \o c = a \o (b \o c)
  /\ \A a \in Seq(Nat) : a \o <<>> = a /\ <<>> \o a = a
  /\ <<>> \in Seq(Nat)
<1>1. \A a, b \in Seq(Nat) : a \o b \in Seq(Nat)
  BY ConcatProperties
<1>2. \A a, b, c \in Seq(Nat) : (a \o b) \o c = a \o (b \o c)
  BY ConcatAssociative, SMTT(30)
<1>3. \A a \in Seq(Nat) : a \o <<>> = a /\ <<>> \o a = a
  BY ConcatEmptySeq
<1>4. <<>> \in Seq(Nat)
  OBVIOUS
<1>. QED
  BY <1>1, <1>2, <1>3, <1>4

\* The part of it that says how sequences group.
LEMMA Regroup ==
  ASSUME NEW a \in Seq(Nat), NEW b \in Seq(Nat), NEW c \in Seq(Nat)
  PROVE  (a \o b) \o c = a \o (b \o c)
  BY Joining, SMTT(30)

\* What FlattenSeq puts together, one sequence after the other.
LEMMA Flattened ==
  ASSUME NEW seqs \in Seq(Seq(Nat)), Len(seqs) # 0
  PROVE  \E f \in [1 .. Len(seqs) -> Seq(Nat)] :
           /\ f[1] = seqs[1]
           /\ \A i \in 2 .. Len(seqs) : f[i] = f[i - 1] \o seqs[i]
           /\ FlattenSeq(seqs) = f[Len(seqs)]
<1>. DEFINE N == Len(seqs)
            V == Seq(Nat)
            step == [p \in V \X (1 .. N) |-> IF p[2] = 1 THEN seqs[1] ELSE p[1] \o seqs[p[2]]]
<1>1. N \in Nat \ {0} /\ \A i \in 1 .. N : seqs[i] \in V
  OBVIOUS
<1>. HIDE DEF N
<1>2. step \in [V \X (1 .. N) -> V]
  <2>1. ASSUME NEW p \in V \X (1 .. N) PROVE step[p] \in V
    <3>1. p[1] \in V /\ p[2] \in 1 .. N /\ seqs[p[2]] \in V /\ seqs[1] \in V
      BY <1>1
    <3>2. p[1] \o seqs[p[2]] \in V
      BY <3>1, Joining
    <3>. QED
      BY <3>1, <3>2
  <2>. QED
    BY <2>1
<1>3. PICK f : IsRun(f, N, V, <<>>, step)
  <2>1. IsStep(step, N, V)
    BY <1>2 DEF IsStep
  <2>2. <<>> \in V
    BY Joining
  <2>. HIDE DEF step, V
  <2>. QED
    BY <1>1, <2>1, <2>2, Recursion
<1>4. f \in [0 .. N -> V] /\ \A k \in 1 .. N : f[k] = step[<<f[k - 1], k>>]
  BY <1>3 DEF IsRun
<1>5. ASSUME NEW k \in 1 .. N
      PROVE  f[k] = IF k = 1 THEN seqs[k] ELSE f[k - 1] \o seqs[k]
  <2>1. k - 1 \in 0 .. N /\ f[k - 1] \in V
    BY <1>1, <1>4
  <2>2. <<f[k - 1], k>> \in V \X (1 .. N)
    BY <2>1
  <2>. QED
    BY <1>4, <2>2
<1>. DEFINE g == [k \in 1 .. N |-> f[k]]
            flat(h) == [i \in 1 .. N |-> IF i = 1 THEN seqs[i] ELSE h[i - 1] \o seqs[i]]
<1>6. g \in [1 .. N -> V]
  BY <1>1, <1>4
<1>7. ASSUME NEW k \in 1 .. N
      PROVE  g[k] = IF k = 1 THEN seqs[k] ELSE g[k - 1] \o seqs[k]
  <2>1. g[k] = f[k]
    OBVIOUS
  <2>2. k # 1 => k - 1 \in 1 .. N
    BY <1>1
  <2>3. k # 1 => g[k - 1] = f[k - 1]
    BY <2>2
  <2>. HIDE DEF g
  <2>. QED
    BY <1>5, <2>1, <2>3
<1>8. g = flat(g)
  <2>. HIDE DEF g
  <2>. QED
    BY <1>6, <1>7
<1>. DEFINE e == CHOOSE h : h = flat(h)
<1>9. e = flat(e)
  <2>. HIDE DEF flat, g
  <2>. QED
    BY <1>8
<1>10. FlattenSeq(seqs) = e[N]
  BY <1>1 DEF FlattenSeq, N
<1>11. ASSUME NEW k \in 1 .. N
       PROVE  e[k] = IF k = 1 THEN seqs[k] ELSE e[k - 1] \o seqs[k]
  <2>. HIDE DEF e
  <2>. QED
    BY <1>9
<1>12. DOMAIN e = 1 .. N
  <2>. HIDE DEF e
  <2>. QED
    BY <1>9
<1>. HIDE DEF e, flat, g, step
<1>13. \A k \in 1 .. N : e[k] = g[k]
  <2>. DEFINE S == { k \in 0 .. N : k # 0 => e[k] = g[k] }
  <2>1. 0 \in S
    BY <1>1
  <2>2. ASSUME NEW k \in 1 .. N, k - 1 \in S PROVE k \in S
    <3>1. k # 1 => e[k - 1] = g[k - 1]
      BY <1>1, <2>2
    <3>2. e[k] = g[k]
      BY <1>7, <1>11, <3>1
    <3>. QED
      BY <3>2
  <2>3. 0 .. N \subseteq S
    <3>. HIDE DEF S
    <3>. QED
      BY <1>1, <2>1, <2>2, Induction
  <2>. QED
    BY <2>3
<1>14. /\ g[1] = seqs[1]
       /\ \A i \in 2 .. N : g[i] = g[i - 1] \o seqs[i]
       /\ FlattenSeq(seqs) = g[N]
  <2>1. 1 \in 1 .. N /\ N \in 1 .. N
    BY <1>1
  <2>2. g[1] = seqs[1]
    BY <1>7, <2>1
  <2>3. ASSUME NEW i \in 2 .. N PROVE g[i] = g[i - 1] \o seqs[i]
    <3>1. i \in 1 .. N /\ i # 1
      BY <1>1
    <3>. QED
      BY <1>7, <3>1
  <2>4. FlattenSeq(seqs) = g[N]
    BY <1>10, <1>13, <2>1
  <2>. QED
    BY <2>2, <2>3, <2>4
<1>. QED
  BY <1>6, <1>14 DEF N

\* The keys of a letter, or of none, are keys.
LEMMA LetterKeysType ==
  ASSUME NEW l \in {0} \cup Jaeums \cup Moeums
  PROVE  LetterKeys(l) \in Seq(Nat)
<1>1. CASE l = 0
  BY <1>1, Joining DEF LetterKeys
<1>2. CASE l # 0
  <2>1. JamoKey[l] \in Seq(DOMAIN KeyToJamo)
    <3>1. l \in Jaeums \cup Moeums
      BY <1>2
    <3>2. \A cp \in Jaeums \cup Moeums : JamoKey[cp] \in Seq(DOMAIN KeyToJamo)
      BY TablesAssumption, SMTT(30) DEF KeyTables
    <3>. QED
      BY <3>1, <3>2
  <2>2. DOMAIN KeyToJamo \subseteq Nat
    <3>1. DOMAIN KeyToJamo \subseteq 0 .. 127
      BY TablesAssumption
    <3>. QED
      BY <3>1
  <2>3. JamoKey[l] \in Seq(Nat)
    BY <2>1, <2>2, SeqMonotonic
  <2>. QED
    BY <1>2, <2>3 DEF LetterKeys
<1>. QED
  BY <1>1, <1>2

\* The keys of a component are keys.
LEMMA PartKeysType ==
  ASSUME NEW c, c.cho \in {0} \cup Jaeums, c.jung \in {0} \cup Moeums, c.jong \in {0} \cup Jaeums
  PROVE  PartKeys(c) \in Seq(Nat)
<1>1. LetterKeys(c.cho) \in Seq(Nat) /\ LetterKeys(c.jung) \in Seq(Nat) /\ LetterKeys(c.jong) \in Seq(Nat)
  BY LetterKeysType
<1>. QED
  BY <1>1, Joining DEF PartKeys

\* The places of the letters of a syllable in their tables.
ChoAt(k) == (k \div 588) + 1
JungAt(k) == ((k % 588) \div 28) + 1
JongAt(k) == (k % 28) + 1

\* A syllable is one of 11172 code points.
LEMMA SyllableRange ==
  ASSUME NEW cp
  PROVE  /\ IsSyllable(cp) => cp \in Int /\ 44032 <= cp /\ cp <= 55203
         /\ cp \in Int /\ 44032 <= cp /\ cp <= 55203 => IsSyllable(cp)
<1>1. ASSUME IsSyllable(cp) PROVE cp \in Int /\ 44032 <= cp /\ cp <= 55203
  BY <1>1 DEF IsSyllable
<1>2. ASSUME cp \in Int, 44032 <= cp, cp <= 55203 PROVE IsSyllable(cp)
  BY <1>2, SMTT(30) DEF IsSyllable
<1>. QED
  BY <1>1, <1>2

\* A syllable is 588, 28 and 1 times the places of its letters.
LEMMA Places ==
  ASSUME NEW k \in Nat, k <= 11171
  PROVE  ChoAt(k) \in 1 .. 19 /\ JungAt(k) \in 1 .. 21 /\ JongAt(k) \in 1 .. 28
<1>1. ASSUME NEW q \in Int, q = k \div 588 PROVE 0 <= q /\ q <= 18
  BY <1>1
<1>2. ASSUME NEW j \in Int, j = k % 588 PROVE 0 <= j /\ j <= 587
  BY <1>2
<1>3. ASSUME NEW j \in Int, 0 <= j, j <= 587, NEW q \in Int, q = j \div 28 PROVE 0 <= q /\ q <= 20
  BY <1>3
<1>4. ASSUME NEW d \in Int, d = k % 28 PROVE 0 <= d /\ d <= 27
  BY <1>4
<1>5. k \div 588 \in Int /\ k % 588 \in Int /\ (k % 588) \div 28 \in Int /\ k % 28 \in Int
  OBVIOUS
<1>6. 0 <= k \div 588 /\ k \div 588 <= 18
  BY <1>1, <1>5
<1>7. 0 <= (k % 588) \div 28 /\ (k % 588) \div 28 <= 20
  BY <1>2, <1>3, <1>5
<1>8. 0 <= k % 28 /\ k % 28 <= 27
  BY <1>4, <1>5
<1>. QED
  BY <1>5, <1>6, <1>7, <1>8 DEF ChoAt, JungAt, JongAt

\* And back.
LEMMA PlacesBack ==
  ASSUME NEW a \in Nat, a < 19, NEW b \in Nat, b < 21, NEW d \in Nat, d < 28,
         NEW k, k = a * 588 + b * 28 + d
  PROVE  /\ k \in Nat /\ k <= 11171
         /\ ChoAt(k) = a + 1 /\ JungAt(k) = b + 1 /\ JongAt(k) = d + 1
<1>1. k \in Nat /\ k <= 11171
  OBVIOUS
<1>2. k \div 588 = a /\ k % 588 = b * 28 + d /\ k % 28 = d
  OBVIOUS
<1>3. (b * 28 + d) \div 28 = b
  OBVIOUS
<1>. QED
  BY <1>1, <1>2, <1>3 DEF ChoAt, JungAt, JongAt

\* What is in the tables.
LEMMA TableLetters ==
  /\ \A i \in 1 .. 19 : Choseong[i] \in Jaeums
  /\ \A i \in 1 .. 21 : Jungseong[i] \in Moeums
  /\ \A i \in 1 .. 28 : Jongseong[i] \in {0} \cup Jaeums
<1>1. /\ Choseong \in Seq(Jaeums) /\ Len(Choseong) = 19
      /\ Jungseong \in Seq(Moeums) /\ Len(Jungseong) = 21
      /\ Jongseong \in Seq({0} \cup Jaeums) /\ Len(Jongseong) = 28
  BY TablesAssumption DEF LetterTables
<1>2. ASSUME NEW S, NEW t \in Seq(S), NEW n, n = Len(t) PROVE \A i \in 1 .. n : t[i] \in S
  BY <1>2
<1>3. \A i \in 1 .. 19 : Choseong[i] \in Jaeums
  BY <1>1, <1>2
<1>4. \A i \in 1 .. 21 : Jungseong[i] \in Moeums
  BY <1>1, <1>2
<1>5. \A i \in 1 .. 28 : Jongseong[i] \in {0} \cup Jaeums
  BY <1>1, <1>2
<1>. QED
  BY <1>3, <1>4, <1>5

\* The letters of a syllable are of their kinds.
LEMMA Decomposed ==
  ASSUME NEW cp, IsSyllable(cp)
  PROVE  /\ Decompose(cp).cho \in Jaeums /\ Decompose(cp).jung \in Moeums
         /\ Decompose(cp).jong \in {0} \cup Jaeums
<1>. SUFFICES ASSUME NEW k \in Nat, k <= 11171, k = cp - 44032
              PROVE  /\ Decompose(cp).cho \in Jaeums /\ Decompose(cp).jung \in Moeums
                     /\ Decompose(cp).jong \in {0} \cup Jaeums
  <2>1. cp - 44032 \in Nat /\ cp - 44032 <= 11171
    BY SyllableRange
  <2>. QED
    BY <2>1
<1>2. Decompose(cp) = [cho |-> Choseong[ChoAt(k)], jung |-> Jungseong[JungAt(k)],
                       jong |-> Jongseong[JongAt(k)]]
  BY DEF Decompose, ChoAt, JungAt, JongAt
<1>3. ChoAt(k) \in 1 .. 19 /\ JungAt(k) \in 1 .. 21 /\ JongAt(k) \in 1 .. 28
  BY Places
<1>. QED
  BY <1>2, <1>3, TableLetters

\* The keys of a character are keys.
LEMMA KeysType ==
  ASSUME NEW cp \in Nat
  PROVE  Keys(cp) \in Seq(Nat)
<1>1. CASE IsSyllable(cp)
  BY <1>1, Decomposed, PartKeysType DEF Keys
<1>2. CASE ~IsSyllable(cp) /\ IsJamo(cp)
  <2>1. LetterKeys(cp) \in Seq(Nat)
    BY <1>2, LetterKeysType DEF IsJamo, IsJaeum, IsMoeum
  <2>. QED
    BY <1>2, <2>1, JamoFacts DEF Keys, LetterKeys, IsJamo, IsJaeum, IsMoeum
<1>3. CASE ~IsSyllable(cp) /\ ~IsJamo(cp)
  BY <1>3 DEF Keys
<1>. QED
  BY <1>1, <1>2, <1>3

\* The empty text is typed by no key.
LEMMA NoKeystrokes == Keystrokes(<<>>) = <<>>
<1>. DEFINE s == [i \in 1 .. Len(<<>>) |-> Keys(<<>>[i])]
<1>1. Len(<<>>) = 0
  OBVIOUS
<1>2. s = <<>>
  BY <1>1
<1>. HIDE DEF s
<1>3. FlattenSeq(s) = <<>>
  BY <1>1, <1>2 DEF FlattenSeq
<1>. QED
  BY <1>3 DEF Keystrokes, s

\* The keys of each character of a text.
LEMMA KeysOfEach ==
  ASSUME NEW text \in Seq(Nat)
  PROVE  /\ [i \in 1 .. Len(text) |-> Keys(text[i])] \in Seq(Seq(Nat))
         /\ Len([i \in 1 .. Len(text) |-> Keys(text[i])]) = Len(text)
<1>1. Len(text) \in Nat /\ \A i \in 1 .. Len(text) : text[i] \in Nat
  OBVIOUS
<1>2. \A i \in 1 .. Len(text) : Keys(text[i]) \in Seq(Nat)
  BY <1>1, KeysType
<1>. QED
  BY <1>1, <1>2

\* A character more adds its keys.
LEMMA KeystrokesAppend ==
  ASSUME NEW text \in Seq(Nat), NEW cp \in Nat, Keystrokes(text) \in Seq(Nat)
  PROVE  Keystrokes(Append(text, cp)) = Keystrokes(text) \o Keys(cp)
<1>. DEFINE more == Append(text, cp)
            N == Len(text)
            s == [i \in 1 .. N |-> Keys(text[i])]
            u == [i \in 1 .. Len(more) |-> Keys(more[i])]
<1>1. /\ N \in Nat /\ more \in Seq(Nat) /\ Len(more) = N + 1 /\ more[N + 1] = cp
      /\ \A i \in 1 .. N : more[i] = text[i]
  OBVIOUS
<1>. HIDE DEF more
<1>2. s \in Seq(Seq(Nat)) /\ Len(s) = N /\ u \in Seq(Seq(Nat)) /\ Len(u) = N + 1
  BY <1>1, KeysOfEach
<1>3. u[N + 1] = Keys(cp) /\ \A i \in 1 .. N : u[i] = s[i]
  BY <1>1
<1>4. Keystrokes(text) = FlattenSeq(s) /\ Keystrokes(more) = FlattenSeq(u)
  BY DEF Keystrokes
<1>5. Keys(cp) \in Seq(Nat)
  BY KeysType
<1>. HIDE DEF s, u, N
<1>6. PICK g \in [1 .. (N + 1) -> Seq(Nat)] :
        /\ g[1] = u[1]
        /\ \A i \in 2 .. (N + 1) : g[i] = g[i - 1] \o u[i]
        /\ FlattenSeq(u) = g[N + 1]
  <2>1. Len(u) # 0
    BY <1>1, <1>2
  <2>. QED
    BY <1>2, <2>1, Flattened
<1>7. CASE N = 0
  <2>1. text = <<>>
    BY <1>7, EmptySeq DEF N
  <2>2. Keystrokes(text) = <<>>
    BY <2>1, NoKeystrokes
  <2>3. Keystrokes(more) = Keys(cp)
    BY <1>3, <1>4, <1>6, <1>7
  <2>4. <<>> \o Keys(cp) = Keys(cp)
    BY <1>5, Joining
  <2>. QED
    BY <2>2, <2>3, <2>4 DEF more
<1>8. CASE N # 0
  <2>1. PICK f \in [1 .. N -> Seq(Nat)] :
          /\ f[1] = s[1]
          /\ \A i \in 2 .. N : f[i] = f[i - 1] \o s[i]
          /\ FlattenSeq(s) = f[N]
    <3>1. Len(s) # 0
      BY <1>2, <1>8
    <3>. QED
      BY <1>2, <3>1, Flattened
  <2>. DEFINE S == { k \in 0 .. N : k # 0 => f[k] = g[k] }
  <2>2. 0 \in S
    BY <1>1
  <2>3. ASSUME NEW k \in 1 .. N, k - 1 \in S PROVE k \in S
    <3>1. CASE k = 1
      <4>1. f[1] = g[1]
        BY <1>1, <1>3, <1>6, <1>8, <2>1
      <4>. QED
        BY <3>1, <4>1
    <3>2. CASE k # 1
      <4>1. k \in 2 .. N /\ k \in 2 .. (N + 1) /\ k - 1 # 0
        BY <1>1, <3>2
      <4>2. f[k - 1] = g[k - 1]
        BY <2>3, <4>1
      <4>3. f[k] = f[k - 1] \o s[k] /\ g[k] = g[k - 1] \o u[k] /\ u[k] = s[k]
        BY <1>3, <1>6, <2>1, <4>1
      <4>4. f[k] = g[k] /\ k \in 0 .. N
        BY <1>1, <4>2, <4>3
      <4>. QED
        BY <4>4
    <3>. QED
      BY <3>1, <3>2
  <2>4. 0 .. N \subseteq S
    <3>. HIDE DEF S
    <3>. QED
      BY <1>1, <2>2, <2>3, Induction
  <2>5. f[N] = g[N]
    <3>1. N \in 0 .. N
      BY <1>1
    <3>2. N \in S
      BY <2>4, <3>1
    <3>. QED
      BY <1>8, <3>2
  <2>6. N + 1 \in 2 .. (N + 1) /\ (N + 1) - 1 = N
    BY <1>1, <1>8
  <2>7. g[N + 1] = g[N] \o Keys(cp)
    BY <1>3, <1>6, <2>6
  <2>. QED
    BY <1>4, <1>6, <2>1, <2>5, <2>7 DEF more
<1>. QED
  BY <1>7, <1>8

\* The keys of a text are keys.
LEMMA KeystrokesType ==
  ASSUME NEW text \in Seq(Nat)
  PROVE  Keystrokes(text) \in Seq(Nat)
<1>. DEFINE N == Len(text)
            s == [i \in 1 .. N |-> Keys(text[i])]
<1>1. N \in Nat /\ s \in Seq(Seq(Nat)) /\ Len(s) = N
  BY KeysOfEach
<1>2. CASE N = 0
  BY <1>2, EmptySeq, NoKeystrokes, Joining
<1>3. CASE N # 0
  <2>. HIDE DEF s
  <2>1. PICK f \in [1 .. Len(s) -> Seq(Nat)] : FlattenSeq(s) = f[Len(s)]
    BY <1>1, <1>3, Flattened
  <2>2. FlattenSeq(s) \in Seq(Nat)
    <3>1. Len(s) \in 1 .. Len(s)
      BY <1>1, <1>3
    <3>. QED
      BY <2>1, <3>1
  <2>. QED
    BY <2>2 DEF Keystrokes, s
<1>. QED
  BY <1>2, <1>3

\* The keys of two texts, one after the other, are theirs.
LEMMA KeystrokesJoin ==
  ASSUME NEW text \in Seq(Nat), NEW more \in Seq(Nat)
  PROVE  Keystrokes(text \o more) = Keystrokes(text) \o Keystrokes(more)
<1>. DEFINE N == Len(more)
            p(k) == SubSeq(more, 1, k)
            S == { k \in 0 .. N : Keystrokes(text \o p(k)) = Keystrokes(text) \o Keystrokes(p(k)) }
<1>1. N \in Nat
  OBVIOUS
<1>2. 0 \in S
  <2>1. p(0) = <<>>
    BY SubSeqEmpty
  <2>2. Keystrokes(text) \in Seq(Nat) /\ text \o <<>> = text
    BY KeystrokesType, ConcatEmptySeq
  <2>3. Keystrokes(text) \o <<>> = Keystrokes(text)
    BY <2>2, Joining
  <2>4. Keystrokes(text \o p(0)) = Keystrokes(text) \o Keystrokes(p(0))
    BY <2>1, <2>2, <2>3, NoKeystrokes
  <2>. HIDE DEF p
  <2>. QED
    BY <1>1, <2>4
<1>3. ASSUME NEW k \in 1 .. N, k - 1 \in S PROVE k \in S
  <2>. DEFINE q == p(k - 1)
              cp == more[k]
  <2>1. cp \in Nat /\ q \in Seq(Nat) /\ q \o <<cp>> = Append(q, cp)
    <3>1. cp \in Nat /\ k \in 1 .. Len(more)
      OBVIOUS
    <3>2. q \in Seq(Nat)
      BY <3>1, SubSeqProperties
    <3>. HIDE DEF q, cp
    <3>. QED
      BY <3>1, <3>2, AppendIsConcat
  <2>2. p(k) = Append(q, cp)
    <3>1. 1 \in 1 .. Len(more) /\ k \in 1 .. Len(more)
      BY <1>1
    <3>2. p(k) = q \o <<cp>>
      BY <3>1, SubSeqRecursiveSecond
    <3>. QED
      BY <2>1, <3>2
  <2>3. Keystrokes(text \o q) = Keystrokes(text) \o Keystrokes(q)
    BY <1>3
  <2>. HIDE DEF p, q, cp
  <2>4. text \o q \in Seq(Nat) /\ text \o Append(q, cp) = Append(text \o q, cp)
    <3>1. text \o q \in Seq(Nat) /\ <<cp>> \in Seq(Nat) /\ q \in Seq(Nat)
      BY <2>1, ConcatProperties
    <3>2. (text \o q) \o <<cp>> = text \o (q \o <<cp>>)
      <4>. DEFINE last == <<cp>>
      <4>1. text \in Seq(Nat) /\ q \in Seq(Nat) /\ last \in Seq(Nat)
        BY <3>1
      <4>. HIDE DEF last
      <4>2. (text \o q) \o last = text \o (q \o last)
        BY <4>1, Regroup, Zenon
      <4>. QED
        BY <4>2 DEF last
    <3>3. Append(text \o q, cp) = (text \o q) \o <<cp>>
      BY <2>1, <3>1, AppendIsConcat
    <3>. QED
      BY <2>1, <3>1, <3>2, <3>3
  <2>5. /\ Keystrokes(text) \in Seq(Nat) /\ Keystrokes(q) \in Seq(Nat)
        /\ Keystrokes(text \o q) \in Seq(Nat) /\ Keys(cp) \in Seq(Nat)
    BY <2>1, <2>4, KeystrokesType, KeysType
  <2>6. Keystrokes(Append(text \o q, cp)) = (Keystrokes(text) \o Keystrokes(q)) \o Keys(cp)
    BY <2>1, <2>3, <2>4, <2>5, KeystrokesAppend
  <2>7. Keystrokes(Append(q, cp)) = Keystrokes(q) \o Keys(cp)
    BY <2>1, <2>5, KeystrokesAppend
  <2>8. Keystrokes(text \o p(k)) = Keystrokes(text) \o Keystrokes(p(k))
    <3>1. (Keystrokes(text) \o Keystrokes(q)) \o Keys(cp) = Keystrokes(text) \o (Keystrokes(q) \o Keys(cp))
      <4>. DEFINE ks == Keystrokes(text)
                  kq == Keystrokes(q)
                  kc == Keys(cp)
      <4>1. ks \in Seq(Nat) /\ kq \in Seq(Nat) /\ kc \in Seq(Nat)
        BY <2>5
      <4>. HIDE DEF ks, kq, kc
      <4>2. (ks \o kq) \o kc = ks \o (kq \o kc)
        BY <4>1, Regroup, Zenon
      <4>. QED
        BY <4>2 DEF ks, kq, kc
    <3>. QED
      BY <2>2, <2>4, <2>6, <2>7, <3>1
  <2>. QED
    BY <2>8
<1>4. 0 .. N \subseteq S
  <2>. HIDE DEF S
  <2>. QED
    BY <1>1, <1>2, <1>3, Induction
<1>5. N \in S
  <2>. HIDE DEF S
  <2>. QED
    BY <1>1, <1>4
<1>6. p(N) = more
  BY SubSeqFull
<1>. QED
  BY <1>5, <1>6

-----------------------------------------------------------------------------
(* The keys of a component and of the syllable it makes *)

\* A component in progress: letters of their kinds, and no final consonant
\* without the letters before it.
InProgress(c) ==
  /\ c \in [cho : {0} \cup Jaeums, jung : {0} \cup Moeums, jong : {0} \cup Finals]
  /\ c.jong # 0 => c.cho # 0 /\ c.jung # 0

\* The keys of a component in progress, and of its letters, are keys.
LEMMA InProgressKeys ==
  ASSUME NEW c, InProgress(c)
  PROVE  /\ LetterKeys(c.cho) \in Seq(Nat) /\ LetterKeys(c.jung) \in Seq(Nat)
         /\ LetterKeys(c.jong) \in Seq(Nat) /\ PartKeys(c) \in Seq(Nat)
<1>1. c.cho \in {0} \cup Jaeums /\ c.jung \in {0} \cup Moeums /\ c.jong \in {0} \cup Jaeums
  BY DEF InProgress, Finals
<1>. QED
  BY <1>1, LetterKeysType, PartKeysType

\* A jamo is no syllable, nor are 0 and what a key may be.
LEMMA NoSyllable ==
  /\ \A cp \in Jaeums \cup Moeums : cp \in Nat /\ cp # 0 /\ cp > 127 /\ ~IsSyllable(cp) /\ IsJamo(cp)
  /\ \A cp \in Int : cp <= 127 => ~IsSyllable(cp) /\ ~IsJamo(cp)
<1>1. \A cp \in Jaeums \cup Moeums : cp \in Nat /\ cp > 127 /\ cp < 44032
  BY DEF Jaeums, Moeums
<1>2. \A cp : IsSyllable(cp) => cp \in Int /\ 44032 <= cp
  BY SyllableRange
<1>3. \A cp : IsJamo(cp) <=> cp \in Jaeums \cup Moeums
  BY DEF IsJamo, IsJaeum, IsMoeum
<1>4. ASSUME NEW cp \in Jaeums \cup Moeums
      PROVE  cp \in Nat /\ cp # 0 /\ cp > 127 /\ ~IsSyllable(cp) /\ IsJamo(cp)
  BY <1>1, <1>2, <1>3
<1>5. ASSUME NEW cp \in Int, cp <= 127 PROVE ~IsSyllable(cp) /\ ~IsJamo(cp)
  BY <1>1, <1>2, <1>3, <1>5
<1>. QED
  BY <1>4, <1>5

\* The keys of a jamo.
LEMMA KeysOfJamo ==
  ASSUME NEW cp \in Jaeums \cup Moeums
  PROVE  Keys(cp) = JamoKey[cp] /\ LetterKeys(cp) = JamoKey[cp]
  BY NoSyllable DEF Keys, LetterKeys

\* The place of a letter that is in a table.
LEMMA PlaceIn ==
  ASSUME NEW t, Len(t) \in Nat, NEW cp, Contains(t, cp)
  PROVE  IndexIn(t, cp) \in Nat /\ IndexIn(t, cp) < Len(t) /\ t[IndexIn(t, cp) + 1] = cp
<1>. DEFINE i == CHOOSE j \in 1 .. Len(t) : t[j] = cp
<1>1. i \in 1 .. Len(t) /\ t[i] = cp
  BY DEF Contains
<1>2. IndexIn(t, cp) = i - 1
  BY DEF IndexIn
<1>. HIDE DEF i
<1>. QED
  BY <1>1, <1>2

\* A component that composes is typed by the keys of what it makes.
LEMMA ComposedKeys ==
  ASSUME NEW c, InProgress(c), c # None, Compose(c) # 0
  PROVE  Compose(c) \in Nat /\ Keys(Compose(c)) = PartKeys(c)
<1>1. /\ c \in [cho : {0} \cup Jaeums, jung : {0} \cup Moeums, jong : {0} \cup Finals]
      /\ c.jong # 0 => c.cho # 0 /\ c.jung # 0
  BY DEF InProgress
<1>2. /\ LetterKeys(c.cho) \in Seq(Nat) /\ LetterKeys(c.jung) \in Seq(Nat)
      /\ LetterKeys(0) = <<>>
  BY InProgressKeys DEF LetterKeys
<1>3. CASE c.cho = 0
  <2>1. Compose(c) = c.jung /\ c.jung \in Moeums /\ c.jong = 0
    BY <1>1, <1>3 DEF Compose
  <2>2. PartKeys(c) = LetterKeys(c.jung)
    <3>1. PartKeys(c) = (<<>> \o LetterKeys(c.jung)) \o <<>>
      BY <1>2, <1>3, <2>1, Zenon DEF PartKeys
    <3>2. \A a \in Seq(Nat) : (<<>> \o a) \o <<>> = a
      BY Joining, Zenon
    <3>. QED
      BY <1>2, <3>1, <3>2, Zenon
  <2>3. Keys(c.jung) = LetterKeys(c.jung) /\ c.jung \in Nat
    BY <2>1, KeysOfJamo, NoSyllable
  <2>. QED
    BY <2>1, <2>2, <2>3
<1>4. CASE c.cho # 0 /\ c.jung = 0
  <2>1. Compose(c) = c.cho /\ c.cho \in Jaeums /\ c.jong = 0
    BY <1>1, <1>4 DEF Compose
  <2>2. PartKeys(c) = LetterKeys(c.cho)
    <3>1. PartKeys(c) = (LetterKeys(c.cho) \o <<>>) \o <<>>
      BY <1>2, <1>4, <2>1 DEF PartKeys
    <3>. QED
      BY <1>2, <3>1, Joining
  <2>3. Keys(c.cho) = LetterKeys(c.cho) /\ c.cho \in Nat
    BY <2>1, KeysOfJamo, NoSyllable
  <2>. QED
    BY <2>1, <2>2, <2>3
<1>5. CASE c.cho # 0 /\ c.jung # 0
  <2>. DEFINE a == IndexIn(Choseong, c.cho)
              b == IndexIn(Jungseong, c.jung)
              d == IndexIn(Jongseong, c.jong)
              k == a * 588 + b * 28 + d
              cp == Compose(c)
  <2>1. Contains(Choseong, c.cho) /\ Contains(Jungseong, c.jung) /\ Contains(Jongseong, c.jong)
    BY <1>5 DEF Compose
  <2>2. cp = 44032 + a * 588 + b * 28 + d
    BY <1>5, <2>1 DEF Compose
  <2>3. Len(Choseong) = 19 /\ Len(Jungseong) = 21 /\ Len(Jongseong) = 28
    BY TablesAssumption DEF LetterTables
  <2>4. a \in Nat /\ a < 19 /\ Choseong[a + 1] = c.cho
    <3>1. Len(Choseong) \in Nat
      BY <2>3
    <3>2. a \in Nat /\ a < Len(Choseong) /\ Choseong[a + 1] = c.cho
      BY <2>1, <3>1, PlaceIn
    <3>. HIDE DEF a
    <3>. QED
      BY <2>3, <3>2
  <2>5. b \in Nat /\ b < 21 /\ Jungseong[b + 1] = c.jung
    <3>1. Len(Jungseong) \in Nat
      BY <2>3
    <3>2. b \in Nat /\ b < Len(Jungseong) /\ Jungseong[b + 1] = c.jung
      BY <2>1, <3>1, PlaceIn
    <3>. HIDE DEF b
    <3>. QED
      BY <2>3, <3>2
  <2>6. d \in Nat /\ d < 28 /\ Jongseong[d + 1] = c.jong
    <3>1. Len(Jongseong) \in Nat
      BY <2>3
    <3>2. d \in Nat /\ d < Len(Jongseong) /\ Jongseong[d + 1] = c.jong
      BY <2>1, <3>1, PlaceIn
    <3>. HIDE DEF d
    <3>. QED
      BY <2>3, <3>2
  <2>. HIDE DEF a, b, d, cp
  <2>7. /\ k \in Nat /\ k <= 11171
        /\ ChoAt(k) = a + 1 /\ JungAt(k) = b + 1 /\ JongAt(k) = d + 1
    BY <2>4, <2>5, <2>6, PlacesBack
  <2>8. cp = 44032 + k
    BY <2>2, <2>4, <2>5, <2>6
  <2>. HIDE DEF k
  <2>9. cp \in Nat /\ 44032 <= cp /\ cp <= 55203 /\ cp - 44032 = k
    BY <2>7, <2>8
  <2>10. IsSyllable(cp)
    BY <2>9, SyllableRange
  <2>11. Decompose(cp) = [cho |-> Choseong[ChoAt(k)], jung |-> Jungseong[JungAt(k)],
                          jong |-> Jongseong[JongAt(k)]]
    BY <2>9 DEF Decompose, ChoAt, JungAt, JongAt
  <2>12. Decompose(cp) = c
    BY <1>1, <2>4, <2>5, <2>6, <2>7, <2>11
  <2>13. Keys(cp) = PartKeys(c)
    BY <2>10, <2>12 DEF Keys
  <2>. QED
    BY <2>9, <2>13 DEF cp
<1>. QED
  BY <1>3, <1>4, <1>5

\* One sequence of keys after another, of which the proofs below use no more
\* than that it may be grouped in any way.
Joined(a, b) == a \o b

\* They may be: concatenation is associative and the empty sequence adds nothing.
LEMMA JoinedFacts ==
  /\ \A a, b \in Seq(Nat) : Joined(a, b) \in Seq(Nat)
  /\ \A a, b, d \in Seq(Nat) : Joined(a, Joined(b, d)) = Joined(Joined(a, b), d)
  /\ \A a \in Seq(Nat) : Joined(a, <<>>) = a /\ Joined(<<>>, a) = a
  /\ <<>> \in Seq(Nat)
<1>1. \A a, b \in Seq(Nat) : Joined(a, b) \in Seq(Nat)
  BY Joining DEF Joined
<1>2. ASSUME NEW a \in Seq(Nat), NEW b \in Seq(Nat), NEW d \in Seq(Nat)
      PROVE  Joined(a, Joined(b, d)) = Joined(Joined(a, b), d)
  <2>1. (a \o b) \o d = a \o (b \o d)
    BY Joining, SMTT(30)
  <2>. QED
    BY <2>1 DEF Joined
<1>3. \A a \in Seq(Nat) : Joined(a, <<>>) = a /\ Joined(<<>>, a) = a
  BY Joining DEF Joined
<1>. QED
  BY <1>1, <1>2, <1>3, Joining

\* Two jamo that merge are typed by their keys, one after the other.
LEMMA MergedKeys ==
  ASSUME NEW a \in Jaeums \cup Moeums, NEW b \in Jaeums \cup Moeums, Merge(a, b) # 0
  PROVE  JamoKey[Merge(a, b)] = JamoKey[a] \o JamoKey[b]
<1>. DEFINE pair == <<JamoKey[a][1], JamoKey[b][1]>>
            m == Merge(a, b)
            ka == JamoKey[a]
            kb == JamoKey[b]
<1>1. Simple(a) /\ Simple(b) /\ pair \in DOMAIN KeyPairToJamo /\ m = KeyPairToJamo[pair]
  BY DEF Merge
<1>2. JamoKey[m] = pair
  BY <1>1, TablesAssumption, SMTT(30) DEF KeyTables
<1>3. ka \in Seq(DOMAIN KeyToJamo) /\ kb \in Seq(DOMAIN KeyToJamo)
  BY TablesAssumption DEF KeyTables
<1>4. Len(ka) = 1 /\ Len(kb) = 1
  BY <1>1 DEF Simple
<1>5. pair = <<ka[1], kb[1]>>
  OBVIOUS
<1>. HIDE DEF m, ka, kb, pair
<1>6. <<ka[1], kb[1]>> = ka \o kb
  <2>. DEFINE S == DOMAIN KeyToJamo
              u == ka \o kb
              w == <<ka[1], kb[1]>>
  <2>1. u \in Seq(S) /\ Len(u) = 2 /\ u[1] = ka[1] /\ u[2] = kb[1]
    <3>1. /\ u \in Seq(S) /\ Len(u) = Len(ka) + Len(kb)
          /\ \A i \in 1 .. Len(ka) + Len(kb) : u[i] = IF i <= Len(ka) THEN ka[i] ELSE kb[i - Len(ka)]
      BY <1>3, ConcatProperties
    <3>2. \A i \in 1 .. 2 : u[i] = IF i <= Len(ka) THEN ka[i] ELSE kb[i - Len(ka)]
      <4>. HIDE DEF u
      <4>. QED
        BY <1>4, <3>1
    <3>. HIDE DEF u
    <3>. QED
      BY <1>4, <3>1, <3>2
  <2>2. ka[1] \in S /\ kb[1] \in S
    BY <1>3, <1>4
  <2>3. w \in Seq(S) /\ Len(w) = 2 /\ w[1] = ka[1] /\ w[2] = kb[1]
    BY <2>2
  <2>. HIDE DEF S, u, w
  <2>4. \A i \in 1 .. Len(u) : u[i] = w[i]
    BY <2>1, <2>3
  <2>5. u = w
    BY <2>1, <2>3, <2>4, SeqEqual
  <2>. QED
    BY <2>5 DEF u, w
<1>. QED
  BY <1>2, <1>5, <1>6 DEF m, ka, kb

\* A compound is typed by the keys of its parts.
LEMMA SplitKeys ==
  ASSUME NEW cp \in Jaeums \cup Moeums, Compound(cp)
  PROVE  JamoKey[cp] = JamoKey[FirstPart(cp)] \o JamoKey[SecondPart(cp)]
<1>. DEFINE ks == JamoKey[cp]
<1>1. ks \in Seq(DOMAIN KeyToJamo)
  BY TablesAssumption, SMTT(30) DEF KeyTables
<1>2. Len(ks) = 2
  BY DEF Compound
<1>3. FirstPart(cp) = KeyToJamo[ks[1]] /\ SecondPart(cp) = KeyToJamo[ks[2]]
  BY DEF FirstPart, SecondPart
<1>. HIDE DEF ks
<1>4. ks[1] \in DOMAIN KeyToJamo /\ ks[2] \in DOMAIN KeyToJamo
  BY <1>1, <1>2
<1>5. JamoKey[FirstPart(cp)] = <<ks[1]>> /\ JamoKey[SecondPart(cp)] = <<ks[2]>>
  BY <1>3, <1>4, TablesAssumption DEF KeyTables
<1>6. ks = <<ks[1]>> \o <<ks[2]>>
  BY <1>1, <1>2
<1>. QED
  BY <1>5, <1>6 DEF ks

\* A component that is not there has no keys, and one of a letter or of a
\* consonant and a vowel those of its letters.
LEMMA KeysOfLetters ==
  /\ InProgress(None) /\ PartKeys(None) = <<>>
  /\ \A cp \in Jaeums : InProgress(Lead(cp)) /\ PartKeys(Lead(cp)) = JamoKey[cp]
  /\ \A cp \in Moeums : /\ InProgress([None EXCEPT !.jung = cp])
                        /\ PartKeys([None EXCEPT !.jung = cp]) = JamoKey[cp]
  /\ \A l \in Jaeums, cp \in Moeums :
       /\ InProgress([Lead(l) EXCEPT !.jung = cp])
       /\ PartKeys([Lead(l) EXCEPT !.jung = cp]) = Joined(JamoKey[l], JamoKey[cp])
<1>1. LetterKeys(0) = <<>>
  BY DEF LetterKeys
<1>2. \A cp \in Jaeums \cup Moeums : LetterKeys(cp) = JamoKey[cp] /\ JamoKey[cp] \in Seq(Nat)
  BY KeysOfJamo, LetterKeysType
<1>3. InProgress(None) /\ PartKeys(None) = <<>>
  <2>1. InProgress(None)
    BY DEF InProgress, None
  <2>2. PartKeys(None) = Joined(Joined(<<>>, <<>>), <<>>)
    BY <1>1 DEF PartKeys, Joined, None
  <2>. QED
    BY <2>1, <2>2, JoinedFacts
<1>4. ASSUME NEW cp \in Jaeums
      PROVE  InProgress(Lead(cp)) /\ PartKeys(Lead(cp)) = JamoKey[cp]
  <2>1. InProgress(Lead(cp))
    BY DEF InProgress, Lead, None
  <2>2. PartKeys(Lead(cp)) = Joined(Joined(JamoKey[cp], <<>>), <<>>)
    BY <1>1, <1>2 DEF PartKeys, Joined, Lead, None
  <2>. QED
    BY <1>2, <2>1, <2>2, JoinedFacts
<1>5. ASSUME NEW cp \in Moeums
      PROVE  /\ InProgress([None EXCEPT !.jung = cp])
             /\ PartKeys([None EXCEPT !.jung = cp]) = JamoKey[cp]
  <2>1. InProgress([None EXCEPT !.jung = cp])
    BY DEF InProgress, None
  <2>2. PartKeys([None EXCEPT !.jung = cp]) = Joined(Joined(<<>>, JamoKey[cp]), <<>>)
    BY <1>1, <1>2 DEF PartKeys, Joined, None
  <2>. QED
    BY <1>2, <2>1, <2>2, JoinedFacts
<1>6. ASSUME NEW l \in Jaeums, NEW cp \in Moeums
      PROVE  /\ InProgress([Lead(l) EXCEPT !.jung = cp])
             /\ PartKeys([Lead(l) EXCEPT !.jung = cp]) = Joined(JamoKey[l], JamoKey[cp])
  <2>1. InProgress([Lead(l) EXCEPT !.jung = cp])
    BY DEF InProgress, Lead, None
  <2>2. PartKeys([Lead(l) EXCEPT !.jung = cp]) = Joined(Joined(JamoKey[l], JamoKey[cp]), <<>>)
    BY <1>1, <1>2 DEF PartKeys, Joined, Lead, None
  <2>3. Joined(JamoKey[l], JamoKey[cp]) \in Seq(Nat)
    BY <1>2, JoinedFacts
  <2>. QED
    BY <2>1, <2>2, <2>3, JoinedFacts
<1>. QED
  BY <1>3, <1>4, <1>5, <1>6

\* What a step of the automaton makes of a component keeps its keys.
FedKeys(c, cp, next) ==
  /\ InProgress(next.push) /\ InProgress(next.comp)
  /\ next.ok => Joined(PartKeys(next.push), PartKeys(next.comp)) = Joined(PartKeys(c), JamoKey[cp])

\* A component that is kept has taken in the keys of the jamo.
LEMMA KeepKeys ==
  ASSUME NEW c, NEW cp, NEW n, InProgress(n), PartKeys(n) = Joined(PartKeys(c), JamoKey[cp])
  PROVE  FedKeys(c, cp, Keep(n))
<1>1. PartKeys(n) \in Seq(Nat)
  BY InProgressKeys
<1>2. Joined(<<>>, PartKeys(n)) = PartKeys(n)
  BY <1>1, JoinedFacts
<1>. QED
  BY <1>2, KeysOfLetters DEF FedKeys, Keep

\* A component that is pushed and the one that is left have them between them.
LEMMA PushKeys ==
  ASSUME NEW c, NEW cp, NEW p, NEW n, InProgress(p), InProgress(n),
         Joined(PartKeys(p), PartKeys(n)) = Joined(PartKeys(c), JamoKey[cp])
  PROVE  FedKeys(c, cp, Push(p, n))
  BY DEF FedKeys, Push

\* automata_feed_jamo keeps the keys of a consonant, and does not spoil the word
\* when it is composed by force.
LEMMA JaeumKeys ==
  ASSUME NEW c, InProgress(c), NEW cp \in Jaeums
  PROVE  FedKeys(c, cp, Jaeum(c, cp)) /\ (force => Jaeum(c, cp).ok)
<1>1. /\ c \in [cho : {0} \cup Jaeums, jung : {0} \cup Moeums, jong : {0} \cup Finals]
      /\ c.jong # 0 => c.cho # 0 /\ c.jung # 0
  BY DEF InProgress
<1>. DEFINE A == LetterKeys(c.cho)
            B == LetterKeys(c.jung)
            D == LetterKeys(c.jong)
            K == JamoKey[cp]
<1>2. A \in Seq(Nat) /\ B \in Seq(Nat) /\ D \in Seq(Nat) /\ PartKeys(c) \in Seq(Nat)
  BY InProgressKeys
<1>3. K \in Seq(Nat) /\ LetterKeys(cp) = K /\ LetterKeys(0) = <<>>
  BY KeysOfJamo, LetterKeysType DEF LetterKeys
<1>4. PartKeys(c) = Joined(Joined(A, B), D)
  BY DEF PartKeys, Joined
<1>5. InProgress(Lead(cp)) /\ PartKeys(Lead(cp)) = K
  BY KeysOfLetters
<1>6. FedKeys(c, cp, Push(c, Lead(cp))) /\ Push(c, Lead(cp)).ok
  BY <1>5, PushKeys DEF Push
<1>7. FedKeys(c, cp, Spoil(c))
  BY KeysOfLetters DEF FedKeys, Spoil
<1>8. CASE c = None
  <2>1. Jaeum(c, cp) = Keep(Lead(cp))
    BY <1>8 DEF Jaeum, None
  <2>2. Joined(PartKeys(c), K) = K
    BY <1>3, <1>8, KeysOfLetters, JoinedFacts
  <2>3. FedKeys(c, cp, Keep(Lead(cp)))
    BY <1>5, <2>2, KeepKeys
  <2>. QED
    BY <2>1, <2>3 DEF Keep
<1>9. CASE c # None /\ c.cho = 0
  <2>1. Jaeum(c, cp) = IF force THEN Push(c, Lead(cp)) ELSE Spoil(c)
    BY <1>9 DEF Jaeum
  <2>. QED
    BY <1>6, <1>7, <2>1
<1>10. CASE c.cho # 0 /\ c.jung = 0
  <2>1. Jaeum(c, cp) = Push(c, Lead(cp))
    BY <1>1, <1>10 DEF Jaeum
  <2>. QED
    BY <1>6, <2>1
<1>11. CASE c.cho # 0 /\ c.jung # 0 /\ c.jong = 0
  <2>1. CASE Contains(Jongseong, cp)
    <3>. DEFINE n == [c EXCEPT !.jong = cp]
    <3>1. Jaeum(c, cp) = Keep(n)
      BY <1>11, <2>1 DEF Jaeum
    <3>2. InProgress(n)
      BY <1>1, <1>11, <2>1 DEF InProgress, Finals
    <3>3. PartKeys(n) = Joined(Joined(A, B), K)
      BY <1>1, <1>3 DEF PartKeys, Joined
    <3>4. PartKeys(c) = Joined(A, B)
      <4>1. D = <<>>
        BY <1>3, <1>11
      <4>2. Joined(A, B) \in Seq(Nat)
        BY <1>2, JoinedFacts
      <4>. QED
        BY <1>4, <4>1, <4>2, JoinedFacts
    <3>. HIDE DEF n
    <3>5. FedKeys(c, cp, Keep(n))
      BY <3>2, <3>3, <3>4, KeepKeys
    <3>. QED
      BY <3>1, <3>5 DEF Keep
  <2>2. CASE ~Contains(Jongseong, cp)
    <3>1. Jaeum(c, cp) = Push(c, Lead(cp))
      BY <1>11, <2>2 DEF Jaeum
    <3>. QED
      BY <1>6, <3>1
  <2>. QED
    BY <2>1, <2>2
<1>12. CASE c.cho # 0 /\ c.jung # 0 /\ c.jong # 0
  <2>1. CASE Simple(c.jong) /\ Merge(c.jong, cp) # 0
    <3>. DEFINE m == Merge(c.jong, cp)
                n == [c EXCEPT !.jong = m]
    <3>1. Jaeum(c, cp) = Keep(n)
      BY <1>12, <2>1 DEF Jaeum
    <3>2. c.jong \in Finals /\ c.jong \in Jaeums
      BY <1>1, <1>12 DEF Finals
    <3>3. m \in Finals /\ m \in Jaeums
      BY <2>1, <3>2, MergedKinds DEF Finals
    <3>4. JamoKey[m] = Joined(JamoKey[c.jong], K)
      BY <2>1, <3>2, MergedKeys DEF Joined
    <3>5. LetterKeys(m) = Joined(D, K)
      BY <3>2, <3>3, <3>4, KeysOfJamo
    <3>. HIDE DEF m
    <3>6. InProgress(n)
      BY <1>1, <1>12, <3>3 DEF InProgress
    <3>7. PartKeys(n) = Joined(Joined(A, B), Joined(D, K))
      BY <1>1, <3>5 DEF PartKeys, Joined
    <3>8. PartKeys(n) = Joined(PartKeys(c), K)
      <4>. HIDE DEF A, B, D, K, n
      <4>. QED
        BY <1>2, <1>3, <1>4, <3>7, JoinedFacts
    <3>. HIDE DEF n
    <3>9. FedKeys(c, cp, Keep(n))
      BY <3>6, <3>8, KeepKeys
    <3>. QED
      BY <3>1, <3>9 DEF Keep
  <2>2. CASE ~(Simple(c.jong) /\ Merge(c.jong, cp) # 0)
    <3>1. Jaeum(c, cp) = Push(c, Lead(cp))
      BY <1>12, <2>2 DEF Jaeum
    <3>. QED
      BY <1>6, <3>1
  <2>. QED
    BY <2>1, <2>2
<1>. QED
  BY <1>8, <1>9, <1>10, <1>11, <1>12

\* automata_feed_jamo keeps the keys of a vowel, and never spoils the word.
LEMMA MoeumKeys ==
  ASSUME NEW c, InProgress(c), NEW cp \in Moeums
  PROVE  FedKeys(c, cp, Moeum(c, cp)) /\ Moeum(c, cp).ok
<1>1. /\ c \in [cho : {0} \cup Jaeums, jung : {0} \cup Moeums, jong : {0} \cup Finals]
      /\ c.jong # 0 => c.cho # 0 /\ c.jung # 0
  BY DEF InProgress
<1>. DEFINE A == LetterKeys(c.cho)
            B == LetterKeys(c.jung)
            D == LetterKeys(c.jong)
            K == JamoKey[cp]
            alone == [None EXCEPT !.jung = cp]
<1>2. A \in Seq(Nat) /\ B \in Seq(Nat) /\ D \in Seq(Nat) /\ PartKeys(c) \in Seq(Nat)
  BY InProgressKeys
<1>3. K \in Seq(Nat) /\ LetterKeys(cp) = K /\ LetterKeys(0) = <<>>
  BY KeysOfJamo, LetterKeysType DEF LetterKeys
<1>4. PartKeys(c) = Joined(Joined(A, B), D)
  BY DEF PartKeys, Joined
<1>5. FedKeys(c, cp, Push(c, alone)) /\ Push(c, alone).ok
  <2>1. InProgress(alone) /\ PartKeys(alone) = K
    BY KeysOfLetters
  <2>. HIDE DEF alone
  <2>. QED
    BY <2>1, PushKeys DEF Push
<1>6. CASE c.jong # 0 /\ Compound(c.jong)
  <2>. DEFINE f == FirstPart(c.jong)
              l == SecondPart(c.jong)
              p == [c EXCEPT !.jong = f]
              n == [Lead(l) EXCEPT !.jung = cp]
  <2>1. Moeum(c, cp) = Push(p, n)
    BY <1>6 DEF Moeum
  <2>2. c.jong \in Finals /\ c.jong \in Jaeums
    BY <1>1, <1>6 DEF Finals
  <2>3. f \in Finals /\ f \in Jaeums /\ l \in Jaeums
    BY <1>6, <2>2, PartsOfFinal DEF Finals, Consonants
  <2>4. JamoKey[c.jong] = Joined(JamoKey[f], JamoKey[l])
    BY <1>6, <2>2, SplitKeys DEF Joined
  <2>. HIDE DEF f, l
  <2>5. D = Joined(JamoKey[f], JamoKey[l])
    BY <2>2, <2>4, KeysOfJamo
  <2>6. InProgress(p)
    BY <1>1, <1>6, <2>3 DEF InProgress
  <2>7. LetterKeys(f) = JamoKey[f] /\ JamoKey[f] \in Seq(Nat) /\ JamoKey[l] \in Seq(Nat)
    <3>1. LetterKeys(f) = JamoKey[f] /\ LetterKeys(l) = JamoKey[l]
      BY <2>3, KeysOfJamo
    <3>2. LetterKeys(f) \in Seq(Nat) /\ LetterKeys(l) \in Seq(Nat)
      BY <2>3, LetterKeysType
    <3>. QED
      BY <3>1, <3>2
  <2>8. PartKeys(p) = Joined(Joined(A, B), JamoKey[f])
    BY <1>1, <2>7 DEF PartKeys, Joined
  <2>9. InProgress(n) /\ PartKeys(n) = Joined(JamoKey[l], K)
    BY <2>3, KeysOfLetters
  <2>10. Joined(PartKeys(p), PartKeys(n)) = Joined(PartKeys(c), K)
    <3>. DEFINE F == JamoKey[f]
                L == JamoKey[l]
    <3>. HIDE DEF A, B, D, K, F, L, n, p
    <3>1. Joined(A, B) \in Seq(Nat)
      BY <1>2, JoinedFacts
    <3>2. Joined(Joined(Joined(A, B), F), Joined(L, K)) = Joined(Joined(Joined(A, B), Joined(F, L)), K)
      <4>1. F \in Seq(Nat) /\ L \in Seq(Nat)
        BY <2>7 DEF F, L
      <4>. QED
        BY <1>2, <1>3, <3>1, <4>1, JoinedFacts
    <3>. QED
      BY <1>4, <2>5, <2>8, <2>9, <3>2 DEF F, L
  <2>. HIDE DEF n, p
  <2>11. FedKeys(c, cp, Push(p, n))
    BY <2>6, <2>9, <2>10, PushKeys
  <2>. QED
    BY <2>1, <2>11 DEF Push
<1>7. CASE c.jong # 0 /\ ~Compound(c.jong)
  <2>. DEFINE p == [c EXCEPT !.jong = 0]
              n == [Lead(c.jong) EXCEPT !.jung = cp]
  <2>1. Moeum(c, cp) = Push(p, n)
    BY <1>7 DEF Moeum
  <2>2. c.jong \in Jaeums
    BY <1>1, <1>7 DEF Finals
  <2>3. InProgress(p)
    BY <1>1 DEF InProgress
  <2>4. PartKeys(p) = Joined(Joined(A, B), <<>>)
    BY <1>1, <1>3 DEF PartKeys, Joined
  <2>5. D = JamoKey[c.jong]
    BY <2>2, KeysOfJamo
  <2>6. InProgress(n) /\ PartKeys(n) = Joined(D, K)
    BY <2>2, <2>5, KeysOfLetters
  <2>7. Joined(PartKeys(p), PartKeys(n)) = Joined(PartKeys(c), K)
    <3>. HIDE DEF A, B, D, K, n, p
    <3>1. Joined(A, B) \in Seq(Nat)
      BY <1>2, JoinedFacts
    <3>. QED
      BY <1>2, <1>3, <1>4, <2>4, <2>6, <3>1, JoinedFacts
  <2>. HIDE DEF n, p
  <2>8. FedKeys(c, cp, Push(p, n))
    BY <2>3, <2>6, <2>7, PushKeys
  <2>. QED
    BY <2>1, <2>8 DEF Push
<1>8. CASE c.jong = 0
  <2>0. PartKeys(c) = Joined(A, B)
    <3>1. D = <<>>
      BY <1>3, <1>8
    <3>2. Joined(A, B) \in Seq(Nat)
      BY <1>2, JoinedFacts
    <3>. QED
      BY <1>4, <3>1, <3>2, JoinedFacts
  <2>1. CASE c.jung = 0
    <3>. DEFINE n == [c EXCEPT !.jung = cp]
    <3>1. Moeum(c, cp) = Keep(n)
      BY <1>8, <2>1 DEF Moeum
    <3>2. InProgress(n)
      BY <1>1, <1>8 DEF InProgress
    <3>3. PartKeys(n) = Joined(Joined(A, K), <<>>)
      BY <1>1, <1>3, <1>8 DEF PartKeys, Joined
    <3>4. B = <<>>
      BY <1>3, <2>1
    <3>5. PartKeys(n) = Joined(PartKeys(c), K)
      <4>. HIDE DEF A, B, D, K, n
      <4>1. Joined(A, K) \in Seq(Nat)
        BY <1>2, <1>3, JoinedFacts
      <4>. QED
        BY <1>2, <2>0, <3>3, <3>4, <4>1, JoinedFacts
    <3>. HIDE DEF n
    <3>6. FedKeys(c, cp, Keep(n))
      BY <3>2, <3>5, KeepKeys
    <3>. QED
      BY <3>1, <3>6 DEF Keep
  <2>2. CASE c.jung # 0 /\ Merge(c.jung, cp) # 0
    <3>. DEFINE m == Merge(c.jung, cp)
                n == [c EXCEPT !.jung = m]
    <3>1. Moeum(c, cp) = Keep(n)
      BY <1>8, <2>2 DEF Moeum
    <3>2. c.jung \in Moeums
      BY <1>1, <2>2
    <3>3. m \in Moeums
      BY <2>2, <3>2, MergedKinds
    <3>4. JamoKey[m] = Joined(JamoKey[c.jung], K)
      BY <2>2, <3>2, MergedKeys DEF Joined
    <3>5. LetterKeys(m) = Joined(B, K)
      BY <3>2, <3>3, <3>4, KeysOfJamo
    <3>. HIDE DEF m
    <3>6. InProgress(n)
      BY <1>1, <1>8, <3>3 DEF InProgress
    <3>7. PartKeys(n) = Joined(Joined(A, Joined(B, K)), <<>>)
      BY <1>1, <1>3, <1>8, <3>5 DEF PartKeys, Joined
    <3>8. PartKeys(n) = Joined(PartKeys(c), K)
      <4>. HIDE DEF A, B, D, K, n
      <4>1. Joined(B, K) \in Seq(Nat)
        BY <1>2, <1>3, JoinedFacts
      <4>2. Joined(A, Joined(B, K)) \in Seq(Nat)
        BY <1>2, <4>1, JoinedFacts
      <4>. QED
        BY <1>2, <1>3, <2>0, <3>7, <4>2, JoinedFacts
    <3>. HIDE DEF n
    <3>9. FedKeys(c, cp, Keep(n))
      BY <3>6, <3>8, KeepKeys
    <3>. QED
      BY <3>1, <3>9 DEF Keep
  <2>3. CASE c.jung # 0 /\ Merge(c.jung, cp) = 0
    <3>1. Moeum(c, cp) = Push(c, alone)
      BY <1>8, <2>3 DEF Moeum
    <3>. QED
      BY <1>5, <3>1
  <2>. QED
    BY <2>1, <2>2, <2>3
<1>. QED
  BY <1>6, <1>7, <1>8

-----------------------------------------------------------------------------
(* The keys of the texts *)

\* How the keys of a text grow with it.
LEMMA TextKeys ==
  /\ Keystrokes(<<>>) = <<>>
  /\ \A text \in Seq(Nat) : Keystrokes(text) \in Seq(Nat)
  /\ \A text \in Seq(Nat), cp \in Nat :
       Append(text, cp) \in Seq(Nat) /\ Keystrokes(Append(text, cp)) = Joined(Keystrokes(text), Keys(cp))
  /\ \A text, more \in Seq(Nat) :
       text \o more \in Seq(Nat) /\ Keystrokes(text \o more) = Joined(Keystrokes(text), Keystrokes(more))
<1>1. \A text \in Seq(Nat), cp \in Nat :
        Append(text, cp) \in Seq(Nat) /\ Keystrokes(Append(text, cp)) = Joined(Keystrokes(text), Keys(cp))
  <2>. SUFFICES ASSUME NEW text \in Seq(Nat), NEW cp \in Nat
                PROVE  /\ Append(text, cp) \in Seq(Nat)
                       /\ Keystrokes(Append(text, cp)) = Joined(Keystrokes(text), Keys(cp))
    OBVIOUS
  <2>1. Keystrokes(text) \in Seq(Nat)
    BY KeystrokesType
  <2>2. Keystrokes(Append(text, cp)) = Joined(Keystrokes(text), Keys(cp))
    BY <2>1, KeystrokesAppend DEF Joined
  <2>. QED
    BY <2>2
<1>2. \A text, more \in Seq(Nat) :
        text \o more \in Seq(Nat) /\ Keystrokes(text \o more) = Joined(Keystrokes(text), Keystrokes(more))
  BY Joining, KeystrokesJoin DEF Joined
<1>. QED
  BY <1>1, <1>2, NoKeystrokes, KeystrokesType

\* A character and the jamo it types have the same keys.
LEMMA TypedKeys ==
  ASSUME NEW ch \in Nat
  PROVE  /\ Typed(ch) \in Nat /\ Keys(Typed(ch)) = Keys(ch)
         /\ IsJamo(Typed(ch)) => Typed(ch) \in Jaeums \cup Moeums
<1>1. CASE keystroke /\ ch \in DOMAIN KeyToJamo
  <2>1. Typed(ch) = KeyToJamo[ch]
    BY <1>1 DEF Typed
  <2>2. KeyToJamo[ch] \in Jaeums \cup Moeums
    BY <1>1, KeyTypes
  <2>3. Keys(KeyToJamo[ch]) = JamoKey[KeyToJamo[ch]] /\ KeyToJamo[ch] \in Nat
    BY <2>2, KeysOfJamo, NoSyllable
  <2>4. JamoKey[KeyToJamo[ch]] = <<ch>>
    BY <1>1, TablesAssumption, SMTT(30) DEF KeyTables
  <2>5. ch \in Int /\ ch <= 127
    <3>1. DOMAIN KeyToJamo \subseteq 0 .. 127
      BY TablesAssumption
    <3>. QED
      BY <1>1, <3>1
  <2>6. Keys(ch) = <<ch>>
    BY <2>5, NoSyllable DEF Keys
  <2>. QED
    BY <2>1, <2>2, <2>3, <2>4, <2>6
<1>2. CASE ~(keystroke /\ ch \in DOMAIN KeyToJamo)
  BY <1>2 DEF Typed, IsJamo, IsJaeum, IsMoeum
<1>. QED
  BY <1>1, <1>2

-----------------------------------------------------------------------------
(* Nothing typed is lost *)

Texts == /\ input \in Seq(Nat) /\ output \in Seq(Nat)
         /\ raw \in Seq(Nat) /\ syllables \in Seq(Nat)

\* What is out and the characters of the word are what was fed.
RawKept == Joined(Keystrokes(output), Keystrokes(raw)) = Keystrokes(input)

\* The syllables of the word and the component are the word, for as long as
\* the word may be put out in syllables.
WordKept ==
  force \/ valid # 0 => Joined(Keystrokes(syllables), PartKeys(comp)) = Keystrokes(raw)

\* Where the keys of the input are at every moment.
KeysPlaced ==
  /\ Texts
  /\ InProgress(comp)
  /\ at \in {"feeding", "done", "error"}
  /\ at = "feeding" => RawKept /\ WordKept
  /\ at = "done" => Keystrokes(output) = Keystrokes(input)

\* Nothing is fed and nothing is out.
LEMMA InitKeysPlaced == Init => KeysPlaced
<1>. SUFFICES ASSUME Init PROVE KeysPlaced
  OBVIOUS
<1>1. /\ input = <<>> /\ output = <<>> /\ raw = <<>> /\ syllables = <<>>
      /\ comp = None /\ at = "feeding"
  BY DEF Init
<1>2. Joined(<<>>, <<>>) = <<>> /\ PartKeys(None) = <<>> /\ InProgress(None)
  BY JoinedFacts, KeysOfLetters
<1>3. Texts
  BY <1>1 DEF Texts
<1>4. RawKept /\ WordKept
  BY <1>1, <1>2, TextKeys DEF RawKept, WordKept
<1>. QED
  BY <1>1, <1>2, <1>3, <1>4 DEF KeysPlaced

\* The word, if it is put out in syllables, has the keys of its characters.
LEMMA ComposedKept ==
  ASSUME KeysPlaced, at = "feeding", ~FlushFails
  PROVE  /\ Composed \in Seq(Nat)
         /\ force \/ WordValid => Keystrokes(Composed) = Keystrokes(raw)
<1>1. /\ syllables \in Seq(Nat) /\ InProgress(comp)
      /\ force \/ valid # 0 => Joined(Keystrokes(syllables), PartKeys(comp)) = Keystrokes(raw)
  BY DEF KeysPlaced, Texts, WordKept
<1>2. WordValid => valid # 0
  BY DEF WordValid
<1>3. CASE comp = None
  <2>1. Composed = syllables
    BY <1>3 DEF Composed
  <2>2. Joined(Keystrokes(syllables), PartKeys(comp)) = Keystrokes(syllables)
    BY <1>1, <1>3, TextKeys, KeysOfLetters, JoinedFacts
  <2>. QED
    BY <1>1, <1>2, <2>1, <2>2
<1>4. CASE comp # None
  <2>1. Compose(comp) # 0
    BY <1>4 DEF FlushFails
  <2>2. Compose(comp) \in Nat /\ Keys(Compose(comp)) = PartKeys(comp)
    BY <1>1, <1>4, <2>1, ComposedKeys
  <2>3. Composed = Append(syllables, Compose(comp))
    BY <1>4 DEF Composed
  <2>4. /\ Composed \in Seq(Nat)
        /\ Keystrokes(Composed) = Joined(Keystrokes(syllables), PartKeys(comp))
    BY <1>1, <2>2, <2>3, TextKeys
  <2>. QED
    BY <1>1, <1>2, <2>4
<1>. QED
  BY <1>3, <1>4

\* A new word is empty.
LEMMA EmptyWord ==
  ASSUME NEW typed, NewWord(typed), output' \in Seq(Nat), input' \in Seq(Nat),
         Keystrokes(output') = Keystrokes(input')
  PROVE  (Texts /\ InProgress(comp) /\ RawKept /\ WordKept)'
<1>1. comp' = None /\ syllables' = <<>> /\ raw' = <<>>
  BY DEF NewWord
<1>2. Joined(<<>>, <<>>) = <<>> /\ PartKeys(None) = <<>> /\ InProgress(None)
  BY JoinedFacts, KeysOfLetters
<1>3. Texts'
  BY <1>1 DEF Texts
<1>4. InProgress(comp')
  BY <1>1, <1>2
<1>5. RawKept'
  <2>1. Keystrokes(raw') = <<>>
    BY <1>1, TextKeys
  <2>2. Joined(Keystrokes(output'), <<>>) = Keystrokes(output')
    BY TextKeys, JoinedFacts
  <2>. QED
    BY <2>1, <2>2 DEF RawKept
<1>6. WordKept'
  BY <1>1, <1>2, TextKeys DEF WordKept
<1>. QED
  BY <1>3, <1>4, <1>5, <1>6

\* A character fed, and the jamo it types, are the same keys to the end of
\* the input and of the word.
LEMMA FedCharacter ==
  ASSUME Texts, RawKept, NEW ch \in Nat, input' = Append(input, ch)
  PROVE  /\ input' \in Seq(Nat) /\ Append(raw, Typed(ch)) \in Seq(Nat)
         /\ Keystrokes(Append(raw, Typed(ch))) = Joined(Keystrokes(raw), Keys(ch))
         /\ Keystrokes(input') = Joined(Keystrokes(output), Joined(Keystrokes(raw), Keys(ch)))
<1>1. /\ input \in Seq(Nat) /\ output \in Seq(Nat) /\ raw \in Seq(Nat)
      /\ Joined(Keystrokes(output), Keystrokes(raw)) = Keystrokes(input)
  BY DEF Texts, RawKept
<1>2. Typed(ch) \in Nat /\ Keys(Typed(ch)) = Keys(ch)
  BY TypedKeys
<1>3. input' \in Seq(Nat) /\ Keystrokes(input') = Joined(Keystrokes(input), Keys(ch))
  BY <1>1, TextKeys
<1>4. /\ Append(raw, Typed(ch)) \in Seq(Nat)
      /\ Keystrokes(Append(raw, Typed(ch))) = Joined(Keystrokes(raw), Keys(ch))
  BY <1>1, <1>2, TextKeys
<1>5. Keystrokes(output) \in Seq(Nat) /\ Keystrokes(raw) \in Seq(Nat) /\ Keys(ch) \in Seq(Nat)
  BY <1>1, TextKeys, KeysType
<1>6. Joined(Keystrokes(output), Joined(Keystrokes(raw), Keys(ch)))
        = Joined(Joined(Keystrokes(output), Keystrokes(raw)), Keys(ch))
  BY <1>5, JoinedFacts
<1>. QED
  BY <1>1, <1>3, <1>4, <1>6

\* A jamo: its keys are in the component, or in the component and what is pushed.
LEMMA FeedJamoKeepsKeys ==
  ASSUME KeysPlaced, at = "feeding", NEW ch \in Nat, input' = Append(input, ch),
         UNCHANGED <<keystroke, force>>, FeedJamo(ch)
  PROVE  KeysPlaced'
<1>. DEFINE cp == Typed(ch)
            next == IF IsJaeum(cp) THEN Jaeum(comp, cp) ELSE Moeum(comp, cp)
<1>1. /\ Texts /\ InProgress(comp) /\ RawKept /\ WordKept
  BY DEF KeysPlaced
<1>2. cp \in Nat /\ cp \in Jaeums \cup Moeums /\ JamoKey[cp] = Keys(ch)
  <2>1. IsJamo(cp)
    BY DEF FeedJamo
  <2>2. cp \in Nat /\ Keys(cp) = Keys(ch) /\ cp \in Jaeums \cup Moeums
    BY <2>1, TypedKeys
  <2>. QED
    BY <2>2, KeysOfJamo
<1>3. raw' = Append(raw, cp) /\ output' = output
  BY DEF FeedJamo
<1>4. /\ input' \in Seq(Nat) /\ raw' \in Seq(Nat)
      /\ Keystrokes(raw') = Joined(Keystrokes(raw), Keys(ch))
      /\ Keystrokes(input') = Joined(Keystrokes(output'), Keystrokes(raw'))
  BY <1>1, <1>3, FedCharacter
<1>5. RawKept'
  BY <1>4 DEF RawKept
<1>6. FedKeys(comp, cp, next) /\ (force => next.ok)
  <2>1. CASE IsJaeum(cp)
    BY <1>1, <2>1, JaeumKeys DEF IsJaeum
  <2>2. CASE ~IsJaeum(cp)
    <3>1. cp \in Moeums
      BY <1>2, <2>2 DEF IsJaeum
    <3>. QED
      BY <1>1, <2>2, <3>1, MoeumKeys
  <2>. QED
    BY <2>1, <2>2
<1>7. IF next.push # None /\ Compose(next.push) = 0
      THEN at' = "error" /\ UNCHANGED <<comp, valid, syllables>>
      ELSE /\ comp' = next.comp
           /\ syllables' = IF next.push = None THEN syllables
                           ELSE Append(syllables, Compose(next.push))
           /\ valid' = IF ~next.ok \/ (next.push # None /\ ~Complete(next.push)) THEN 0
                       ELSE valid
           /\ UNCHANGED at
  BY DEF FeedJamo
<1>8. output' \in Seq(Nat) /\ syllables \in Seq(Nat)
  BY <1>1, <1>3 DEF Texts
<1>. HIDE DEF next, cp
<1>9. CASE next.push # None /\ Compose(next.push) = 0
  <2>1. at' = "error" /\ comp' = comp /\ syllables' = syllables
    BY <1>7, <1>9
  <2>2. Texts' /\ InProgress(comp')
    BY <1>1, <1>4, <1>8, <2>1 DEF Texts
  <2>. QED
    BY <2>1, <2>2 DEF KeysPlaced
<1>10. CASE ~(next.push # None /\ Compose(next.push) = 0)
  <2>1. /\ comp' = next.comp /\ at' = "feeding"
        /\ syllables' = IF next.push = None THEN syllables
                        ELSE Append(syllables, Compose(next.push))
        /\ ~next.ok => valid' = 0
        /\ valid' # 0 => valid # 0
    BY <1>7, <1>10
  <2>2. InProgress(next.push) /\ InProgress(comp')
    BY <1>6, <2>1 DEF FedKeys
  <2>3. /\ syllables' \in Seq(Nat)
        /\ Keystrokes(syllables') = Joined(Keystrokes(syllables), PartKeys(next.push))
    <3>1. CASE next.push = None
      <4>1. Joined(Keystrokes(syllables), <<>>) = Keystrokes(syllables)
        BY <1>8, TextKeys, JoinedFacts
      <4>. QED
        BY <1>8, <2>1, <3>1, <4>1, KeysOfLetters
    <3>2. CASE next.push # None
      <4>1. Compose(next.push) # 0
        BY <1>10, <3>2
      <4>2. Compose(next.push) \in Nat /\ Keys(Compose(next.push)) = PartKeys(next.push)
        BY <2>2, <3>2, <4>1, ComposedKeys
      <4>. QED
        BY <1>8, <2>1, <3>2, <4>2, TextKeys
    <3>. QED
      BY <3>1, <3>2
  <2>4. WordKept'
    <3>. SUFFICES ASSUME force' \/ valid' # 0
                  PROVE  Joined(Keystrokes(syllables'), PartKeys(comp')) = Keystrokes(raw')
      BY DEF WordKept
    <3>1. next.ok /\ (force \/ valid # 0)
      BY <1>6, <2>1
    <3>2. Joined(PartKeys(next.push), PartKeys(comp')) = Joined(PartKeys(comp), Keys(ch))
      BY <1>2, <1>6, <2>1, <3>1 DEF FedKeys
    <3>3. Joined(Keystrokes(syllables), PartKeys(comp)) = Keystrokes(raw)
      BY <1>1, <3>1 DEF WordKept
    <3>4. /\ Keystrokes(syllables) \in Seq(Nat) /\ PartKeys(next.push) \in Seq(Nat)
          /\ PartKeys(comp') \in Seq(Nat) /\ PartKeys(comp) \in Seq(Nat) /\ Keys(ch) \in Seq(Nat)
      BY <1>1, <1>8, <2>2, TextKeys, InProgressKeys, KeysType
    <3>5. Joined(Joined(Keystrokes(syllables), PartKeys(next.push)), PartKeys(comp'))
            = Joined(Keystrokes(syllables), Joined(PartKeys(next.push), PartKeys(comp')))
      BY <3>4, JoinedFacts
    <3>6. Joined(Keystrokes(syllables), Joined(PartKeys(comp), Keys(ch)))
            = Joined(Joined(Keystrokes(syllables), PartKeys(comp)), Keys(ch))
      BY <3>4, JoinedFacts
    <3>. QED
      BY <1>4, <2>3, <3>2, <3>3, <3>5, <3>6
  <2>5. Texts'
    BY <1>4, <1>8, <2>3 DEF Texts
  <2>. QED
    BY <1>5, <2>1, <2>2, <2>4, <2>5 DEF KeysPlaced
<1>. QED
  BY <1>9, <1>10

\* Another character: the word is out, in syllables or as it came, and it follows.
LEMMA FeedOtherKeepsKeys ==
  ASSUME KeysPlaced, at = "feeding", NEW ch \in Nat, input' = Append(input, ch),
         UNCHANGED <<keystroke, force>>, FeedOther(ch)
  PROVE  KeysPlaced'
<1>. DEFINE cp == Typed(ch)
            typed == Append(raw, cp)
<1>1. Texts /\ InProgress(comp) /\ RawKept
  BY DEF KeysPlaced
<1>2. cp \in Nat /\ Keys(cp) = Keys(ch)
  BY TypedKeys
<1>3. /\ input' \in Seq(Nat) /\ typed \in Seq(Nat)
      /\ Keystrokes(typed) = Joined(Keystrokes(raw), Keys(ch))
      /\ Keystrokes(input') = Joined(Keystrokes(output), Joined(Keystrokes(raw), Keys(ch)))
  BY <1>1, FedCharacter
<1>4. IF FlushFails
      THEN at' = "error" /\ raw' = typed /\ UNCHANGED <<comp, valid, syllables, output>>
      ELSE /\ output' = output \o (IF force \/ WordValid THEN Append(Composed, cp) ELSE typed)
           /\ NewWord(typed)
           /\ UNCHANGED at
  BY DEF FeedOther
<1>. HIDE DEF cp, typed
<1>5. CASE FlushFails
  <2>1. at' = "error" /\ comp' = comp /\ syllables' = syllables /\ output' = output /\ raw' = typed
    BY <1>4, <1>5
  <2>2. Texts' /\ InProgress(comp')
    BY <1>1, <1>3, <2>1 DEF Texts
  <2>. QED
    BY <2>1, <2>2 DEF KeysPlaced
<1>6. CASE ~FlushFails
  <2>. DEFINE word == IF force \/ WordValid THEN Append(Composed, cp) ELSE typed
  <2>1. output' = output \o word /\ NewWord(typed) /\ at' = "feeding"
    BY <1>4, <1>6
  <2>2. word \in Seq(Nat) /\ Keystrokes(word) = Joined(Keystrokes(raw), Keys(ch))
    <3>1. CASE force \/ WordValid
      <4>1. Composed \in Seq(Nat) /\ Keystrokes(Composed) = Keystrokes(raw)
        BY <1>6, <3>1, ComposedKept
      <4>. QED
        BY <1>2, <3>1, <4>1, TextKeys
    <3>2. CASE ~(force \/ WordValid)
      BY <1>3, <3>2
    <3>. QED
      BY <3>1, <3>2
  <2>. HIDE DEF word
  <2>3. output' \in Seq(Nat) /\ Keystrokes(output') = Keystrokes(input')
    <3>1. output \in Seq(Nat)
      BY <1>1 DEF Texts
    <3>. QED
      BY <1>3, <2>1, <2>2, <3>1, TextKeys
  <2>4. (Texts /\ InProgress(comp) /\ RawKept /\ WordKept)'
    BY <1>3, <2>1, <2>3, EmptyWord
  <2>. QED
    BY <2>1, <2>4 DEF KeysPlaced
<1>. QED
  BY <1>5, <1>6

\* The end: the last word is out, or the input as it came.
LEMMA FinishKeepsKeys ==
  ASSUME KeysPlaced, Finish
  PROVE  KeysPlaced'
<1>1. at = "feeding" /\ input' = input
  BY DEF Finish
<1>2. Texts /\ InProgress(comp) /\ RawKept
  BY <1>1 DEF KeysPlaced
<1>3. CASE FlushFails
  <2>1. at' = "error" /\ comp' = comp /\ syllables' = syllables /\ output' = output /\ raw' = raw
    BY <1>3 DEF Finish
  <2>2. Texts' /\ InProgress(comp')
    BY <1>1, <1>2, <2>1 DEF Texts
  <2>. QED
    BY <2>1, <2>2 DEF KeysPlaced
<1>4. CASE ~FlushFails
  <2>1. /\ output' = IF raw # <<>> /\ ~force /\ ~WordValid THEN input ELSE output \o WordText(raw)
        /\ NewWord(raw) /\ at' = "done"
    BY <1>4 DEF Finish
  <2>2. output' \in Seq(Nat) /\ Keystrokes(output') = Keystrokes(input')
    <3>1. CASE output' = input
      BY <1>1, <1>2, <3>1 DEF Texts
    <3>2. CASE output' = output \o WordText(raw)
      <4>1. WordText(raw) \in Seq(Nat) /\ Keystrokes(WordText(raw)) = Keystrokes(raw)
        <5>1. raw \in Seq(Nat)
          BY <1>2 DEF Texts
        <5>. QED
          BY <1>1, <1>4, <5>1, ComposedKept DEF WordText
      <4>2. output \in Seq(Nat) /\ Joined(Keystrokes(output), Keystrokes(raw)) = Keystrokes(input)
        BY <1>2 DEF Texts, RawKept
      <4>. QED
        BY <1>1, <3>2, <4>1, <4>2, TextKeys
    <3>. QED
      BY <2>1, <3>1, <3>2
  <2>3. input' \in Seq(Nat)
    BY <1>1, <1>2 DEF Texts
  <2>4. (Texts /\ InProgress(comp) /\ RawKept /\ WordKept)'
    BY <2>1, <2>2, <2>3, EmptyWord
  <2>. QED
    BY <2>1, <2>2, <2>4 DEF KeysPlaced
<1>. QED
  BY <1>3, <1>4

\* Every step keeps the keys in place.
LEMMA NextKeysPlaced == KeysPlaced /\ [Next]_vars => KeysPlaced'
<1>. SUFFICES ASSUME KeysPlaced, [Next]_vars PROVE KeysPlaced'
  OBVIOUS
<1>1. ASSUME NEW ch \in KeyAlphabet \cup JamoAlphabet, Feed(ch)
      PROVE  KeysPlaced'
  <2>1. /\ ch \in Nat /\ at = "feeding" /\ input' = Append(input, ch)
        /\ UNCHANGED <<keystroke, force>> /\ (FeedJamo(ch) \/ FeedOther(ch))
    BY <1>1, TablesAssumption, SMTT(30) DEF Feed
  <2>2. CASE FeedJamo(ch)
    BY <2>1, <2>2, FeedJamoKeepsKeys
  <2>3. CASE FeedOther(ch)
    BY <2>1, <2>3, FeedOtherKeepsKeys
  <2>. QED
    BY <2>1, <2>2, <2>3
<1>2. CASE Finish
  BY <1>2, FinishKeepsKeys
<1>3. CASE UNCHANGED vars
  BY <1>3 DEF vars, KeysPlaced, Texts, RawKept, WordKept
<1>. QED
  BY <1>1, <1>2, <1>3 DEF Next

\* For every keyboard and every table of letters as TablesAssumption has them,
\* and for inputs of any length: what is out and the word in progress are
\* typed by the very keys of the input, through every merge and split, and
\* whether a word is put out in syllables, by force or as it came.
THEOREM NothingTypedIsLost == Spec => []KeysConserved
<1>1. KeysPlaced => KeysConserved
  <2>. SUFFICES ASSUME KeysPlaced, at # "error", ~FlushFails
                PROVE  Keystrokes(IF at = "done" THEN output ELSE output \o WordText(raw))
                         = Keystrokes(input)
    BY DEF KeysConserved
  <2>1. CASE at = "done"
    BY <2>1 DEF KeysPlaced
  <2>2. CASE at = "feeding"
    <3>1. /\ output \in Seq(Nat) /\ raw \in Seq(Nat)
          /\ Joined(Keystrokes(output), Keystrokes(raw)) = Keystrokes(input)
      BY <2>2 DEF KeysPlaced, Texts, RawKept
    <3>2. WordText(raw) \in Seq(Nat) /\ Keystrokes(WordText(raw)) = Keystrokes(raw)
      BY <2>2, <3>1, ComposedKept DEF WordText
    <3>3. Keystrokes(output \o WordText(raw)) = Keystrokes(input)
      BY <3>1, <3>2, TextKeys
    <3>. QED
      BY <2>2, <3>3
  <2>. QED
    BY <2>1, <2>2 DEF KeysPlaced
<1>. QED
  BY <1>1, InitKeysPlaced, NextKeysPlaced, PTL DEF Spec

-----------------------------------------------------------------------------
(* A sequence of characters from its first *)

\* What FlattenSeq puts together, from the end.
IsUnfolding(g, seqs) ==
  /\ g \in [0 .. Len(seqs) -> Seq(Nat)]
  /\ g[Len(seqs)] = <<>>
  /\ \A k \in 1 .. Len(seqs) : g[k - 1] = Joined(seqs[k], g[k])
  /\ g[0] = FlattenSeq(seqs)

\* The first sequence, then the others.
LEMMA Unfolding ==
  ASSUME NEW seqs \in Seq(Seq(Nat))
  PROVE  \E g : IsUnfolding(g, seqs)
<1>. DEFINE N == Len(seqs)
            V == Seq(Nat)
            step == [p \in V \X (1 .. N) |-> Joined(seqs[N + 1 - p[2]], p[1])]
<1>1. N \in Nat /\ \A i \in 1 .. N : seqs[i] \in V
  OBVIOUS
<1>. HIDE DEF N
<1>2. step \in [V \X (1 .. N) -> V]
  <2>1. ASSUME NEW p \in V \X (1 .. N) PROVE step[p] \in V
    <3>1. p[1] \in V /\ N + 1 - p[2] \in 1 .. N
      BY <1>1
    <3>2. seqs[N + 1 - p[2]] \in V
      BY <1>1, <3>1
    <3>3. Joined(seqs[N + 1 - p[2]], p[1]) \in V
      BY <3>1, <3>2, JoinedFacts
    <3>. QED
      BY <3>3
  <2>. QED
    BY <2>1
<1>3. PICK h : IsRun(h, N, V, <<>>, step)
  <2>1. IsStep(step, N, V) /\ <<>> \in V
    BY <1>2, JoinedFacts DEF IsStep
  <2>. HIDE DEF step, V
  <2>. QED
    BY <1>1, <2>1, Recursion
<1>4. h \in [0 .. N -> V] /\ h[0] = <<>>
  BY <1>3 DEF IsRun
<1>5. ASSUME NEW k \in 1 .. N PROVE h[k] = Joined(seqs[N + 1 - k], h[k - 1])
  <2>1. h[k] = step[<<h[k - 1], k>>]
    BY <1>3 DEF IsRun
  <2>2. h[k - 1] \in V
    BY <1>1, <1>4
  <2>3. <<h[k - 1], k>> \in V \X (1 .. N)
    BY <2>2
  <2>. QED
    BY <2>1, <2>3
<1>. DEFINE g == [k \in 0 .. N |-> h[N - k]]
<1>6. g \in [0 .. N -> V] /\ g[N] = <<>>
  BY <1>1, <1>4
<1>7. ASSUME NEW k \in 1 .. N PROVE g[k - 1] = Joined(seqs[k], g[k])
  <2>1. N + 1 - k \in 1 .. N /\ N + 1 - (N + 1 - k) = k /\ (N + 1 - k) - 1 = N - k
        /\ N - (k - 1) = N + 1 - k /\ k \in 0 .. N /\ k - 1 \in 0 .. N
    BY <1>1
  <2>2. h[N + 1 - k] = Joined(seqs[k], h[N - k])
    BY <1>5, <2>1
  <2>3. g[k - 1] = h[N - (k - 1)] /\ g[k] = h[N - k]
    BY <2>1
  <2>. QED
    BY <2>1, <2>2, <2>3
<1>. HIDE DEF g, step
<1>8. g[0] = FlattenSeq(seqs)
  <2>1. CASE N = 0
    <3>1. FlattenSeq(seqs) = <<>>
      <4>1. Len(seqs) = 0 /\ seqs = <<>>
        BY <2>1, EmptySeq DEF N
      <4>. QED
        BY <4>1 DEF FlattenSeq
    <3>. QED
      BY <1>6, <2>1, <3>1
  <2>2. CASE N # 0
    <3>1. PICK f \in [1 .. N -> V] : /\ f[1] = seqs[1]
                                     /\ \A i \in 2 .. N : f[i] = f[i - 1] \o seqs[i]
                                     /\ FlattenSeq(seqs) = f[N]
      BY <2>2, Flattened DEF N
    <3>. DEFINE S == { k \in 0 .. N : k # 0 => Joined(f[k], g[k]) = g[0] }
    <3>2. 0 \in S
      BY <1>1
    <3>3. ASSUME NEW k \in 1 .. N, k - 1 \in S PROVE k \in S
      <4>1. CASE k = 1
        <5>1. g[1 - 1] = Joined(seqs[1], g[1])
          BY <1>7, <4>1
        <5>. QED
          BY <1>1, <3>1, <4>1, <5>1
      <4>2. CASE k # 1
        <5>1. k \in 2 .. N /\ k - 1 \in 1 .. N /\ k - 1 # 0 /\ k \in 0 .. N /\ k - 1 \in 0 .. N
          BY <1>1, <4>2
        <5>2. Joined(f[k - 1], g[k - 1]) = g[0]
          BY <3>3, <5>1
        <5>3. g[k - 1] = Joined(seqs[k], g[k])
          BY <1>7
        <5>4. f[k] = Joined(f[k - 1], seqs[k])
          BY <3>1, <5>1 DEF Joined
        <5>5. f[k - 1] \in V /\ seqs[k] \in V /\ g[k] \in V
          BY <1>1, <1>6, <3>1, <5>1
        <5>6. Joined(f[k - 1], Joined(seqs[k], g[k])) = Joined(Joined(f[k - 1], seqs[k]), g[k])
          <6>. DEFINE x == f[k - 1]
                      y == seqs[k]
                      z == g[k]
          <6>1. x \in Seq(Nat) /\ y \in Seq(Nat) /\ z \in Seq(Nat)
            BY <5>5
          <6>. HIDE DEF x, y, z
          <6>2. Joined(x, Joined(y, z)) = Joined(Joined(x, y), z)
            BY <6>1, JoinedFacts
          <6>. QED
            BY <6>2 DEF x, y, z
        <5>. QED
          BY <5>1, <5>2, <5>3, <5>4, <5>6
      <4>. QED
        BY <4>1, <4>2
    <3>4. 0 .. N \subseteq S
      <4>. HIDE DEF S
      <4>. QED
        BY <1>1, <3>2, <3>3, Induction
    <3>5. Joined(f[N], g[N]) = g[0]
      <4>1. N \in 0 .. N
        BY <1>1
      <4>2. N \in S
        BY <3>4, <4>1
      <4>. QED
        BY <2>2, <4>2
    <3>6. f[N] \in V
      BY <1>1, <2>2, <3>1
    <3>7. Joined(f[N], <<>>) = f[N]
      BY <3>6, JoinedFacts
    <3>. QED
      BY <1>6, <3>1, <3>5, <3>7
  <2>. QED
    BY <2>1, <2>2
<1>9. IsUnfolding(g, seqs)
  BY <1>6, <1>7, <1>8 DEF IsUnfolding, N
<1>. QED
  BY <1>9

\* A sequence of one character.
One(ch) == <<ch>>

\* It is told by its first character and the rest of it.
LEMMA OneFacts ==
  /\ \A ch \in Nat : One(ch) \in Seq(Nat)
  /\ \A ch \in Nat, s \in Seq(Nat) : Joined(One(ch), s) # <<>>
  /\ \A ch, o \in Nat, s, t \in Seq(Nat) : Joined(One(ch), s) = Joined(One(o), t) => ch = o /\ s = t
  /\ \A ch \in Nat, s \in Seq(Nat) : Append(s, ch) = Joined(s, One(ch))
<1>1. \A ch \in Nat : One(ch) \in Seq(Nat)
  BY DEF One
<1>2. ASSUME NEW ch \in Nat, NEW s \in Seq(Nat)
      PROVE  /\ Len(Joined(One(ch), s)) = Len(s) + 1 /\ Joined(One(ch), s)[1] = ch
             /\ \A i \in 1 .. Len(s) : Joined(One(ch), s)[i + 1] = s[i]
  BY DEF One, Joined
<1>3. ASSUME NEW ch \in Nat, NEW s \in Seq(Nat) PROVE Joined(One(ch), s) # <<>>
  BY <1>2
<1>4. ASSUME NEW ch \in Nat, NEW o \in Nat, NEW s \in Seq(Nat), NEW t \in Seq(Nat),
             Joined(One(ch), s) = Joined(One(o), t)
      PROVE  ch = o /\ s = t
  <2>1. ch = o /\ Len(s) = Len(t)
    BY <1>2, <1>4
  <2>2. \A i \in 1 .. Len(s) : s[i] = t[i]
    BY <1>2, <1>4, <2>1
  <2>. QED
    BY <2>1, <2>2, SeqEqual
<1>5. \A ch \in Nat, s \in Seq(Nat) : Append(s, ch) = Joined(s, One(ch))
  BY AppendIsConcat DEF One, Joined
<1>. QED
  BY <1>1, <1>3, <1>4, <1>5

-----------------------------------------------------------------------------
(* The letters of a word as they are fed *)

\* Typed, m being whether the input is keys.
Heard(m, ch) == IF m /\ ch \in DOMAIN KeyToJamo THEN KeyToJamo[ch] ELSE ch

\* The characters of a letter: its keys, or the letter; those of a syllable.
Code(m, l) == IF l = 0 THEN <<>> ELSE IF m THEN JamoKey[l] ELSE One(l)
CodeOf(m, d) == Joined(Code(m, d.cho), Joined(Code(m, d.jung), Code(m, d.jong)))

\* What is left of a letter of two keys when the first has been fed.
SecondKey(l) == One(JamoKey[l][2])

\* The characters of a letter are characters.
LEMMA CodeType ==
  ASSUME NEW m \in BOOLEAN, NEW l \in {0} \cup Jaeums \cup Moeums
  PROVE  Code(m, l) \in Seq(Nat)
<1>1. LetterKeys(l) \in Seq(Nat)
  BY LetterKeysType
<1>2. l \in Nat
  BY NoSyllable
<1>3. One(l) \in Seq(Nat) /\ <<>> \in Seq(Nat)
  BY <1>2, OneFacts, JoinedFacts
<1>. QED
  BY <1>1, <1>3 DEF Code, LetterKeys

\* A key types what KeyToJamo has for it, and a letter is itself.
LEMMA HeardFacts ==
  ASSUME NEW l \in Jaeums \cup Moeums
  PROVE  /\ Heard(FALSE, l) = l
         /\ Simple(l) => /\ JamoKey[l] = One(JamoKey[l][1]) /\ JamoKey[l][1] \in Nat
                         /\ Heard(TRUE, JamoKey[l][1]) = l
         /\ Compound(l) => /\ JamoKey[l] = Joined(One(JamoKey[l][1]), SecondKey(l))
                           /\ JamoKey[l][1] \in Nat /\ JamoKey[l][2] \in Nat
                           /\ SecondKey(l) \in Seq(Nat)
                           /\ Heard(TRUE, JamoKey[l][1]) = FirstPart(l)
                           /\ Heard(TRUE, JamoKey[l][2]) = SecondPart(l)
<1>1. DOMAIN KeyToJamo \subseteq Nat
  <2>1. DOMAIN KeyToJamo \subseteq 0 .. 127
    BY TablesAssumption
  <2>. QED
    BY <2>1
<1>2. JamoKey[l] \in Seq(Nat)
  <2>1. LetterKeys(l) \in Seq(Nat)
    BY LetterKeysType
  <2>. QED
    BY <2>1, KeysOfJamo
<1>3. ASSUME NEW s \in Seq(Nat)
      PROVE  /\ Len(s) = 1 => s = One(s[1])
             /\ Len(s) = 2 => s = Joined(One(s[1]), One(s[2]))
  BY <1>3 DEF One, Joined
<1>4. ASSUME Simple(l)
      PROVE  /\ JamoKey[l] = One(JamoKey[l][1]) /\ JamoKey[l][1] \in Nat
             /\ Heard(TRUE, JamoKey[l][1]) = l
  <2>1. JamoKey[l][1] \in DOMAIN KeyToJamo /\ KeyToJamo[JamoKey[l][1]] = l
    BY <1>4, SimpleKey
  <2>2. JamoKey[l] = One(JamoKey[l][1])
    BY <1>2, <1>3, <1>4 DEF Simple
  <2>. QED
    BY <1>1, <2>1, <2>2 DEF Heard
<1>5. ASSUME Compound(l)
      PROVE  /\ JamoKey[l] = Joined(One(JamoKey[l][1]), SecondKey(l))
             /\ JamoKey[l][1] \in Nat /\ JamoKey[l][2] \in Nat
             /\ SecondKey(l) \in Seq(Nat)
             /\ Heard(TRUE, JamoKey[l][1]) = FirstPart(l)
             /\ Heard(TRUE, JamoKey[l][2]) = SecondPart(l)
  <2>1. JamoKey[l][1] \in DOMAIN KeyToJamo /\ JamoKey[l][2] \in DOMAIN KeyToJamo
    BY <1>5, TwoKeys
  <2>2. JamoKey[l] = Joined(One(JamoKey[l][1]), SecondKey(l))
    BY <1>2, <1>3, <1>5 DEF Compound, SecondKey
  <2>3. JamoKey[l][2] \in Nat
    BY <1>1, <2>1
  <2>4. SecondKey(l) \in Seq(Nat)
    BY <2>3, OneFacts DEF SecondKey
  <2>. QED
    BY <1>1, <2>1, <2>2, <2>4 DEF Heard, FirstPart, SecondPart
<1>6. Heard(FALSE, l) = l
  BY DEF Heard
<1>. QED
  BY <1>4, <1>5, <1>6

\* What may be heard when the letter l comes and then more, and what is left.
FirstHeard(m, l, x, t, more) ==
  \/ x = l /\ t = more
  \/ m = TRUE /\ Compound(l) /\ x = FirstPart(l) /\ t = Joined(SecondKey(l), more)

\* Where a letter comes first, it is heard, or its first part.
LEMMA LetterFirst ==
  ASSUME NEW m \in BOOLEAN, NEW l \in Jaeums \cup Moeums, NEW more \in Seq(Nat),
         NEW ch \in Nat, NEW t \in Seq(Nat),
         Joined(Code(m, l), more) = Joined(One(ch), t)
  PROVE  FirstHeard(m, l, Heard(m, ch), t, more)
<1>1. l # 0 /\ l \in Nat
  BY NoSyllable
<1>2. \A x \in Nat, s \in Seq(Nat) : Joined(One(x), s) = Joined(One(ch), t) => x = ch /\ s = t
  BY OneFacts
<1>3. CASE m = FALSE
  <2>1. Code(m, l) = One(l)
    BY <1>1, <1>3 DEF Code
  <2>2. Joined(One(l), more) = Joined(One(ch), t)
    BY <2>1
  <2>3. l = ch /\ more = t
    BY <1>1, <1>2, <2>2
  <2>. QED
    BY <1>3, <2>3, HeardFacts DEF FirstHeard
<1>4. CASE m = TRUE /\ Simple(l)
  <2>. DEFINE x == JamoKey[l][1]
  <2>1. JamoKey[l] = One(x) /\ x \in Nat /\ Heard(TRUE, x) = l
    BY <1>4, HeardFacts
  <2>2. Code(m, l) = One(x)
    BY <1>1, <1>4, <2>1 DEF Code
  <2>. HIDE DEF x
  <2>3. Joined(One(x), more) = Joined(One(ch), t)
    BY <2>2
  <2>4. x = ch /\ more = t
    BY <1>2, <2>1, <2>3
  <2>. QED
    BY <1>4, <2>1, <2>4 DEF FirstHeard
<1>5. CASE m = TRUE /\ Compound(l)
  <2>. DEFINE x == JamoKey[l][1]
              y == SecondKey(l)
  <2>1. /\ JamoKey[l] = Joined(One(x), y) /\ x \in Nat /\ y \in Seq(Nat)
        /\ Heard(TRUE, x) = FirstPart(l)
    BY <1>5, HeardFacts
  <2>2. Code(m, l) = Joined(One(x), y)
    BY <1>1, <1>5, <2>1 DEF Code
  <2>. HIDE DEF x, y
  <2>3. Joined(Joined(One(x), y), more) = Joined(One(ch), t)
    BY <2>2
  <2>4. /\ Joined(Joined(One(x), y), more) = Joined(One(x), Joined(y, more))
        /\ Joined(y, more) \in Seq(Nat)
    <3>1. One(x) \in Seq(Nat)
      BY <2>1, OneFacts
    <3>. DEFINE o == One(x)
    <3>. HIDE DEF o
    <3>2. o \in Seq(Nat)
      BY <3>1 DEF o
    <3>3. Joined(o, Joined(y, more)) = Joined(Joined(o, y), more) /\ Joined(y, more) \in Seq(Nat)
      BY <2>1, <3>2, JoinedFacts
    <3>. QED
      BY <3>3 DEF o
  <2>5. Joined(One(x), Joined(y, more)) = Joined(One(ch), t)
    BY <2>3, <2>4
  <2>6. x = ch /\ t = Joined(y, more)
    BY <1>2, <2>1, <2>4, <2>5
  <2>. QED
    BY <1>5, <2>1, <2>6 DEF y, FirstHeard
<1>. QED
  BY <1>3, <1>4, <1>5, TwoKeys

\* The two parts of a compound letter merge to it.
LEMMA PartsMerge ==
  ASSUME NEW l \in Jaeums \cup Moeums, Compound(l)
  PROVE  /\ Merge(FirstPart(l), SecondPart(l)) = l /\ l # 0
         /\ Simple(FirstPart(l)) /\ Simple(SecondPart(l))
         /\ l \in Jaeums => FirstPart(l) \in Finals /\ SecondPart(l) \in Consonants
         /\ l \in Moeums => FirstPart(l) \in Moeums /\ SecondPart(l) \in Moeums
<1>. DEFINE x == JamoKey[l][1]
            y == JamoKey[l][2]
<1>1. x \in DOMAIN KeyToJamo /\ y \in DOMAIN KeyToJamo /\ ~Simple(l)
  BY TwoKeys
<1>2. JamoKey[l] = <<x, y>>
  <2>1. JamoKey[l] \in Seq(DOMAIN KeyToJamo) /\ Len(JamoKey[l]) = 2
    BY TablesAssumption DEF KeyTables, Compound
  <2>2. \A S : \A s \in Seq(S) : Len(s) = 2 => s = <<s[1], s[2]>>
    OBVIOUS
  <2>. QED
    BY <2>1, <2>2
<1>3. JamoKey[l] \in DOMAIN KeyPairToJamo /\ KeyPairToJamo[JamoKey[l]] = l
  BY <1>1, TablesAssumption DEF KeyTables
<1>4. JamoKey[KeyToJamo[x]] = <<x>> /\ JamoKey[KeyToJamo[y]] = <<y>>
  BY <1>1, TablesAssumption, SMTT(30) DEF KeyTables
<1>5. FirstPart(l) = KeyToJamo[x] /\ SecondPart(l) = KeyToJamo[y]
  BY DEF FirstPart, SecondPart
<1>6. Simple(FirstPart(l)) /\ Simple(SecondPart(l))
  BY <1>1, <1>5, KeyTypes
<1>7. JamoKey[FirstPart(l)][1] = x /\ JamoKey[SecondPart(l)][1] = y
  BY <1>4, <1>5
<1>. HIDE DEF x, y
<1>8. Merge(FirstPart(l), SecondPart(l)) = l
  BY <1>2, <1>3, <1>6, <1>7 DEF Merge
<1>9. ASSUME l \in Jaeums
      PROVE  FirstPart(l) \in Finals /\ SecondPart(l) \in Consonants
  <2>1. Contains(Jongseong, l)
    BY <1>1, <1>9, TablesAssumption DEF PartTables
  <2>. QED
    BY <1>9, <2>1, PartsOfFinal DEF Finals
<1>10. ASSUME l \in Moeums
       PROVE  FirstPart(l) \in Moeums /\ SecondPart(l) \in Moeums
  BY <1>10, TablesAssumption, SMTT(30) DEF PartTables, FirstPart, SecondPart, IsMoeum
<1>. QED
  BY <1>6, <1>8, <1>9, <1>10, NoSyllable

\* And what two letters merge to has them as its parts.
LEMMA MergeParts ==
  ASSUME NEW a \in Jaeums \cup Moeums, NEW b \in Jaeums \cup Moeums, Merge(a, b) # 0
  PROVE  FirstPart(Merge(a, b)) = a /\ SecondPart(Merge(a, b)) = b /\ Compound(Merge(a, b))
<1>. DEFINE p == <<JamoKey[a][1], JamoKey[b][1]>>
<1>1. Simple(a) /\ Simple(b) /\ p \in DOMAIN KeyPairToJamo /\ Merge(a, b) = KeyPairToJamo[p]
  BY DEF Merge
<1>2. JamoKey[Merge(a, b)] = p
  BY <1>1, TablesAssumption DEF KeyTables
<1>3. /\ JamoKey[Merge(a, b)][1] = JamoKey[a][1] /\ JamoKey[Merge(a, b)][2] = JamoKey[b][1]
      /\ Len(JamoKey[Merge(a, b)]) = 2
  BY <1>2
<1>. QED
  BY <1>1, <1>3, SimpleKey DEF FirstPart, SecondPart, Compound

-----------------------------------------------------------------------------
(* The letters of a syllable *)

Syllabic(d) == d \in [cho : Consonants, jung : Moeums, jong : {0} \cup Finals]

\* A letter is found where it is in a table that has it once.
LEMMA OnlyPlace ==
  ASSUME NEW S, NEW t \in Seq(S), IsInjective(t), NEW i \in 1 .. Len(t)
  PROVE  Contains(t, t[i]) /\ IndexIn(t, t[i]) = i - 1
<1>1. Contains(t, t[i])
  BY DEF Contains
<1>2. DOMAIN t = 1 .. Len(t)
  OBVIOUS
<1>. DEFINE j == CHOOSE h \in 1 .. Len(t) : t[h] = t[i]
<1>3. j \in 1 .. Len(t) /\ t[j] = t[i]
  OBVIOUS
<1>4. IndexIn(t, t[i]) = j - 1
  BY DEF IndexIn
<1>. HIDE DEF j
<1>5. j = i
  BY <1>2, <1>3 DEF IsInjective
<1>. QED
  BY <1>1, <1>4, <1>5

\* A number is 588, 28 and 1 times the places of its letters.
LEMMA PlacesSum ==
  ASSUME NEW k \in Nat
  PROVE  (ChoAt(k) - 1) * 588 + (JungAt(k) - 1) * 28 + (JongAt(k) - 1) = k
<1>1. ASSUME NEW q \in Int, NEW r \in Int, q = k \div 588, r = k % 588
      PROVE  r = k - 588 * q /\ r \in Nat
  BY <1>1
<1>2. ASSUME NEW r \in Nat, NEW q \in Int, NEW j \in Int, q = r \div 28, j = r % 28
      PROVE  j = r - 28 * q
  BY <1>2
<1>3. (k % 588) % 28 = k % 28
  OBVIOUS
<1>. DEFINE q == k \div 588
            r == k % 588
            b == r \div 28
            j == k % 28
<1>4. q \in Int /\ r \in Int /\ b \in Int /\ j \in Int
  OBVIOUS
<1>5. r = k - 588 * q /\ r \in Nat
  BY <1>1, <1>4
<1>6. j = r % 28
  BY <1>3
<1>7. ChoAt(k) - 1 = q /\ JungAt(k) - 1 = b /\ JongAt(k) - 1 = j
  BY <1>4 DEF ChoAt, JungAt, JongAt
<1>8. j = r - 28 * b
  <2>. HIDE DEF q, r, j
  <2>. QED
    BY <1>2, <1>4, <1>5, <1>6
<1>. HIDE DEF q, r, b, j
<1>. QED
  BY <1>4, <1>5, <1>7, <1>8

\* A syllable is what its letters compose to.
LEMMA SyllableLetters ==
  ASSUME NEW cp, IsSyllable(cp)
  PROVE  Syllabic(Decompose(cp)) /\ Compose(Decompose(cp)) = cp
<1>. DEFINE k == cp - 44032
            d == Decompose(cp)
<1>1. cp \in Int /\ k \in Nat /\ k <= 11171
  BY SyllableRange
<1>2. d = [cho |-> Choseong[ChoAt(k)], jung |-> Jungseong[JungAt(k)], jong |-> Jongseong[JongAt(k)]]
  BY DEF Decompose, ChoAt, JungAt, JongAt
<1>. HIDE DEF d
<1>3. cp = 44032 + k
  BY <1>1
<1>. HIDE DEF k
<1>4. ChoAt(k) \in 1 .. 19 /\ JungAt(k) \in 1 .. 21 /\ JongAt(k) \in 1 .. 28
  BY <1>1, Places
<1>5. /\ Choseong \in Seq(Jaeums) /\ Len(Choseong) = 19 /\ IsInjective(Choseong)
      /\ Jungseong \in Seq(Moeums) /\ Len(Jungseong) = 21 /\ IsInjective(Jungseong)
      /\ Jongseong \in Seq({0} \cup Jaeums) /\ Len(Jongseong) = 28 /\ IsInjective(Jongseong)
  BY TablesAssumption DEF LetterTables
<1>6. /\ Contains(Choseong, d.cho) /\ IndexIn(Choseong, d.cho) = ChoAt(k) - 1
      /\ Contains(Jungseong, d.jung) /\ IndexIn(Jungseong, d.jung) = JungAt(k) - 1
      /\ Contains(Jongseong, d.jong) /\ IndexIn(Jongseong, d.jong) = JongAt(k) - 1
  <2>1. Contains(Choseong, d.cho) /\ IndexIn(Choseong, d.cho) = ChoAt(k) - 1
    BY <1>2, <1>4, <1>5, OnlyPlace
  <2>2. Contains(Jungseong, d.jung) /\ IndexIn(Jungseong, d.jung) = JungAt(k) - 1
    BY <1>2, <1>4, <1>5, OnlyPlace
  <2>3. Contains(Jongseong, d.jong) /\ IndexIn(Jongseong, d.jong) = JongAt(k) - 1
    BY <1>2, <1>4, <1>5, OnlyPlace
  <2>. QED
    BY <2>1, <2>2, <2>3
<1>7. Simple(d.cho)
  BY <1>2, <1>4, TablesAssumption DEF PartTables
<1>8. d.cho \in Jaeums /\ d.jung \in Moeums /\ d.jong \in {0} \cup Jaeums
  BY <1>2, <1>4, TableLetters
<1>9. Syllabic(d)
  BY <1>2, <1>6, <1>7, <1>8 DEF Syllabic, Consonants, Finals
<1>10. d.cho # 0 /\ d.jung # 0
  BY <1>8, NoSyllable
<1>11. Compose(d) = 44032 + (ChoAt(k) - 1) * 588 + (JungAt(k) - 1) * 28 + (JongAt(k) - 1)
  BY <1>6, <1>10 DEF Compose
<1>12. (ChoAt(k) - 1) * 588 + (JungAt(k) - 1) * 28 + (JongAt(k) - 1) = k
  BY <1>1, PlacesSum
<1>13. Compose(d) = cp
  <2>1. ASSUME NEW x \in Int, NEW y \in Int, NEW z \in Int, x + y + z = k PROVE 44032 + x + y + z = cp
    BY <1>1, <1>3, <2>1
  <2>2. /\ (ChoAt(k) - 1) * 588 \in Int /\ (JungAt(k) - 1) * 28 \in Int /\ JongAt(k) - 1 \in Int
    BY <1>4
  <2>. QED
    BY <1>11, <1>12, <2>1, <2>2
<1>. QED
  BY <1>9, <1>13 DEF d
-----------------------------------------------------------------------------
(* What the automaton makes of the letters of a word *)

Letter(a, v, f) == [cho |-> a, jung |-> v, jong |-> f]

\* A letter, where it comes in a syllable.
LEMMA JaeumMoves ==
  ASSUME NEW a \in Consonants, NEW v \in Moeums, NEW f, NEW cp \in Consonants
  PROVE  /\ Jaeum(None, cp) = Keep(Letter(cp, 0, 0))
         /\ Contains(Jongseong, cp) => Jaeum(Letter(a, v, 0), cp) = Keep(Letter(a, v, cp))
         /\ ~Contains(Jongseong, cp) =>
              Jaeum(Letter(a, v, 0), cp) = Push(Letter(a, v, 0), Letter(cp, 0, 0))
         /\ f # 0 /\ Simple(f) /\ Merge(f, cp) # 0 =>
              Jaeum(Letter(a, v, f), cp) = Keep(Letter(a, v, Merge(f, cp)))
         /\ f # 0 /\ ~(Simple(f) /\ Merge(f, cp) # 0) =>
              Jaeum(Letter(a, v, f), cp) = Push(Letter(a, v, f), Letter(cp, 0, 0))
<1>1. a # 0 /\ v # 0
  BY NoSyllable DEF Consonants
<1>2. Lead(cp) = Letter(cp, 0, 0) /\ None.cho = 0
  BY DEF Lead, None, Letter
<1>3. ASSUME NEW g
      PROVE  /\ Letter(a, v, g).cho = a /\ Letter(a, v, g).jung = v /\ Letter(a, v, g).jong = g
             /\ \A h : [Letter(a, v, g) EXCEPT !.jong = h] = Letter(a, v, h)
  BY DEF Letter
<1>4. Jaeum(None, cp) = Keep(Letter(cp, 0, 0))
  BY <1>2 DEF Jaeum
<1>5. /\ Contains(Jongseong, cp) => Jaeum(Letter(a, v, 0), cp) = Keep(Letter(a, v, cp))
      /\ ~Contains(Jongseong, cp) =>
           Jaeum(Letter(a, v, 0), cp) = Push(Letter(a, v, 0), Letter(cp, 0, 0))
  BY <1>1, <1>2, <1>3 DEF Jaeum
<1>6. ASSUME f # 0
      PROVE  /\ Simple(f) /\ Merge(f, cp) # 0 =>
                  Jaeum(Letter(a, v, f), cp) = Keep(Letter(a, v, Merge(f, cp)))
             /\ ~(Simple(f) /\ Merge(f, cp) # 0) =>
                  Jaeum(Letter(a, v, f), cp) = Push(Letter(a, v, f), Letter(cp, 0, 0))
  BY <1>1, <1>2, <1>3, <1>6 DEF Jaeum
<1>. QED
  BY <1>4, <1>5, <1>6

LEMMA FinalMoves ==
  ASSUME NEW a \in Consonants, NEW v \in Moeums, NEW cp \in Finals
  PROVE  Jaeum(Letter(a, v, 0), cp) = Keep(Letter(a, v, cp))
<1>1. a # 0 /\ v # 0 /\ Contains(Jongseong, cp)
  BY NoSyllable DEF Consonants, Finals
<1>2. /\ Letter(a, v, 0).cho = a /\ Letter(a, v, 0).jung = v /\ Letter(a, v, 0).jong = 0
      /\ [Letter(a, v, 0) EXCEPT !.jong = cp] = Letter(a, v, cp)
  BY DEF Letter
<1>. QED
  BY <1>1, <1>2 DEF Jaeum

LEMMA MoeumMoves ==
  ASSUME NEW a \in Consonants, NEW v \in Moeums, NEW f \in Finals, NEW cp \in Moeums
  PROVE  /\ Moeum(Letter(a, 0, 0), cp) = Keep(Letter(a, cp, 0))
         /\ Merge(v, cp) # 0 => Moeum(Letter(a, v, 0), cp) = Keep(Letter(a, Merge(v, cp), 0))
         /\ Compound(f) => Moeum(Letter(a, v, f), cp)
                             = Push(Letter(a, v, FirstPart(f)), Letter(SecondPart(f), cp, 0))
         /\ ~Compound(f) => Moeum(Letter(a, v, f), cp) = Push(Letter(a, v, 0), Letter(f, cp, 0))
<1>1. v # 0 /\ f # 0
  BY NoSyllable DEF Finals
<1>2. ASSUME NEW l PROVE [Lead(l) EXCEPT !.jung = cp] = Letter(l, cp, 0)
  <2>1. Lead(l) = Letter(l, 0, 0)
    BY DEF Lead, None, Letter
  <2>. QED
    BY <2>1 DEF Letter
<1>3. ASSUME NEW u, NEW g
      PROVE  /\ Letter(a, u, g).jung = u /\ Letter(a, u, g).jong = g
             /\ \A h : [Letter(a, u, g) EXCEPT !.jong = h] = Letter(a, u, h)
             /\ \A h : [Letter(a, u, g) EXCEPT !.jung = h] = Letter(a, h, g)
  BY DEF Letter
<1>4. Moeum(Letter(a, 0, 0), cp) = Keep(Letter(a, cp, 0))
  BY <1>3 DEF Moeum
<1>5. Merge(v, cp) # 0 => Moeum(Letter(a, v, 0), cp) = Keep(Letter(a, Merge(v, cp), 0))
  BY <1>1, <1>3 DEF Moeum
<1>6. Compound(f) => Moeum(Letter(a, v, f), cp)
                       = Push(Letter(a, v, FirstPart(f)), Letter(SecondPart(f), cp, 0))
  BY <1>1, <1>2, <1>3 DEF Moeum
<1>7. ~Compound(f) => Moeum(Letter(a, v, f), cp) = Push(Letter(a, v, 0), Letter(f, cp, 0))
  BY <1>1, <1>2, <1>3 DEF Moeum
<1>. QED
  BY <1>4, <1>5, <1>6, <1>7

\* What a jamo makes of a component: what is pushed, None or a syllable, and
\* what is left.
Moved(c, cp) == IF IsJaeum(cp) THEN Jaeum(c, cp) ELSE Moeum(c, cp)
Keeps(c, cp, e) == IsJamo(cp) /\ Moved(c, cp) = Keep(e)
Pushes(c, cp, d, e) == IsJamo(cp) /\ Moved(c, cp) = Push(d, e)

\* Where the letters of a syllable d have come to: the component is c, rest
\* is to be fed, and after comes after the syllable.
Within(m, d, c, rest, after) ==
  \/ /\ c = Letter(d.cho, 0, 0)
     /\ rest = Joined(Code(m, d.jung), Joined(Code(m, d.jong), after))
  \/ /\ m = TRUE /\ Compound(d.jung) /\ c = Letter(d.cho, FirstPart(d.jung), 0)
     /\ rest = Joined(SecondKey(d.jung), Joined(Code(m, d.jong), after))
  \/ c = Letter(d.cho, d.jung, 0) /\ rest = Joined(Code(m, d.jong), after)
  \/ /\ m = TRUE /\ d.jong # 0 /\ Compound(d.jong)
     /\ c = Letter(d.cho, d.jung, FirstPart(d.jong))
     /\ rest = Joined(SecondKey(d.jong), after)
  \/ c = Letter(d.cho, d.jung, d.jong) /\ rest = after

\* The consonant that begins the syllable e is taken for one that ends d.
Borrowed(m, d, e, c, rest, after) ==
  /\ \/ d.jong = 0 /\ e.cho \in Finals /\ c = Letter(d.cho, d.jung, e.cho)
     \/ /\ d.jong # 0 /\ Merge(d.jong, e.cho) # 0
        /\ c = Letter(d.cho, d.jung, Merge(d.jong, e.cho))
  /\ rest = Joined(Code(m, e.jung), Joined(Code(m, e.jong), after))

\* The vowel of a syllable, or its first part.
LEMMA VowelFed ==
  ASSUME NEW m \in BOOLEAN, NEW d, Syllabic(d), NEW after \in Seq(Nat),
         NEW ch \in Nat, NEW t \in Seq(Nat),
         Joined(Code(m, d.jung), Joined(Code(m, d.jong), after)) = Joined(One(ch), t)
  PROVE  Heard(m, ch) \in Moeums /\ Within(m, d, Letter(d.cho, Heard(m, ch), 0), t, after)
<1>1. d.jung \in Moeums /\ d.jong \in {0} \cup Jaeums
  BY DEF Syllabic, Finals
<1>. DEFINE more == Joined(Code(m, d.jong), after)
<1>2. more \in Seq(Nat)
  BY <1>1, CodeType, JoinedFacts
<1>. HIDE DEF more
<1>3. Joined(Code(m, d.jung), more) = Joined(One(ch), t)
  BY DEF more
<1>4. FirstHeard(m, d.jung, Heard(m, ch), t, more)
  <2>. DEFINE l == d.jung
  <2>. HIDE DEF l
  <2>1. l \in Jaeums \cup Moeums /\ Joined(Code(m, l), more) = Joined(One(ch), t)
    BY <1>1, <1>3 DEF l
  <2>2. FirstHeard(m, l, Heard(m, ch), t, more)
    BY <1>2, <2>1, LetterFirst
  <2>. QED
    BY <2>2 DEF l
<1>5. Compound(d.jung) => FirstPart(d.jung) \in Moeums
  BY <1>1, PartsMerge
<1>. QED
  BY <1>1, <1>4, <1>5 DEF Within, more, FirstHeard

\* The second key of a letter.
LEMMA SecondFed ==
  ASSUME NEW l \in Jaeums \cup Moeums, Compound(l), NEW more \in Seq(Nat),
         NEW ch \in Nat, NEW t \in Seq(Nat), Joined(SecondKey(l), more) = Joined(One(ch), t)
  PROVE  Heard(TRUE, ch) = SecondPart(l) /\ t = more
<1>1. JamoKey[l][2] \in Nat /\ Heard(TRUE, JamoKey[l][2]) = SecondPart(l)
  BY HeardFacts
<1>2. Joined(One(JamoKey[l][2]), more) = Joined(One(ch), t)
  BY DEF SecondKey
<1>3. JamoKey[l][2] = ch /\ more = t
  BY <1>1, <1>2, OneFacts
<1>. QED
  BY <1>1, <1>3

\* A consonant is no vowel.
LEMMA Kinds ==
  /\ \A cp \in Jaeums : IsJaeum(cp) /\ IsJamo(cp)
  /\ \A cp \in Moeums : ~IsJaeum(cp) /\ IsJamo(cp)
  BY JamoFacts DEF IsJaeum, IsMoeum, IsJamo

\* A syllable that has begun and is not read to its end goes on.
LEMMA WithinGoesOn ==
  ASSUME NEW m \in BOOLEAN, NEW d, Syllabic(d), NEW after \in Seq(Nat), NEW c,
         NEW ch \in Nat, NEW t \in Seq(Nat), Within(m, d, c, Joined(One(ch), t), after)
  PROVE  \/ \E e : Keeps(c, Heard(m, ch), e) /\ Within(m, d, e, t, after)
         \/ c = d /\ after = Joined(One(ch), t)
<1>1. /\ d.cho \in Consonants /\ d.jung \in Moeums /\ d.jong \in {0} \cup Finals
      /\ d = Letter(d.cho, d.jung, d.jong)
  BY DEF Syllabic, Letter
<1>2. d.jong \in {0} \cup Jaeums /\ d.jung # 0 /\ d.cho # 0
  BY <1>1, NoSyllable DEF Finals, Consonants
<1>. DEFINE cp == Heard(m, ch)
            more == Joined(Code(m, d.jong), after)
            rest == Joined(One(ch), t)
<1>3. more \in Seq(Nat)
  BY <1>2, CodeType, JoinedFacts
<1>4. CASE c = Letter(d.cho, 0, 0) /\ rest = Joined(Code(m, d.jung), more)
  <2>1. cp \in Moeums /\ Within(m, d, Letter(d.cho, cp, 0), t, after)
    BY <1>4, VowelFed
  <2>2. Keeps(c, cp, Letter(d.cho, cp, 0))
    <3>1. Moeum(Letter(d.cho, 0, 0), cp) = Keep(Letter(d.cho, cp, 0))
      <4>1. \A a \in Consonants, x \in Moeums : Moeum(Letter(a, 0, 0), x) = Keep(Letter(a, x, 0))
        BY DEF Moeum, Letter, Keep
      <4>. QED
        BY <1>1, <2>1, <4>1
    <3>. QED
      BY <1>4, <2>1, <3>1, Kinds DEF Keeps, Moved
  <2>. QED
    BY <2>1, <2>2
<1>5. CASE /\ m = TRUE /\ Compound(d.jung) /\ c = Letter(d.cho, FirstPart(d.jung), 0)
           /\ rest = Joined(SecondKey(d.jung), more)
  <2>1. cp = SecondPart(d.jung) /\ t = more
    <3>. DEFINE l == d.jung
    <3>. HIDE DEF l, more
    <3>1. l \in Jaeums \cup Moeums
      BY <1>1 DEF l
    <3>2. Compound(l)
      BY <1>5 DEF l
    <3>3. m = TRUE
      BY <1>5
    <3>4. Joined(SecondKey(l), more) = Joined(One(ch), t)
      BY <1>5 DEF l
    <3>5. Heard(TRUE, ch) = SecondPart(l) /\ t = more
      BY <1>3, <3>1, <3>2, <3>4, SecondFed
    <3>6. cp = Heard(TRUE, ch)
      BY <3>3
    <3>. QED
      BY <3>5, <3>6 DEF l
  <2>2. /\ Merge(FirstPart(d.jung), cp) = d.jung
        /\ FirstPart(d.jung) \in Moeums /\ cp \in Moeums
    BY <1>1, <1>5, <2>1, PartsMerge
  <2>3. Keeps(c, cp, Letter(d.cho, d.jung, 0))
    <3>1. FirstPart(d.jung) # 0
      BY <2>2, NoSyllable
    <3>2. ASSUME NEW a, NEW v, NEW w, NEW x, v # 0, w # 0, Merge(v, x) = w
          PROVE  Moeum(Letter(a, v, 0), x) = Keep(Letter(a, w, 0))
      <4>1. /\ Letter(a, v, 0).jung = v /\ Letter(a, v, 0).jong = 0
            /\ [Letter(a, v, 0) EXCEPT !.jung = w] = Letter(a, w, 0)
        BY DEF Letter
      <4>. QED
        BY <3>2, <4>1 DEF Moeum
    <3>3. Moeum(Letter(d.cho, FirstPart(d.jung), 0), cp) = Keep(Letter(d.cho, d.jung, 0))
      BY <1>2, <2>2, <3>1, <3>2
    <3>. QED
      BY <1>5, <2>2, <3>3, Kinds DEF Keeps, Moved
  <2>. QED
    BY <2>1, <2>3 DEF Within
<1>6. CASE c = Letter(d.cho, d.jung, 0) /\ rest = more
  <2>1. CASE d.jong = 0
    <3>1. more = after
      BY <2>1, JoinedFacts DEF Code
    <3>. QED
      BY <1>1, <1>6, <2>1, <3>1
  <2>2. CASE d.jong # 0
    <3>1. d.jong \in Jaeums /\ d.jong \in Finals
      BY <1>1, <1>2, <2>2
    <3>2. Joined(Code(m, d.jong), after) = Joined(One(ch), t)
      BY <1>6
    <3>3. \/ cp = d.jong /\ t = after
          \/ /\ m = TRUE /\ Compound(d.jong)
             /\ cp = FirstPart(d.jong) /\ t = Joined(SecondKey(d.jong), after)
      <4>. DEFINE l == d.jong
      <4>. HIDE DEF l
      <4>1. l \in Jaeums \cup Moeums /\ Joined(Code(m, l), after) = Joined(One(ch), t)
        BY <3>1, <3>2 DEF l
      <4>2. FirstHeard(m, l, Heard(m, ch), t, after)
        BY <4>1, LetterFirst
      <4>. QED
        BY <4>2 DEF l, FirstHeard
    <3>4. cp \in Finals
      BY <3>1, <3>3, PartsMerge
    <3>5. Within(m, d, Letter(d.cho, d.jung, cp), t, after)
      BY <2>2, <3>3 DEF Within
    <3>6. Keeps(c, cp, Letter(d.cho, d.jung, cp))
      <4>1. Jaeum(Letter(d.cho, d.jung, 0), cp) = Keep(Letter(d.cho, d.jung, cp))
        BY <1>1, <3>4, FinalMoves
      <4>. QED
        BY <1>6, <3>4, <4>1, Kinds DEF Keeps, Moved, Finals
    <3>. QED
      BY <3>5, <3>6
  <2>. QED
    BY <2>1, <2>2
<1>7. CASE /\ m = TRUE /\ d.jong # 0 /\ Compound(d.jong)
           /\ c = Letter(d.cho, d.jung, FirstPart(d.jong))
           /\ rest = Joined(SecondKey(d.jong), after)
  <2>1. d.jong \in Jaeums
    BY <1>2, <1>7
  <2>2. cp = SecondPart(d.jong) /\ t = after
    <3>1. Heard(TRUE, ch) = SecondPart(d.jong) /\ t = after
      BY <1>7, <2>1, SecondFed
    <3>2. cp = Heard(TRUE, ch)
      BY <1>7
    <3>. QED
      BY <3>1, <3>2
  <2>3. /\ Merge(FirstPart(d.jong), cp) = d.jong /\ Simple(FirstPart(d.jong))
        /\ FirstPart(d.jong) \in Finals /\ cp \in Consonants
    BY <1>7, <2>1, <2>2, PartsMerge
  <2>4. FirstPart(d.jong) # 0
    BY <2>3, NoSyllable DEF Finals
  <2>5. Jaeum(Letter(d.cho, d.jung, FirstPart(d.jong)), cp) = Keep(Letter(d.cho, d.jung, d.jong))
    <3>. DEFINE f == FirstPart(d.jong)
                x == cp
    <3>. HIDE DEF f, x
    <3>1. f # 0 /\ Simple(f) /\ Merge(f, x) # 0 /\ Merge(f, x) = d.jong /\ x \in Consonants
      BY <1>7, <2>3, <2>4 DEF f, x
    <3>2. Jaeum(Letter(d.cho, d.jung, f), x) = Keep(Letter(d.cho, d.jung, Merge(f, x)))
      BY <1>1, <3>1, JaeumMoves
    <3>. QED
      BY <3>1, <3>2 DEF f, x
  <2>6. Keeps(c, cp, Letter(d.cho, d.jung, d.jong))
    BY <1>7, <2>3, <2>5, Kinds DEF Keeps, Moved, Consonants
  <2>. QED
    BY <2>2, <2>6 DEF Within
<1>8. CASE c = Letter(d.cho, d.jung, d.jong) /\ rest = after
  BY <1>1, <1>8
<1>9. \/ c = Letter(d.cho, 0, 0) /\ rest = Joined(Code(m, d.jung), more)
      \/ /\ m = TRUE /\ Compound(d.jung) /\ c = Letter(d.cho, FirstPart(d.jung), 0)
         /\ rest = Joined(SecondKey(d.jung), more)
      \/ c = Letter(d.cho, d.jung, 0) /\ rest = more
      \/ /\ m = TRUE /\ d.jong # 0 /\ Compound(d.jong)
         /\ c = Letter(d.cho, d.jung, FirstPart(d.jong))
         /\ rest = Joined(SecondKey(d.jong), after)
      \/ c = Letter(d.cho, d.jung, d.jong) /\ rest = after
  BY DEF Within
<1>. QED
  BY <1>4, <1>5, <1>6, <1>7, <1>8, <1>9

\* After a syllable the next begins: its first consonant is taken for the end
\* of this one, or this one is pushed.
LEMMA NextBegins ==
  ASSUME NEW m \in BOOLEAN, NEW d, Syllabic(d), NEW e, Syllabic(e), NEW after \in Seq(Nat),
         NEW ch \in Nat, NEW t \in Seq(Nat), Joined(CodeOf(m, e), after) = Joined(One(ch), t)
  PROVE  /\ \/ \E c : Keeps(d, Heard(m, ch), c) /\ Borrowed(m, d, e, c, t, after)
            \/ Pushes(d, Heard(m, ch), d, Letter(e.cho, 0, 0))
         /\ Keeps(None, Heard(m, ch), Letter(e.cho, 0, 0))
         /\ t = Joined(Code(m, e.jung), Joined(Code(m, e.jong), after))
<1>1. /\ d.cho \in Consonants /\ d.jung \in Moeums /\ d.jong \in {0} \cup Finals
      /\ d = Letter(d.cho, d.jung, d.jong)
      /\ e.cho \in Consonants /\ e.jung \in Moeums /\ e.jong \in {0} \cup Finals
  BY DEF Syllabic, Letter
<1>2. e.cho \in Jaeums /\ e.jong \in {0} \cup Jaeums /\ Simple(e.cho) /\ ~Compound(e.cho)
  BY <1>1, TwoKeys DEF Finals, Consonants
<1>. DEFINE cp == Heard(m, ch)
            x == Code(m, e.cho)
            y == Code(m, e.jung)
            z == Code(m, e.jong)
            more == Joined(y, Joined(z, after))
<1>3. x \in Seq(Nat) /\ y \in Seq(Nat) /\ z \in Seq(Nat)
  BY <1>1, <1>2, CodeType
<1>4. /\ Joined(z, after) \in Seq(Nat) /\ more \in Seq(Nat)
      /\ Joined(Joined(x, Joined(y, z)), after) = Joined(x, more)
  <2>. HIDE DEF x, y, z
  <2>1. Joined(z, after) \in Seq(Nat) /\ Joined(y, z) \in Seq(Nat)
    BY <1>3, JoinedFacts
  <2>2. Joined(x, Joined(Joined(y, z), after)) = Joined(Joined(x, Joined(y, z)), after)
    BY <1>3, <2>1, JoinedFacts
  <2>3. Joined(y, Joined(z, after)) = Joined(Joined(y, z), after)
    BY <1>3, JoinedFacts
  <2>. QED
    BY <1>3, <2>1, <2>2, <2>3, JoinedFacts
<1>5. Joined(Code(m, e.cho), more) = Joined(One(ch), t)
  BY <1>4 DEF CodeOf
<1>6. cp = e.cho /\ t = more
  <2>. DEFINE l == e.cho
  <2>. HIDE DEF more, x, y, z, l
  <2>1. l \in Jaeums \cup Moeums /\ ~Compound(l) /\ Joined(Code(m, l), more) = Joined(One(ch), t)
    BY <1>2, <1>5 DEF l
  <2>2. FirstHeard(m, l, Heard(m, ch), t, more)
    BY <1>4, <2>1, LetterFirst
  <2>. QED
    BY <2>1, <2>2 DEF l, FirstHeard
<1>7. IsJaeum(cp) /\ IsJamo(cp) /\ cp \in Consonants
  BY <1>1, <1>2, <1>6, Kinds
<1>8. Keeps(None, cp, Letter(e.cho, 0, 0))
  BY <1>1, <1>6, <1>7, JaeumMoves DEF Keeps, Moved
<1>9. CASE d.jong = 0 /\ Contains(Jongseong, cp)
  <2>1. Jaeum(Letter(d.cho, d.jung, 0), cp) = Keep(Letter(d.cho, d.jung, cp))
    BY <1>1, <1>7, <1>9, JaeumMoves
  <2>2. Keeps(d, cp, Letter(d.cho, d.jung, cp))
    BY <1>1, <1>7, <1>9, <2>1 DEF Keeps, Moved
  <2>3. Borrowed(m, d, e, Letter(d.cho, d.jung, cp), t, after)
    BY <1>2, <1>6, <1>9 DEF Borrowed, Finals
  <2>. QED
    BY <1>6, <1>8, <2>2, <2>3
<1>10. CASE d.jong # 0 /\ Merge(d.jong, cp) # 0
  <2>1. Simple(d.jong)
    BY <1>10 DEF Merge
  <2>2. Jaeum(Letter(d.cho, d.jung, d.jong), cp) = Keep(Letter(d.cho, d.jung, Merge(d.jong, cp)))
    BY <1>1, <1>7, <1>10, <2>1, JaeumMoves
  <2>3. Keeps(d, cp, Letter(d.cho, d.jung, Merge(d.jong, cp)))
    BY <1>1, <1>7, <2>2 DEF Keeps, Moved
  <2>4. Borrowed(m, d, e, Letter(d.cho, d.jung, Merge(d.jong, cp)), t, after)
    BY <1>6, <1>10 DEF Borrowed
  <2>. QED
    BY <1>6, <1>8, <2>3, <2>4
<1>11. CASE \/ d.jong = 0 /\ ~Contains(Jongseong, cp)
            \/ d.jong # 0 /\ Merge(d.jong, cp) = 0
  <2>1. Jaeum(Letter(d.cho, d.jung, d.jong), cp)
          = Push(Letter(d.cho, d.jung, d.jong), Letter(cp, 0, 0))
    BY <1>1, <1>7, <1>11, JaeumMoves
  <2>2. Pushes(d, cp, d, Letter(e.cho, 0, 0))
    BY <1>1, <1>6, <1>7, <2>1 DEF Pushes, Moved
  <2>. QED
    BY <1>6, <1>8, <2>2
<1>. QED
  BY <1>9, <1>10, <1>11

\* A consonant that was taken goes back to the syllable that it begins when
\* the vowel comes.
LEMMA BorrowedReturns ==
  ASSUME NEW m \in BOOLEAN, NEW d, Syllabic(d), NEW e, Syllabic(e), NEW after \in Seq(Nat), NEW c,
         NEW ch \in Nat, NEW t \in Seq(Nat), Borrowed(m, d, e, c, Joined(One(ch), t), after)
  PROVE  \E f : Pushes(c, Heard(m, ch), d, f) /\ Within(m, e, f, t, after)
<1>1. /\ d.cho \in Consonants /\ d.jung \in Moeums /\ d.jong \in {0} \cup Finals
      /\ d = Letter(d.cho, d.jung, d.jong)
      /\ e.cho \in Consonants /\ e.jung \in Moeums /\ e.jong \in {0} \cup Finals
  BY DEF Syllabic, Letter
<1>2. e.cho \in Jaeums /\ ~Compound(e.cho)
  BY <1>1, TwoKeys DEF Consonants
<1>. DEFINE cp == Heard(m, ch)
<1>3. Joined(Code(m, e.jung), Joined(Code(m, e.jong), after)) = Joined(One(ch), t)
  BY DEF Borrowed
<1>4. cp \in Moeums /\ Within(m, e, Letter(e.cho, cp, 0), t, after)
  BY <1>3, VowelFed
<1>5. IsJamo(cp) /\ ~IsJaeum(cp)
  BY <1>4, Kinds
<1>6. CASE d.jong = 0 /\ e.cho \in Finals /\ c = Letter(d.cho, d.jung, e.cho)
  <2>1. Moeum(c, cp) = Push(Letter(d.cho, d.jung, 0), Letter(e.cho, cp, 0))
    BY <1>1, <1>2, <1>4, <1>6, MoeumMoves
  <2>2. Pushes(c, cp, d, Letter(e.cho, cp, 0))
    BY <1>1, <1>5, <1>6, <2>1 DEF Pushes, Moved
  <2>. QED
    BY <1>4, <2>2
<1>7. CASE /\ d.jong # 0 /\ Merge(d.jong, e.cho) # 0
           /\ c = Letter(d.cho, d.jung, Merge(d.jong, e.cho))
  <2>1. d.jong \in Finals /\ d.jong \in Jaeums
    BY <1>1, <1>7 DEF Finals
  <2>2. Merge(d.jong, e.cho) \in Finals
    BY <1>7, <2>1, MergedKinds
  <2>3. /\ FirstPart(Merge(d.jong, e.cho)) = d.jong /\ SecondPart(Merge(d.jong, e.cho)) = e.cho
        /\ Compound(Merge(d.jong, e.cho))
    BY <1>2, <1>7, <2>1, MergeParts
  <2>4. Moeum(c, cp) = Push(Letter(d.cho, d.jung, d.jong), Letter(e.cho, cp, 0))
    BY <1>1, <1>4, <1>7, <2>2, <2>3, MoeumMoves
  <2>5. Pushes(c, cp, d, Letter(e.cho, cp, 0))
    BY <1>1, <1>5, <2>4 DEF Pushes, Moved
  <2>. QED
    BY <1>4, <2>5
<1>. QED
  BY <1>6, <1>7 DEF Borrowed

-----------------------------------------------------------------------------
(* A word *)

\* The characters of each syllable of a word, all of them, and those after
\* its k-th syllable.
Codes(m, w) == [i \in 1 .. Len(w) |-> CodeOf(m, Decompose(w[i]))]
Spelled(m, w) == FlattenSeq(Codes(m, w))
Rests(m, w) == CHOOSE g : IsUnfolding(g, Codes(m, w))

\* A word is a text.
LEMMA WordType ==
  ASSUME NEW w \in Words
  PROVE  w \in Seq(Nat) /\ Len(w) \in Nat
<1>. DEFINE R == 44032 .. 55203
<1>1. Words \subseteq Seq(R)
  BY TablesAssumption
<1>2. R \subseteq Nat
  OBVIOUS
<1>. HIDE DEF R
<1>3. Seq(R) \subseteq Seq(Nat)
  BY <1>2, SeqMonotonic
<1>4. w \in Seq(Nat)
  BY <1>1, <1>3
<1>. QED
  BY <1>4

\* The syllables of a word, and their letters.
LEMMA WordSyllables ==
  ASSUME NEW w \in Words, NEW k \in 1 .. Len(w)
  PROVE  /\ w \in Seq(Nat) /\ w[k] \in Nat /\ w[k] # 0 /\ IsSyllable(w[k])
         /\ Syllabic(Decompose(w[k])) /\ Compose(Decompose(w[k])) = w[k]
<1>. DEFINE R == 44032 .. 55203
<1>1. Words \subseteq Seq(R)
  BY TablesAssumption
<1>2. ASSUME NEW cp \in R PROVE IsSyllable(cp) /\ cp \in Nat /\ cp # 0
  <2>1. IsSyllable(cp)
    BY DEF IsSyllable
  <2>. QED
    BY <2>1, SyllableRange
<1>. HIDE DEF R
<1>3. w \in Seq(R)
  BY <1>1
<1>4. w[k] \in R
  BY <1>3
<1>5. IsSyllable(w[k]) /\ w[k] \in Nat /\ w[k] # 0
  BY <1>2, <1>4
<1>6. Syllabic(Decompose(w[k])) /\ Compose(Decompose(w[k])) = w[k]
  BY <1>5, SyllableLetters
<1>7. w \in Seq(Nat)
  BY WordType
<1>. QED
  BY <1>5, <1>6, <1>7

\* The characters of a syllable are characters, and there are some.
LEMMA CodeOfType ==
  ASSUME NEW m \in BOOLEAN, NEW d, Syllabic(d)
  PROVE  CodeOf(m, d) \in Seq(Nat)
<1>1. d.cho \in Jaeums /\ d.jung \in Moeums /\ d.jong \in {0} \cup Jaeums
  BY DEF Syllabic, Consonants, Finals
<1>2. Code(m, d.cho) \in Seq(Nat) /\ Code(m, d.jung) \in Seq(Nat) /\ Code(m, d.jong) \in Seq(Nat)
  BY <1>1, CodeType
<1>. QED
  BY <1>2, JoinedFacts DEF CodeOf

LEMMA CodeNotEmpty ==
  ASSUME NEW m \in BOOLEAN, NEW l \in Jaeums \cup Moeums, NEW more \in Seq(Nat)
  PROVE  /\ Joined(Code(m, l), more) # <<>>
         /\ Compound(l) => Joined(SecondKey(l), more) # <<>>
<1>1. l # 0 /\ l \in Nat
  BY NoSyllable
<1>2. ASSUME NEW s \in Seq(Nat), Len(s) # 0 PROVE Joined(s, more) # <<>>
  BY <1>2 DEF Joined
<1>3. Code(m, l) \in Seq(Nat) /\ Len(Code(m, l)) # 0
  <2>1. Code(m, l) \in Seq(Nat)
    BY CodeType
  <2>2. CASE m = FALSE
    <3>1. Len(Code(m, l)) = 1
      BY <1>1, <2>2 DEF Code, One
    <3>. QED
      BY <2>1, <3>1
  <2>3. CASE m = TRUE
    <3>1. Len(JamoKey[l]) = 1 \/ Len(JamoKey[l]) = 2
      BY TwoKeys DEF Simple, Compound
    <3>2. Code(m, l) = JamoKey[l]
      BY <1>1, <2>3 DEF Code
    <3>3. Len(Code(m, l)) = 1 \/ Len(Code(m, l)) = 2
      BY <3>1, <3>2
    <3>4. ASSUME NEW n, n = 1 \/ n = 2 PROVE n # 0
      BY <3>4
    <3>5. Len(Code(m, l)) # 0
      BY <3>3, <3>4
    <3>. QED
      BY <2>1, <3>5
  <2>. QED
    BY <2>2, <2>3
<1>4. ASSUME Compound(l) PROVE SecondKey(l) \in Seq(Nat) /\ Len(SecondKey(l)) = 1
  BY <1>4, HeardFacts DEF SecondKey, One
<1>5. Joined(Code(m, l), more) # <<>>
  <2>. DEFINE s == Code(m, l)
  <2>. HIDE DEF s
  <2>1. s \in Seq(Nat) /\ Len(s) # 0
    BY <1>3 DEF s
  <2>2. Joined(s, more) # <<>>
    BY <1>2, <2>1
  <2>. QED
    BY <2>2 DEF s
<1>6. ASSUME Compound(l) PROVE Joined(SecondKey(l), more) # <<>>
  <2>. DEFINE s == SecondKey(l)
  <2>. HIDE DEF s
  <2>1. s \in Seq(Nat) /\ Len(s) # 0
    BY <1>4, <1>6 DEF s
  <2>2. Joined(s, more) # <<>>
    BY <1>2, <2>1
  <2>. QED
    BY <2>2 DEF s
<1>. QED
  BY <1>5, <1>6

LEMMA CodeOfNotEmpty ==
  ASSUME NEW m \in BOOLEAN, NEW d, Syllabic(d), NEW more \in Seq(Nat)
  PROVE  Joined(CodeOf(m, d), more) # <<>>
<1>1. d.cho \in Jaeums /\ d.jung \in Moeums /\ d.jong \in {0} \cup Jaeums
  BY DEF Syllabic, Consonants, Finals
<1>. DEFINE x == Code(m, d.cho)
            y == Joined(Code(m, d.jung), Code(m, d.jong))
<1>2. x \in Seq(Nat) /\ y \in Seq(Nat)
  <2>1. Code(m, d.cho) \in Seq(Nat) /\ Code(m, d.jung) \in Seq(Nat) /\ Code(m, d.jong) \in Seq(Nat)
    BY <1>1, CodeType
  <2>. QED
    BY <2>1, JoinedFacts
<1>3. \A s \in Seq(Nat) : Joined(x, s) # <<>>
  BY <1>1, CodeNotEmpty
<1>. HIDE DEF x, y
<1>4. Joined(x, Joined(y, more)) = Joined(Joined(x, y), more) /\ Joined(y, more) \in Seq(Nat)
  BY <1>2, JoinedFacts
<1>5. Joined(Joined(x, y), more) # <<>>
  BY <1>3, <1>4
<1>. QED
  BY <1>5 DEF CodeOf, x, y

\* The characters after each syllable.
LEMMA RestsFacts ==
  ASSUME NEW m \in BOOLEAN, NEW w \in Words
  PROVE  /\ \A k \in 0 .. Len(w) : Rests(m, w)[k] \in Seq(Nat)
         /\ Rests(m, w)[Len(w)] = <<>>
         /\ \A k \in 1 .. Len(w) :
              Rests(m, w)[k - 1] = Joined(CodeOf(m, Decompose(w[k])), Rests(m, w)[k])
         /\ Rests(m, w)[0] = Spelled(m, w)
<1>. DEFINE s == Codes(m, w)
<1>1. Len(w) \in Nat
  BY WordType
<1>2. \A k \in 1 .. Len(w) : CodeOf(m, Decompose(w[k])) \in Seq(Nat)
  BY WordSyllables, CodeOfType
<1>3. s \in Seq(Seq(Nat)) /\ Len(s) = Len(w) /\ \A k \in 1 .. Len(w) : s[k] = CodeOf(m, Decompose(w[k]))
  BY <1>1, <1>2 DEF Codes
<1>4. Spelled(m, w) = FlattenSeq(s) /\ Rests(m, w) = CHOOSE g : IsUnfolding(g, s)
  BY DEF Spelled, Rests
<1>. HIDE DEF s
<1>5. IsUnfolding(Rests(m, w), s)
  <2>1. \E g : IsUnfolding(g, s)
    BY <1>3, Unfolding
  <2>. QED
    BY <1>4, <2>1
<1>. QED
  BY <1>3, <1>4, <1>5 DEF IsUnfolding

\* How far the automaton is in a word: the component, the syllables that are
\* done and what is to be fed.
OnTheWay(m, w, c, done, rest) ==
  \/ c = None /\ done = <<>> /\ rest = Spelled(m, w)
  \/ \E k \in 1 .. Len(w) : /\ done = SubSeq(w, 1, k - 1)
                            /\ Within(m, Decompose(w[k]), c, rest, Rests(m, w)[k])
  \/ \E k \in 1 .. Len(w) :
       /\ k + 1 <= Len(w) /\ done = SubSeq(w, 1, k - 1)
       /\ Borrowed(m, Decompose(w[k]), Decompose(w[k + 1]), c, rest, Rests(m, w)[k + 1])

\* A syllable more.
LEMMA OneMore ==
  ASSUME NEW w \in Seq(Nat), NEW k \in 1 .. Len(w)
  PROVE  Append(SubSeq(w, 1, k - 1), w[k]) = SubSeq(w, 1, k)
<1>1. SubSeq(w, 1, k) = SubSeq(w, 1, k - 1) \o <<w[k]>>
  BY SubSeqRecursiveSecond
<1>2. SubSeq(w, 1, k - 1) \in Seq(Nat) /\ w[k] \in Nat
  OBVIOUS
<1>. QED
  BY <1>1, <1>2, AppendIsConcat

\* The next character is a jamo that the component takes in, or one at which
\* a syllable of the word is done.
LEMMA WordGoesOn ==
  ASSUME NEW m \in BOOLEAN, NEW w \in Words, NEW c, NEW done,
         NEW ch \in Nat, NEW t \in Seq(Nat), OnTheWay(m, w, c, done, Joined(One(ch), t))
  PROVE  \/ \E e : Keeps(c, Heard(m, ch), e) /\ OnTheWay(m, w, e, done, t)
         \/ \E e, s : /\ IsSyllable(s) /\ Pushes(c, Heard(m, ch), Decompose(s), e)
                      /\ OnTheWay(m, w, e, Append(done, s), t)
<1>. DEFINE r == Rests(m, w)
            d(k) == Decompose(w[k])
            rest == Joined(One(ch), t)
<1>1. /\ Len(w) \in Nat /\ w \in Seq(Nat)
      /\ \A k \in 0 .. Len(w) : r[k] \in Seq(Nat)
      /\ \A k \in 1 .. Len(w) : r[k - 1] = Joined(CodeOf(m, d(k)), r[k])
      /\ r[0] = Spelled(m, w) /\ r[Len(w)] = <<>>
  BY WordType, RestsFacts
<1>2. \A k \in 1 .. Len(w) : Syllabic(d(k)) /\ IsSyllable(w[k])
  BY WordSyllables
<1>3. rest # <<>>
  BY OneFacts
<1>4. CASE c = None /\ done = <<>> /\ rest = Spelled(m, w)
  <2>1. Len(w) # 0
    BY <1>1, <1>3, <1>4
  <2>2. 1 \in 1 .. Len(w) /\ 1 \in 0 .. Len(w)
    BY <1>1, <2>1
  <2>3. r[1 - 1] = Joined(CodeOf(m, d(1)), r[1])
    BY <1>1, <2>2
  <2>4. Joined(CodeOf(m, d(1)), r[1]) = Joined(One(ch), t)
    BY <1>1, <1>4, <2>3
  <2>5. /\ Keeps(None, Heard(m, ch), Letter(d(1).cho, 0, 0))
        /\ t = Joined(Code(m, d(1).jung), Joined(Code(m, d(1).jong), r[1]))
    <3>1. Syllabic(d(1)) /\ r[1] \in Seq(Nat)
      BY <1>1, <1>2, <2>2
    <3>. DEFINE e == d(1)
                a == r[1]
    <3>. HIDE DEF e, a
    <3>2. /\ Keeps(None, Heard(m, ch), Letter(e.cho, 0, 0))
          /\ t = Joined(Code(m, e.jung), Joined(Code(m, e.jong), a))
      <4>1. Syllabic(e) /\ a \in Seq(Nat) /\ Joined(CodeOf(m, e), a) = Joined(One(ch), t)
        BY <2>4, <3>1 DEF e, a
      <4>. QED
        BY <4>1, NextBegins
    <3>. QED
      BY <3>2 DEF e, a
  <2>6. Within(m, d(1), Letter(d(1).cho, 0, 0), t, r[1])
    BY <2>5 DEF Within
  <2>7. SubSeq(w, 1, 1 - 1) = <<>>
    BY SubSeqEmpty
  <2>8. OnTheWay(m, w, Letter(d(1).cho, 0, 0), done, t)
    BY <1>4, <2>2, <2>6, <2>7 DEF OnTheWay
  <2>. QED
    BY <1>4, <2>5, <2>8
<1>5. ASSUME NEW k \in 1 .. Len(w), done = SubSeq(w, 1, k - 1),
             Within(m, d(k), c, rest, r[k])
      PROVE  \/ \E e : Keeps(c, Heard(m, ch), e) /\ OnTheWay(m, w, e, done, t)
             \/ \E e, s : /\ IsSyllable(s) /\ Pushes(c, Heard(m, ch), Decompose(s), e)
                          /\ OnTheWay(m, w, e, Append(done, s), t)
  <2>0. k \in 0 .. Len(w) /\ r[k] \in Seq(Nat) /\ Syllabic(d(k))
    BY <1>1, <1>2
  <2>1. \/ \E e : Keeps(c, Heard(m, ch), e) /\ Within(m, d(k), e, t, r[k])
        \/ c = d(k) /\ r[k] = Joined(One(ch), t)
    <3>. DEFINE f == d(k)
                a == r[k]
    <3>. HIDE DEF f, a
    <3>1. Syllabic(f) /\ a \in Seq(Nat) /\ Within(m, f, c, Joined(One(ch), t), a)
      BY <1>5, <2>0 DEF f, a
    <3>2. \/ \E e : Keeps(c, Heard(m, ch), e) /\ Within(m, f, e, t, a)
          \/ c = f /\ a = Joined(One(ch), t)
      BY <3>1, WithinGoesOn
    <3>. QED
      BY <3>2 DEF f, a
  <2>2. ASSUME NEW e, Keeps(c, Heard(m, ch), e), Within(m, d(k), e, t, r[k])
        PROVE  Keeps(c, Heard(m, ch), e) /\ OnTheWay(m, w, e, done, t)
    BY <1>5, <2>2 DEF OnTheWay
  <2>3. CASE c = d(k) /\ r[k] = Joined(One(ch), t)
    <3>1. k # Len(w)
      BY <1>1, <1>3, <2>3
    <3>2. k + 1 \in 1 .. Len(w) /\ (k + 1) - 1 = k /\ k + 1 \in 0 .. Len(w)
      BY <1>1, <3>1
    <3>3. r[k] = Joined(CodeOf(m, d(k + 1)), r[k + 1])
      BY <1>1, <3>2
    <3>4. Syllabic(d(k + 1)) /\ r[k + 1] \in Seq(Nat)
      BY <1>1, <1>2, <3>2
    <3>5. /\ \/ \E e : Keeps(d(k), Heard(m, ch), e) /\ Borrowed(m, d(k), d(k + 1), e, t, r[k + 1])
             \/ Pushes(d(k), Heard(m, ch), d(k), Letter(d(k + 1).cho, 0, 0))
          /\ t = Joined(Code(m, d(k + 1).jung), Joined(Code(m, d(k + 1).jong), r[k + 1]))
      <4>. DEFINE f == d(k)
                  g == d(k + 1)
                  a == r[k + 1]
      <4>. HIDE DEF f, g, a
      <4>1. Syllabic(f) /\ Syllabic(g) /\ a \in Seq(Nat) /\ Joined(CodeOf(m, g), a) = Joined(One(ch), t)
        BY <2>0, <2>3, <3>3, <3>4 DEF f, g, a
      <4>2. /\ \/ \E e : Keeps(f, Heard(m, ch), e) /\ Borrowed(m, f, g, e, t, a)
               \/ Pushes(f, Heard(m, ch), f, Letter(g.cho, 0, 0))
            /\ t = Joined(Code(m, g.jung), Joined(Code(m, g.jong), a))
        BY <4>1, NextBegins
      <4>. QED
        BY <4>2 DEF f, g, a
    <3>6. ASSUME NEW e, Keeps(d(k), Heard(m, ch), e), Borrowed(m, d(k), d(k + 1), e, t, r[k + 1])
          PROVE  Keeps(c, Heard(m, ch), e) /\ OnTheWay(m, w, e, done, t)
      BY <1>1, <1>5, <2>3, <3>2, <3>6 DEF OnTheWay
    <3>7. ASSUME Pushes(d(k), Heard(m, ch), d(k), Letter(d(k + 1).cho, 0, 0))
          PROVE  /\ IsSyllable(w[k]) /\ Pushes(c, Heard(m, ch), d(k), Letter(d(k + 1).cho, 0, 0))
                 /\ OnTheWay(m, w, Letter(d(k + 1).cho, 0, 0), Append(done, w[k]), t)
      <4>1. Within(m, d(k + 1), Letter(d(k + 1).cho, 0, 0), t, r[k + 1])
        BY <3>5 DEF Within
      <4>2. Append(done, w[k]) = SubSeq(w, 1, (k + 1) - 1)
        BY <1>1, <1>5, <3>2, OneMore
      <4>3. OnTheWay(m, w, Letter(d(k + 1).cho, 0, 0), Append(done, w[k]), t)
        BY <3>2, <4>1, <4>2 DEF OnTheWay
      <4>. QED
        BY <1>2, <2>3, <3>7, <4>3
    <3>. QED
      BY <3>5, <3>6, <3>7
  <2>. QED
    BY <2>1, <2>2, <2>3
<1>6. ASSUME NEW k \in 1 .. Len(w), k + 1 <= Len(w), done = SubSeq(w, 1, k - 1),
             Borrowed(m, d(k), d(k + 1), c, rest, r[k + 1])
      PROVE  \E e, s : /\ IsSyllable(s) /\ Pushes(c, Heard(m, ch), Decompose(s), e)
                       /\ OnTheWay(m, w, e, Append(done, s), t)
  <2>1. k + 1 \in 1 .. Len(w) /\ (k + 1) - 1 = k /\ k + 1 \in 0 .. Len(w)
    BY <1>1, <1>6
  <2>2. Syllabic(d(k)) /\ Syllabic(d(k + 1)) /\ r[k + 1] \in Seq(Nat)
    BY <1>1, <1>2, <2>1
  <2>3. \E e : Pushes(c, Heard(m, ch), d(k), e) /\ Within(m, d(k + 1), e, t, r[k + 1])
    <3>. DEFINE f == d(k)
                g == d(k + 1)
                a == r[k + 1]
    <3>. HIDE DEF f, g, a
    <3>1. Syllabic(f) /\ Syllabic(g) /\ a \in Seq(Nat) /\ Borrowed(m, f, g, c, Joined(One(ch), t), a)
      BY <1>6, <2>2 DEF f, g, a
    <3>2. \E e : Pushes(c, Heard(m, ch), f, e) /\ Within(m, g, e, t, a)
      BY <3>1, BorrowedReturns
    <3>. QED
      BY <3>2 DEF f, g, a
  <2>4. PICK e : Pushes(c, Heard(m, ch), d(k), e) /\ Within(m, d(k + 1), e, t, r[k + 1])
    BY <2>3
  <2>5. Append(done, w[k]) = SubSeq(w, 1, (k + 1) - 1)
    BY <1>1, <1>6, <2>1, OneMore
  <2>6. OnTheWay(m, w, e, Append(done, w[k]), t)
    BY <2>1, <2>4, <2>5 DEF OnTheWay
  <2>. QED
    BY <1>2, <2>4, <2>6
<1>. QED
  BY <1>4, <1>5, <1>6 DEF OnTheWay

\* When nothing is left to be fed, the syllables and the component are the word.
LEMMA WordIsOver ==
  ASSUME NEW m \in BOOLEAN, NEW w \in Words, NEW c, NEW done, OnTheWay(m, w, c, done, <<>>)
  PROVE  \/ c = None /\ done = w
         \/ \E s : IsSyllable(s) /\ c = Decompose(s) /\ Append(done, s) = w
<1>. DEFINE r == Rests(m, w)
            d(k) == Decompose(w[k])
<1>1. /\ Len(w) \in Nat /\ w \in Seq(Nat)
      /\ \A k \in 0 .. Len(w) : r[k] \in Seq(Nat)
      /\ \A k \in 1 .. Len(w) : r[k - 1] = Joined(CodeOf(m, d(k)), r[k])
      /\ r[0] = Spelled(m, w)
  BY WordType, RestsFacts
<1>2. \A k \in 1 .. Len(w) : Syllabic(d(k)) /\ IsSyllable(w[k])
  BY WordSyllables
<1>3. ASSUME NEW k \in 1 .. Len(w) PROVE r[k - 1] # <<>>
  <2>1. Syllabic(d(k)) /\ r[k] \in Seq(Nat)
    BY <1>1, <1>2
  <2>2. Joined(CodeOf(m, d(k)), r[k]) # <<>>
    BY <2>1, CodeOfNotEmpty
  <2>. QED
    BY <1>1, <2>2
<1>4. CASE c = None /\ done = <<>> /\ <<>> = Spelled(m, w)
  <2>1. Len(w) = 0
    <3>1. Len(w) # 0 => 1 \in 1 .. Len(w)
      BY <1>1
    <3>. QED
      BY <1>1, <1>3, <1>4, <3>1
  <2>. QED
    BY <1>1, <1>4, <2>1, EmptySeq
<1>5. ASSUME NEW k \in 1 .. Len(w), done = SubSeq(w, 1, k - 1), Within(m, d(k), c, <<>>, r[k])
      PROVE  IsSyllable(w[k]) /\ c = d(k) /\ Append(done, w[k]) = w
  <2>1. /\ d(k).jung \in Moeums /\ d(k).jong \in {0} \cup Jaeums /\ r[k] \in Seq(Nat)
        /\ d(k) = Letter(d(k).cho, d(k).jung, d(k).jong)
    BY <1>1, <1>2 DEF Syllabic, Letter, Finals
  <2>2. Joined(Code(m, d(k).jong), r[k]) \in Seq(Nat)
    BY <2>1, CodeType, JoinedFacts
  <2>3. /\ Joined(Code(m, d(k).jung), Joined(Code(m, d(k).jong), r[k])) # <<>>
        /\ Compound(d(k).jung) => Joined(SecondKey(d(k).jung), Joined(Code(m, d(k).jong), r[k])) # <<>>
    BY <2>1, <2>2, CodeNotEmpty
  <2>4. d(k).jong # 0 => /\ Joined(Code(m, d(k).jong), r[k]) # <<>>
                         /\ Compound(d(k).jong) => Joined(SecondKey(d(k).jong), r[k]) # <<>>
    BY <2>1, CodeNotEmpty
  <2>5. d(k).jong = 0 => Joined(Code(m, d(k).jong), r[k]) = r[k]
    BY <2>1, JoinedFacts DEF Code
  <2>6. c = d(k) /\ r[k] = <<>>
    BY <1>5, <2>1, <2>3, <2>4, <2>5 DEF Within
  <2>7. k = Len(w)
    <3>1. k # Len(w) => k + 1 \in 1 .. Len(w) /\ (k + 1) - 1 = k
      BY <1>1
    <3>. QED
      BY <1>3, <2>6, <3>1
  <2>8. Append(done, w[k]) = SubSeq(w, 1, k)
    BY <1>1, <1>5, OneMore
  <2>9. SubSeq(w, 1, Len(w)) = w
    BY <1>1, SubSeqFull
  <2>. QED
    BY <1>2, <2>6, <2>7, <2>8, <2>9
<1>6. ASSUME NEW k \in 1 .. Len(w), k + 1 <= Len(w),
             Borrowed(m, d(k), d(k + 1), c, <<>>, r[k + 1])
      PROVE  FALSE
  <2>1. k + 1 \in 1 .. Len(w) /\ k + 1 \in 0 .. Len(w)
    BY <1>1, <1>6
  <2>2. /\ d(k + 1).jung \in Moeums /\ d(k + 1).jong \in {0} \cup Jaeums /\ r[k + 1] \in Seq(Nat)
    BY <1>1, <1>2, <2>1 DEF Syllabic, Finals
  <2>3. Joined(Code(m, d(k + 1).jong), r[k + 1]) \in Seq(Nat)
    BY <2>2, CodeType, JoinedFacts
  <2>4. Joined(Code(m, d(k + 1).jung), Joined(Code(m, d(k + 1).jong), r[k + 1])) # <<>>
    BY <2>2, <2>3, CodeNotEmpty
  <2>. QED
    BY <1>6, <2>4 DEF Borrowed
<1>. QED
  BY <1>4, <1>5, <1>6 DEF OnTheWay

-----------------------------------------------------------------------------
(* A word of whole syllables comes back *)

\* Two numbers, one after the other.
LEMMA Couple ==
  ASSUME NEW x \in Nat, NEW y \in Nat
  PROVE  <<x>> \o <<y>> = <<x, y>>
<1>. DEFINE s == <<x>> \o <<y>>
            t == <<x, y>>
<1>1. s \in Seq(Nat) /\ Len(s) = 2 /\ s[1] = x /\ s[2] = y
  OBVIOUS
<1>2. t \in Seq(Nat) /\ Len(t) = 2 /\ t[1] = x /\ t[2] = y
  OBVIOUS
<1>. HIDE DEF s, t
<1>3. s = t
  BY <1>1, <1>2, SeqEqual
<1>. QED
  BY <1>3 DEF s, t

\* What a word is typed with, and the letters it is made of, are its characters.
LEMMA WordCodes ==
  ASSUME NEW w \in Words
  PROVE  Spelled(TRUE, w) = Keystrokes(w) /\ Spelled(FALSE, w) = Jamos(w)
<1>1. ASSUME NEW a \in Seq(Nat), NEW b \in Seq(Nat), NEW c \in Seq(Nat)
      PROVE  (a \o b) \o c = Joined(a, Joined(b, c))
  BY Regroup DEF Joined
<1>2. ASSUME NEW k \in 1 .. Len(w)
      PROVE  CodeOf(TRUE, Decompose(w[k])) = Keys(w[k]) /\ CodeOf(FALSE, Decompose(w[k])) = Letters(w[k])
  <2>. DEFINE d == Decompose(w[k])
  <2>1. /\ IsSyllable(w[k]) /\ d.cho \in Jaeums /\ d.jung \in Moeums /\ d.jong \in {0} \cup Jaeums
    BY WordSyllables DEF Syllabic, Consonants, Finals
  <2>2. Keys(w[k]) = PartKeys(d)
    BY <2>1 DEF Keys
  <2>3. Letters(w[k]) = <<d.cho, d.jung>> \o (IF d.jong = 0 THEN <<>> ELSE <<d.jong>>)
    BY <2>1 DEF Letters
  <2>. DEFINE a == d.cho
              v == d.jung
              f == d.jong
  <2>4. /\ a \in {0} \cup Jaeums \cup Moeums /\ v \in {0} \cup Jaeums \cup Moeums
        /\ f \in {0} \cup Jaeums \cup Moeums
        /\ a # 0 /\ v # 0 /\ a \in Nat /\ v \in Nat
    BY <2>1, NoSyllable
  <2>5. /\ PartKeys(d) = (LetterKeys(a) \o LetterKeys(v)) \o LetterKeys(f)
        /\ CodeOf(TRUE, d) = Joined(Code(TRUE, a), Joined(Code(TRUE, v), Code(TRUE, f)))
        /\ CodeOf(FALSE, d) = Joined(Code(FALSE, a), Joined(Code(FALSE, v), Code(FALSE, f)))
        /\ Letters(w[k]) = <<a, v>> \o (IF f = 0 THEN <<>> ELSE <<f>>)
    BY <2>3 DEF PartKeys, CodeOf
  <2>. HIDE DEF a, v, f
  <2>6. ASSUME NEW l PROVE Code(TRUE, l) = LetterKeys(l)
    BY DEF Code, LetterKeys
  <2>7. CodeOf(TRUE, d) = PartKeys(d)
    <3>1. Code(TRUE, a) \in Seq(Nat) /\ Code(TRUE, v) \in Seq(Nat) /\ Code(TRUE, f) \in Seq(Nat)
      BY <2>4, CodeType
    <3>2. (Code(TRUE, a) \o Code(TRUE, v)) \o Code(TRUE, f)
            = Joined(Code(TRUE, a), Joined(Code(TRUE, v), Code(TRUE, f)))
      BY <1>1, <3>1
    <3>3. (LetterKeys(a) \o LetterKeys(v)) \o LetterKeys(f)
            = Joined(Code(TRUE, a), Joined(Code(TRUE, v), Code(TRUE, f)))
      <4>1. Code(TRUE, a) = LetterKeys(a) /\ Code(TRUE, v) = LetterKeys(v) /\ Code(TRUE, f) = LetterKeys(f)
        BY <2>6
      <4>. QED
        BY <3>2, <4>1
    <3>. QED
      BY <2>5, <3>3, Zenon
  <2>8. CodeOf(FALSE, d) = Letters(w[k])
    <3>1. Code(FALSE, a) = One(a) /\ Code(FALSE, v) = One(v)
      BY <2>4 DEF Code
    <3>2. Code(FALSE, f) = IF f = 0 THEN <<>> ELSE <<f>>
      BY DEF Code, One
    <3>3. <<a, v>> = One(a) \o One(v)
      <4>1. a \in Nat /\ v \in Nat
        BY <2>4
      <4>2. <<a>> \o <<v>> = <<a, v>>
        BY <4>1, Couple
      <4>. QED
        BY <4>2 DEF One
    <3>4. One(a) \in Seq(Nat) /\ One(v) \in Seq(Nat) /\ Code(FALSE, f) \in Seq(Nat)
      BY <2>4, OneFacts, CodeType
    <3>5. (One(a) \o One(v)) \o Code(FALSE, f) = Joined(One(a), Joined(One(v), Code(FALSE, f)))
      BY <1>1, <3>4
    <3>6. Letters(w[k]) = (One(a) \o One(v)) \o Code(FALSE, f)
      BY <2>5, <3>2, <3>3
    <3>. QED
      BY <2>5, <3>1, <3>5, <3>6
  <2>. QED
    BY <2>2, <2>7, <2>8
<1>3. /\ Codes(TRUE, w) = [i \in 1 .. Len(w) |-> Keys(w[i])]
      /\ Codes(FALSE, w) = [i \in 1 .. Len(w) |-> Letters(w[i])]
  BY <1>2 DEF Codes
<1>. QED
  BY <1>3 DEF Spelled, Keystrokes, Jamos

\* The letters of a syllable make a syllable, and it is not 0.
LEMMA SyllableWhole ==
  ASSUME NEW s, IsSyllable(s)
  PROVE  /\ Decompose(s) # None /\ Complete(Decompose(s))
         /\ Compose(Decompose(s)) = s /\ s # 0
<1>1. Syllabic(Decompose(s)) /\ Compose(Decompose(s)) = s
  BY SyllableLetters
<1>2. Decompose(s).cho # 0 /\ Decompose(s).jung # 0
  BY <1>1, NoSyllable DEF Syllabic, Consonants
<1>3. Decompose(s) # None
  BY <1>2 DEF None
<1>4. s # 0
  BY SyllableRange
<1>. QED
  BY <1>1, <1>2, <1>3, <1>4 DEF Complete

\* A jamo that the component takes in changes nothing else.
LEMMA KeepStep ==
  ASSUME NEW ch, NEW e, FeedJamo(ch) \/ FeedOther(ch), Keeps(comp, Typed(ch), e)
  PROVE  comp' = e /\ UNCHANGED <<valid, syllables, output, at>>
<1>1. IsJamo(Typed(ch)) /\ Moved(comp, Typed(ch)) = Keep(e)
  BY DEF Keeps
<1>2. FeedJamo(ch)
  BY <1>1 DEF FeedOther
<1>3. (IF IsJaeum(Typed(ch)) THEN Jaeum(comp, Typed(ch)) ELSE Moeum(comp, Typed(ch))) = Keep(e)
  BY <1>1 DEF Moved
<1>4. Keep(e).push = None /\ Keep(e).comp = e /\ Keep(e).ok = TRUE
  BY DEF Keep
<1>. QED
  BY <1>2, <1>3, <1>4 DEF FeedJamo

\* A jamo at which a syllable is done adds it to those of the word.
LEMMA PushStep ==
  ASSUME NEW ch, NEW d, NEW e, FeedJamo(ch) \/ FeedOther(ch), Pushes(comp, Typed(ch), d, e),
         d # None, Compose(d) # 0, Complete(d)
  PROVE  comp' = e /\ syllables' = Append(syllables, Compose(d)) /\ UNCHANGED <<valid, output, at>>
<1>1. IsJamo(Typed(ch)) /\ Moved(comp, Typed(ch)) = Push(d, e)
  BY DEF Pushes
<1>2. FeedJamo(ch)
  BY <1>1 DEF FeedOther
<1>3. (IF IsJaeum(Typed(ch)) THEN Jaeum(comp, Typed(ch)) ELSE Moeum(comp, Typed(ch))) = Push(d, e)
  BY <1>1 DEF Moved
<1>4. Push(d, e).push = d /\ Push(d, e).comp = e /\ Push(d, e).ok = TRUE
  BY DEF Push
<1>. QED
  BY <1>2, <1>3, <1>4 DEF FeedJamo

\* While a word is fed the automaton is on the way in it, and nothing else is
\* out; when all of it is fed the call returns it.
Begun(m, w, rest) == output = <<>> /\ valid # 0 /\ OnTheWay(m, w, comp, syllables, rest)
Composing(m, w) ==
  /\ at = "feeding" =>
       \A rest \in Seq(Nat) : Joined(input, rest) = Spelled(m, w) => Begun(m, w, rest)
  /\ at = "done" /\ input = Spelled(m, w) => output = w

WordsKept ==
  /\ keystroke \in BOOLEAN
  /\ \A m \in BOOLEAN, w \in Words : keystroke = m => Composing(m, w)

\* The characters of a word are characters.
LEMMA SpelledType ==
  ASSUME NEW m \in BOOLEAN, NEW w \in Words
  PROVE  Spelled(m, w) \in Seq(Nat)
<1>1. 0 \in 0 .. Len(w)
  BY WordType
<1>. QED
  BY <1>1, RestsFacts

\* Nothing is fed yet.
LEMMA InitWordsKept == Init => WordsKept
<1>. SUFFICES ASSUME Init PROVE WordsKept
  OBVIOUS
<1>1. /\ keystroke \in BOOLEAN /\ input = <<>> /\ output = <<>> /\ syllables = <<>>
      /\ comp = None /\ valid = 1 /\ at = "feeding"
  BY DEF Init
<1>2. ASSUME NEW m \in BOOLEAN, NEW w \in Words, NEW rest \in Seq(Nat),
             Joined(input, rest) = Spelled(m, w)
      PROVE  Begun(m, w, rest)
  <2>1. rest = Spelled(m, w)
    BY <1>1, <1>2, JoinedFacts
  <2>. QED
    BY <1>1, <2>1 DEF Begun, OnTheWay
<1>3. ASSUME NEW m \in BOOLEAN, NEW w \in Words PROVE Composing(m, w)
  BY <1>1, <1>2 DEF Composing
<1>. QED
  BY <1>1, <1>3 DEF WordsKept

\* A character of a word.
LEMMA FeedComposes ==
  ASSUME NEW m \in BOOLEAN, NEW w \in Words, keystroke = m, Text, Composing(m, w), at = "feeding",
         NEW ch \in Nat, input' = Append(input, ch), FeedJamo(ch) \/ FeedOther(ch)
  PROVE  Composing(m, w)'
<1>1. at' # "done"
  BY DEF FeedJamo, FeedOther
<1>2. ASSUME NEW rest \in Seq(Nat), Joined(input', rest) = Spelled(m, w)
      PROVE  Begun(m, w, rest)'
  <2>. DEFINE more == Joined(One(ch), rest)
  <2>1. more \in Seq(Nat) /\ Joined(input, more) = Spelled(m, w)
    <3>1. input \in Seq(Nat) /\ One(ch) \in Seq(Nat) /\ input' = Joined(input, One(ch))
      BY OneFacts DEF Text
    <3>2. Joined(input, Joined(One(ch), rest)) = Joined(Joined(input, One(ch)), rest)
      BY <3>1, JoinedFacts
    <3>3. more \in Seq(Nat)
      BY <3>1, JoinedFacts
    <3>. QED
      BY <1>2, <3>1, <3>2, <3>3
  <2>2. Begun(m, w, more)
    BY <2>1 DEF Composing
  <2>3. output = <<>> /\ valid # 0 /\ OnTheWay(m, w, comp, syllables, Joined(One(ch), rest))
    BY <2>2 DEF Begun
  <2>4. Heard(m, ch) = Typed(ch)
    BY DEF Heard, Typed
  <2>5. \/ \E e : Keeps(comp, Heard(m, ch), e) /\ OnTheWay(m, w, e, syllables, rest)
        \/ \E e, s : /\ IsSyllable(s) /\ Pushes(comp, Heard(m, ch), Decompose(s), e)
                     /\ OnTheWay(m, w, e, Append(syllables, s), rest)
    BY <2>3, WordGoesOn
  <2>6. ASSUME NEW e, Keeps(comp, Heard(m, ch), e), OnTheWay(m, w, e, syllables, rest)
        PROVE  output' = <<>> /\ valid' # 0 /\ OnTheWay(m, w, comp', syllables', rest)
    <3>1. comp' = e /\ UNCHANGED <<valid, syllables, output, at>>
      BY <2>4, <2>6, KeepStep
    <3>. QED
      BY <2>3, <2>6, <3>1
  <2>7. ASSUME NEW e, NEW s, IsSyllable(s), Pushes(comp, Heard(m, ch), Decompose(s), e),
               OnTheWay(m, w, e, Append(syllables, s), rest)
        PROVE  output' = <<>> /\ valid' # 0 /\ OnTheWay(m, w, comp', syllables', rest)
    <3>1. /\ Decompose(s) # None /\ Complete(Decompose(s))
          /\ Compose(Decompose(s)) = s /\ s # 0
      BY <2>7, SyllableWhole
    <3>2. comp' = e /\ syllables' = Append(syllables, s) /\ UNCHANGED <<valid, output, at>>
      BY <2>4, <2>7, <3>1, PushStep
    <3>. QED
      BY <2>3, <2>7, <3>2
  <2>. QED
    BY <2>5, <2>6, <2>7 DEF Begun
<1>. QED
  BY <1>1, <1>2 DEF Composing

\* The end of the input.
LEMMA FinishComposes ==
  ASSUME NEW m \in BOOLEAN, NEW w \in Words, keystroke = m, Text, Composing(m, w), Finish
  PROVE  Composing(m, w)'
<1>1. at = "feeding" /\ at' # "feeding" /\ input' = input
  BY DEF Finish
<1>2. ASSUME input = Spelled(m, w), at' = "done" PROVE output' = w
  <2>1. Joined(input, <<>>) = Spelled(m, w) /\ <<>> \in Seq(Nat)
    BY <1>2, JoinedFacts DEF Text
  <2>2. Begun(m, w, <<>>)
    BY <1>1, <2>1 DEF Composing
  <2>3. output = <<>> /\ valid # 0 /\ OnTheWay(m, w, comp, syllables, <<>>)
    BY <2>2 DEF Begun
  <2>4. \/ comp = None /\ syllables = w
        \/ \E s : IsSyllable(s) /\ comp = Decompose(s) /\ Append(syllables, s) = w
    BY <2>3, WordIsOver
  <2>5. Composed = w /\ WordValid
    <3>1. CASE comp = None /\ syllables = w
      BY <2>3, <3>1 DEF Composed, WordValid
    <3>2. ASSUME NEW s, IsSyllable(s), comp = Decompose(s), Append(syllables, s) = w
          PROVE  Composed = w /\ WordValid
      <4>1. /\ Decompose(s) # None /\ Complete(Decompose(s)) /\ Compose(Decompose(s)) = s
        BY <3>2, SyllableWhole
      <4>. QED
        BY <2>3, <3>2, <4>1 DEF Composed, WordValid
    <3>. QED
      BY <2>4, <3>1, <3>2
  <2>6. WordText(raw) = w
    BY <2>5 DEF WordText
  <2>7. output' = output \o w
    BY <1>2, <2>5, <2>6 DEF Finish
  <2>8. <<>> \o w = w
    BY WordType, Joining
  <2>. QED
    BY <2>3, <2>7, <2>8
<1>. QED
  BY <1>1, <1>2 DEF Composing

LEMMA NextWordsKept == Text /\ WordsKept /\ [Next]_vars => WordsKept'
<1>. SUFFICES ASSUME Text, WordsKept, [Next]_vars PROVE WordsKept'
  OBVIOUS
<1>1. keystroke \in BOOLEAN /\ keystroke' = keystroke
  BY DEF WordsKept, Next, Feed, Finish, vars
<1>2. ASSUME NEW m \in BOOLEAN, NEW w \in Words, keystroke = m
      PROVE  Composing(m, w)'
  <2>1. Composing(m, w)
    BY <1>2 DEF WordsKept
  <2>2. ASSUME NEW ch \in KeyAlphabet \cup JamoAlphabet, Feed(ch)
        PROVE  Composing(m, w)'
    <3>1. /\ ch \in Nat /\ at = "feeding" /\ input' = Append(input, ch)
          /\ (FeedJamo(ch) \/ FeedOther(ch))
      BY <2>2, TablesAssumption, SMTT(30) DEF Feed
    <3>. QED
      BY <1>2, <2>1, <3>1, FeedComposes
  <2>3. CASE Finish
    BY <1>2, <2>1, <2>3, FinishComposes
  <2>4. CASE UNCHANGED vars
    BY <2>1, <2>4 DEF vars, Composing, Begun
  <2>. QED
    BY <2>2, <2>3, <2>4 DEF Next
<1>. QED
  BY <1>1, <1>2 DEF WordsKept

-----------------------------------------------------------------------------
(* Fullwidth keys are passed on *)

\* Characters that are neither keys nor jamo, and the fullwidth keys.
Foreign == { x \in Nat : x \notin DOMAIN KeyToJamo /\ ~IsJamo(x) }
WideRange == { Wide(k) : k \in DOMAIN KeyToJamo }

\* A fullwidth key is far from the keys and from the jamo.
LEMMA WideForeign == WideRange \subseteq Foreign /\ \A k \in DOMAIN KeyToJamo : Wide(k) \in WideRange
<1>1. DOMAIN KeyToJamo \subseteq 0 .. 127
  BY TablesAssumption
<1>2. ASSUME NEW k \in DOMAIN KeyToJamo PROVE Wide(k) \in Foreign
  <2>1. k \in 0 .. 127
    BY <1>1
  <2>2. Wide(k) \in Nat /\ Wide(k) > 65000
    BY <2>1 DEF Wide
  <2>3. Wide(k) \notin DOMAIN KeyToJamo
    BY <1>1, <2>2
  <2>4. ~IsJamo(Wide(k))
    BY <2>2 DEF IsJamo, IsJaeum, IsMoeum, Jaeums, Moeums
  <2>. QED
    BY <2>2, <2>3, <2>4 DEF Foreign
<1>. QED
  BY <1>2 DEF WideRange

\* A syllable is written in fullwidth keys.
LEMMA WideKeysType ==
  ASSUME NEW cp, IsSyllable(cp)
  PROVE  WideKeys(cp) \in Seq(WideRange)
<1>. DEFINE K == DOMAIN KeyToJamo
            d == Decompose(cp)
            keys == Keys(cp)
<1>1. ASSUME NEW l \in {0} \cup Jaeums \cup Moeums PROVE LetterKeys(l) \in Seq(K)
  <2>1. CASE l = 0
    <3>1. <<>> \in Seq(K)
      OBVIOUS
    <3>. QED
      BY <2>1, <3>1 DEF LetterKeys
  <2>2. CASE l # 0
    <3>1. l \in Jaeums \cup Moeums
      BY <2>2
    <3>2. \A x \in Jaeums \cup Moeums : JamoKey[x] \in Seq(K)
      BY TablesAssumption, SMTT(30) DEF KeyTables
    <3>. QED
      BY <2>2, <3>1, <3>2 DEF LetterKeys
  <2>. QED
    BY <2>1, <2>2
<1>2. LetterKeys(d.cho) \in Seq(K) /\ LetterKeys(d.jung) \in Seq(K) /\ LetterKeys(d.jong) \in Seq(K)
  BY <1>1, Decomposed
<1>3. keys \in Seq(K)
  <2>1. \A a, b \in Seq(K) : a \o b \in Seq(K)
    BY ConcatProperties
  <2>2. keys = (LetterKeys(d.cho) \o LetterKeys(d.jung)) \o LetterKeys(d.jong)
    BY DEF Keys, PartKeys
  <2>. HIDE DEF K, keys, d
  <2>. QED
    BY <1>2, <2>1, <2>2
<1>4. WideKeys(cp) = [i \in 1 .. Len(keys) |-> Wide(keys[i])]
  BY DEF WideKeys
<1>. HIDE DEF keys
<1>5. Len(keys) \in Nat /\ \A i \in 1 .. Len(keys) : Wide(keys[i]) \in WideRange
  BY <1>3, WideForeign
<1>. QED
  BY <1>4, <1>5

\* So is a word.
LEMMA WideWord ==
  ASSUME NEW w \in Words
  PROVE  WideKeystrokes(w) \in Seq(WideRange)
<1>. DEFINE N == Len(w)
            s == [i \in 1 .. N |-> WideKeys(w[i])]
<1>1. N \in Nat
  BY WordType
<1>2. \A i \in 1 .. N : WideKeys(w[i]) \in Seq(WideRange)
  BY WordSyllables, WideKeysType
<1>3. WideRange \subseteq Nat
  BY WideForeign DEF Foreign
<1>4. Seq(WideRange) \subseteq Seq(Nat)
  BY <1>3, SeqMonotonic
<1>5. s \in Seq(Seq(Nat)) /\ Len(s) = N /\ \A i \in 1 .. N : s[i] \in Seq(WideRange)
  BY <1>1, <1>2, <1>4
<1>6. WideKeystrokes(w) = FlattenSeq(s)
  BY DEF WideKeystrokes
<1>. HIDE DEF s
<1>7. PICK g : IsUnfolding(g, s)
  BY <1>5, Unfolding
<1>. DEFINE ready == { k \in 0 .. N : g[N - k] \in Seq(WideRange) }
<1>. HIDE DEF N
<1>8. 0 \in ready
  <2>1. g[N] = <<>> /\ N - 0 = N /\ <<>> \in Seq(WideRange)
    BY <1>1, <1>5, <1>7 DEF IsUnfolding
  <2>2. 0 \in 0 .. N
    BY <1>1
  <2>3. g[N - 0] \in Seq(WideRange)
    BY <2>1, Zenon
  <2>. QED
    BY <2>2, <2>3, Zenon
<1>9. ASSUME NEW k \in 1 .. N, k - 1 \in ready PROVE k \in ready
  <2>. DEFINE j == N - (k - 1)
  <2>1. j \in 1 .. N /\ j - 1 = N - k /\ k \in 0 .. N
    BY <1>1
  <2>2. g[j - 1] = s[j] \o g[j]
    BY <1>5, <1>7, <2>1 DEF IsUnfolding, Joined
  <2>3. s[j] \in Seq(WideRange) /\ g[j] \in Seq(WideRange)
    BY <1>5, <1>9, <2>1
  <2>. HIDE DEF j
  <2>4. g[N - k] \in Seq(WideRange)
    BY <2>1, <2>2, <2>3, ConcatProperties
  <2>. QED
    BY <2>1, <2>4
<1>10. N \in ready
  <2>. HIDE DEF ready
  <2>1. 0 .. N \subseteq ready
    BY <1>1, <1>8, <1>9, Induction
  <2>. QED
    BY <1>1, <2>1
<1>11. g[0] \in Seq(WideRange) /\ g[0] = FlattenSeq(s)
  BY <1>1, <1>7, <1>10 DEF IsUnfolding
<1>. QED
  BY <1>6, <1>11

\* An input of characters that are neither keys nor jamo is out as it came in.
PassedOn ==
  input \in Seq(Foreign) =>
    /\ at \in {"feeding", "done"}
    /\ comp = None /\ syllables = <<>> /\ raw = <<>> /\ valid # 0
    /\ output = input

LEMMA InitPassedOn == Init => PassedOn
  BY DEF Init, PassedOn

LEMMA NextPassedOn == Text /\ PassedOn /\ [Next]_vars => PassedOn'
<1>. SUFFICES ASSUME Text, PassedOn, [Next]_vars, input' \in Seq(Foreign)
              PROVE  /\ at' \in {"feeding", "done"}
                     /\ comp' = None /\ syllables' = <<>> /\ raw' = <<>> /\ valid' # 0
                     /\ output' = input'
  BY DEF PassedOn
<1>1. ASSUME comp = None, syllables = <<>>, valid # 0
      PROVE  ~FlushFails /\ Composed = <<>> /\ WordValid
  BY <1>1 DEF FlushFails, Composed, WordValid
<1>2. ASSUME NEW ch \in KeyAlphabet \cup JamoAlphabet, Feed(ch)
      PROVE  /\ at' \in {"feeding", "done"}
             /\ comp' = None /\ syllables' = <<>> /\ raw' = <<>> /\ valid' # 0
             /\ output' = input'
  <2>1. ch \in Nat /\ input' = Append(input, ch) /\ at = "feeding" /\ (FeedJamo(ch) \/ FeedOther(ch))
    BY <1>2, TablesAssumption DEF Feed
  <2>2. input \in Seq(Foreign) /\ ch \in Foreign
    <3>1. /\ Len(input) \in Nat /\ Len(input') = Len(input) + 1 /\ input'[Len(input) + 1] = ch
          /\ \A j \in 1 .. Len(input) : input'[j] = input[j]
      BY <2>1 DEF Text
    <3>2. \A j \in 1 .. Len(input) + 1 : input'[j] \in Foreign
      BY <3>1
    <3>3. ch \in Foreign /\ \A j \in 1 .. Len(input) : input[j] \in Foreign
      BY <3>1, <3>2
    <3>. QED
      BY <3>3 DEF Text
  <2>3. comp = None /\ syllables = <<>> /\ raw = <<>> /\ valid # 0 /\ output = input
    BY <2>2 DEF PassedOn
  <2>4. Typed(ch) = ch /\ ~IsJamo(ch)
    BY <2>2 DEF Foreign, Typed
  <2>5. FeedOther(ch)
    BY <2>1, <2>4 DEF FeedJamo
  <2>6. /\ output' = output \o Append(<<>>, ch)
        /\ comp' = None /\ syllables' = <<>> /\ raw' = <<>> /\ valid' # 0 /\ at' = at
    <3>1. ~FlushFails /\ Composed = <<>> /\ WordValid
      BY <1>1, <2>3
    <3>. QED
      BY <2>3, <2>4, <2>5, <3>1 DEF FeedOther, NewWord
  <2>7. output \o Append(<<>>, ch) = Append(input, ch)
    BY <2>1, <2>3 DEF Text
  <2>. QED
    BY <2>1, <2>6, <2>7
<1>3. CASE Finish
  <2>1. input' = input /\ at = "feeding"
    BY <1>3 DEF Finish
  <2>2. comp = None /\ syllables = <<>> /\ raw = <<>> /\ valid # 0 /\ output = input
    BY <2>1 DEF PassedOn
  <2>3. ~FlushFails /\ Composed = <<>> /\ WordValid
    BY <1>1, <2>2
  <2>4. output' = output \o <<>>
    BY <1>3, <2>2, <2>3 DEF Finish, WordText
  <2>5. at' = "done" /\ comp' = None /\ syllables' = <<>> /\ raw' = <<>> /\ valid' # 0
    BY <1>3, <2>2, <2>3 DEF Finish, NewWord
  <2>6. input \o <<>> = input
    BY Joining DEF Text
  <2>. QED
    BY <2>1, <2>2, <2>4, <2>5, <2>6
<1>4. CASE UNCHANGED vars
  BY <1>4 DEF vars, PassedOn
<1>. QED
  BY <1>2, <1>3, <1>4 DEF Next

\* For every keyboard and every table of letters as TablesAssumption has them,
\* for every word and whether it is typed by keys or by jamo: what
\* hannlp_hangul_to_keystrokes (isFullwidth = FALSE) or hannlp_hangul_to_jamos
\* makes of the word is composed to the word again, though a consonant that
\* begins a syllable is first taken for one that ends the syllable before it;
\* fullwidth keys come out as they are.
THEOREM WordsComeBack == Spec => []RoundTrip
<1>1. WordsKept /\ PassedOn => RoundTrip
  <2>. SUFFICES ASSUME WordsKept, PassedOn, at = "done"
                PROVE  /\ keystroke /\ input \in ByKeys => output \in Words /\ Keystrokes(output) = input
                       /\ keystroke /\ input \in ByWideKeys => output = input
                       /\ ~keystroke /\ input \in ByJamos => output \in Words /\ Jamos(output) = input
    BY DEF RoundTrip
  <2>1. ASSUME NEW m \in BOOLEAN, NEW w \in Words, keystroke = m, input = Spelled(m, w)
        PROVE  output = w
    BY <2>1 DEF WordsKept, Composing
  <2>2. keystroke = TRUE \/ keystroke = FALSE
    BY DEF WordsKept
  <2>3. ASSUME NEW w \in Words, input = WideKeystrokes(w) PROVE output = input
    <3>1. Seq(WideRange) \subseteq Seq(Foreign)
      BY WideForeign, SeqMonotonic
    <3>2. input \in Seq(Foreign)
      BY <2>3, <3>1, WideWord
    <3>. QED
      BY <3>2 DEF PassedOn
  <2>4. input \in ByWideKeys => output = input
    BY <2>3 DEF ByWideKeys
  <2>5. CASE keystroke = TRUE
    <3>1. ASSUME NEW w \in Words, input = Keystrokes(w) PROVE output = w
      BY <2>1, <2>5, <3>1, WordCodes
    <3>. QED
      BY <2>4, <2>5, <3>1 DEF ByKeys
  <2>6. CASE keystroke = FALSE
    <3>1. ASSUME NEW w \in Words, input = Jamos(w) PROVE output = w
      BY <2>1, <2>6, <3>1, WordCodes
    <3>. QED
      BY <2>4, <2>6, <3>1 DEF ByJamos
  <2>. QED
    BY <2>2, <2>4, <2>5, <2>6
<1>. QED
  BY <1>1, InitWordsKept, NextWordsKept, InitPassedOn, NextPassedOn, InputType, PTL DEF Spec

=============================================================================
