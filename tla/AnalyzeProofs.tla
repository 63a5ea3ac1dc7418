--------------------------- MODULE AnalyzeProofs ----------------------------
(***************************************************************************)
(* Proofs about Analyze, for texts of any length, every output mode and    *)
(* callback, and any number of calls on one handle.                        *)
(***************************************************************************)
EXTENDS Analyze, TLAPS

Pointers == {"null", "live", "dangling"}

Types ==
  /\ at \in {"idle", "filter", "split", "allocate", "candidates", "morph", "untagged", "result",
             "simplify", "cleanup"}
  /\ n \in 0 .. MaxTokens /\ i \in 1 .. (MaxTokens + 1)
  /\ at \in {"filter", "split", "allocate"} => i = 1
  /\ at = "candidates" => i <= n + 1
  /\ ptr \in [Blocks -> Pointers]
  /\ bad \in BOOLEAN /\ said \in BOOLEAN

\* The blocks p has are among L, and only pointers in D are to freed blocks.
Holds(p, L, D) ==
  \A b \in Blocks : (p[b] = "live" => b \in L) /\ (p[b] = "dangling" => b \in D)

\* The result is there as a whole or freed as a whole.
WholeResult(p) ==
  IF p[One("result")] = "live" THEN \A b \in OfResult : p[b] # "dangling"
                               ELSE \A b \in OfResult : p[b] # "live"

\* What the call has at each of its steps, and what it may have freed.
Filtered == {One("filtered")}
Prepared == Work \cup {One("result")}
Stages ==
  /\ at = "filter" => Holds(ptr, {}, {})
  /\ at = "split" => Holds(ptr, Filtered, {})
  /\ at = "allocate" => Holds(ptr, {One("tokens")}, Filtered)
  /\ at = "candidates" => Holds(ptr, SetsUpTo(i - 1) \cup Prepared, Filtered)
  /\ at = "result" => /\ Holds(ptr, SetsUpTo(n) \cup Prepared, Filtered)
                      /\ \A j \in 1 .. n : ptr[<<"set", j>>] = "live"
  /\ at \in {"morph", "simplify"} => Holds(ptr, SetsUpTo(n) \cup Work \cup OfResult, Filtered)
  /\ at \in {"candidates", "result", "morph", "simplify"} => ptr[One("result")] = "live"
  /\ at = "untagged" => Holds(ptr, {}, Blocks)
  /\ at = "cleanup" =>
       /\ Holds(ptr, SetsUpTo(n) \cup Work \cup OfResult, Filtered \cup OfResult)
       /\ WholeResult(ptr)
  /\ at = "idle" =>
       /\ Holds(ptr, OfResult, Blocks)
       /\ WholeResult(ptr)
       /\ returned = "null" => Holds(ptr, {}, Blocks)

\* FreedExactlyOnce speaks of the call's end; Stages of every step to it.
IInv == Types /\ Stages /\ ~bad

-----------------------------------------------------------------------------
\* Which blocks there are.
LEMMA BlockFacts ==
  ASSUME Types
  PROVE  /\ OfResult \subseteq Blocks /\ Work \subseteq Blocks /\ Prepared \subseteq Blocks
         /\ Filtered \subseteq Blocks /\ SetsUpTo(n) \subseteq Blocks
         /\ \A j \in 1 .. (i - 1) : j \in 1 .. n => <<"set", j>> \in Blocks
         /\ OfResult \cap Work = {} /\ OfResult \cap SetsUpTo(n) = {}
         /\ Filtered \cap (Work \cup OfResult \cup SetsUpTo(n)) = {}
         /\ One("result") \in OfResult
<1>1. n \in 0 .. MaxTokens /\ MaxTokens \in Nat
  BY AnalyzeAssumption DEF Types
<1>2. \A j \in 1 .. n : j \in Tokens
  BY <1>1 DEF Tokens
<1>. QED
  BY <1>2 DEF Prepared, Work, OfResult, Filtered, SetsUpTo, Blocks, Locals, One, Each

\* What is allocated is live, and nothing else changes.
LEMMA Allocation ==
  ASSUME NEW p \in [Blocks -> Pointers], NEW B
  PROVE  /\ Allocate(p, B) \in [Blocks -> Pointers]
         /\ \A b \in Blocks : Allocate(p, B)[b] = IF b \in B THEN "live" ELSE p[b]
  BY DEF Allocate, Pointers

\* What is freed is no longer live, and nothing else changes.
LEMMA Freeing ==
  ASSUME NEW p \in [Blocks -> Pointers], NEW B
  PROVE  /\ Free(p, B) \in [Blocks -> Pointers]
         /\ \A b \in Blocks : Free(p, B)[b] = IF b \in B /\ p[b] = "live" THEN "dangling" ELSE p[b]
  BY DEF Free, Pointers

\* A way out on which the call frees all it has, and what it has not freed
\* before, ends with nothing.
LEMMA FailFrees ==
  ASSUME Types, ~bad, NEW p \in [Blocks -> Pointers], NEW B, B \subseteq Blocks, NEW L, NEW D,
         Holds(p, L, D), L \subseteq B, B \cap D = {}, NEW next, FreeThen(p, B, next)
  PROVE  /\ ptr' \in [Blocks -> Pointers] /\ ~bad' /\ bad' \in BOOLEAN /\ at' = next
         /\ Holds(ptr', {}, Blocks)
<1>1. ~FreesAgain(p, B)
  BY DEF FreesAgain, Holds
<1>2. ptr' = Free(p, B)
  BY DEF FreeThen
<1>3. \A b \in Blocks : ptr'[b] # "live"
  BY <1>2, Freeing DEF Holds
<1>. QED
  BY <1>1, <1>2, <1>3, Freeing DEF FreeThen, Holds, Types

\* A call that has nothing when it ends is as it should be.
LEMMA EndsEmpty ==
  ASSUME Types, ptr' \in [Blocks -> Pointers], ~bad', bad' \in BOOLEAN, said' \in BOOLEAN,
         at' = "idle", Holds(ptr', {}, Blocks), UNCHANGED i, n' \in 0 .. MaxTokens
  PROVE  IInv'
<1>1. WholeResult(ptr')
  BY BlockFacts DEF WholeResult, Holds
<1>2. Types'
  BY DEF Types
<1>. QED
  BY <1>1, <1>2 DEF IInv, Stages, Holds

\* The session begins with nothing allocated.
LEMMA InitIInv == Init => IInv
<1>. SUFFICES ASSUME Init PROVE IInv
  OBVIOUS
<1>1. Types
  <2>1. ptr \in [Blocks -> Pointers]
    BY DEF Init, Pointers
  <2>2. n = 0 /\ i = 1 /\ MaxTokens \in Nat
    BY AnalyzeAssumption DEF Init
  <2>3. n \in 0 .. MaxTokens /\ i \in 1 .. (MaxTokens + 1)
    BY <2>2
  <2>. QED
    BY <2>1, <2>3 DEF Init, Types
<1>2. \A b \in Blocks : ptr[b] = "null"
  BY DEF Init
<1>3. One("result") \in Blocks /\ OfResult \subseteq Blocks
  BY <1>1, BlockFacts
<1>4. Stages
  BY <1>2, <1>3 DEF Init, Stages, Holds, WholeResult
<1>. QED
  BY <1>1, <1>4 DEF Init, IInv

-----------------------------------------------------------------------------
\* The caller's own steps.
LEMMA CallerSteps == IInv /\ (Call \/ CallWithoutText \/ DestroyResult) => IInv'
<1>. SUFFICES ASSUME IInv, Call \/ CallWithoutText \/ DestroyResult PROVE IInv'
  OBVIOUS
<1>1. CASE Call
  <2>1. ptr' = [b \in Blocks |-> "null"] /\ at' = "filter"
    BY <1>1 DEF Call, Begin
  <2>2. Types'
    <3>1. ptr' \in [Blocks -> Pointers]
      BY <2>1 DEF Pointers
    <3>2. n' \in 0 .. MaxTokens /\ i' \in 1 .. (MaxTokens + 1)
      BY <1>1, AnalyzeAssumption DEF Call, Begin
    <3>. QED
      BY <1>1, <3>1, <3>2 DEF Call, Begin, IInv, Types
  <2>3. Stages'
    BY <2>1 DEF Stages, Holds
  <2>. QED
    BY <1>1, <2>2, <2>3 DEF Call, Begin, IInv
<1>2. CASE DestroyResult
  <2>1. Types /\ ptr \in [Blocks -> Pointers] /\ OfResult \subseteq Blocks
    BY BlockFacts DEF IInv, Types
  <2>2. Holds(ptr, OfResult, Blocks \ OfResult)
    BY <1>2 DEF DestroyResult, IInv, Stages, Holds, WholeResult
  <2>3. /\ ptr' \in [Blocks -> Pointers] /\ ~bad' /\ bad' \in BOOLEAN
        /\ at' = "idle" /\ Holds(ptr', {}, Blocks)
    BY <1>2, <2>1, <2>2, FailFrees DEF DestroyResult, IInv
  <2>. QED
    BY <1>2, <2>1, <2>3, EndsEmpty DEF DestroyResult, Types
<1>3. CASE CallWithoutText
  <2>1. /\ ptr' = [b \in Blocks |-> "null"] /\ at' = "idle" /\ said' = FALSE
        /\ UNCHANGED <<n, i, bad>>
    BY <1>3 DEF CallWithoutText, Begin
  <2>2. ptr' \in [Blocks -> Pointers] /\ Holds(ptr', {}, Blocks)
    BY <2>1 DEF Pointers, Holds
  <2>3. Types /\ ~bad' /\ bad' \in BOOLEAN /\ n' \in 0 .. MaxTokens
    BY <2>1 DEF IInv, Types
  <2>. QED
    BY <2>1, <2>2, <2>3, EndsEmpty
<1>. QED
  BY <1>1, <1>2, <1>3

\* Filtering the text and splitting it.
LEMMA TextSteps == IInv /\ (Filter \/ Split) => IInv'
<1>. SUFFICES ASSUME IInv, Filter \/ Split PROVE IInv'
  OBVIOUS
<1>1. Types /\ ~bad /\ ptr \in [Blocks -> Pointers] /\ Filtered \subseteq Blocks
  BY BlockFacts DEF IInv, Types
<1>2. CASE Filter
  <2>1. Holds(ptr, {}, {})
    BY <1>2 DEF Filter, IInv, Stages
  <2>2. CASE Fail(ptr, {}, "failed to filter informal input")
    <3>1. FreeThen(ptr, {}, "idle") /\ {} \subseteq Blocks /\ {} \cap {} = {}
      BY <2>2 DEF Fail
    <3>2. /\ ptr' \in [Blocks -> Pointers] /\ ~bad' /\ bad' \in BOOLEAN
          /\ at' = "idle" /\ Holds(ptr', {}, Blocks)
      BY <1>1, <2>1, <3>1, FailFrees
    <3>. QED
      BY <1>1, <1>2, <3>2, EndsEmpty DEF Filter, Types
  <2>3. CASE ptr' = Allocate(ptr, Filtered) /\ at' = "split" /\ UNCHANGED bad
    <3>1. Types'
      BY <1>1, <1>2, <2>3, Allocation DEF Filter, Types
    <3>2. Holds(ptr', Filtered, {})
      <4>1. \A b \in Blocks : ptr'[b] = IF b \in Filtered THEN "live" ELSE ptr[b]
        BY <1>1, <2>3, Allocation
      <4>. QED
        BY <2>1, <4>1 DEF Holds
    <3>. QED
      BY <1>1, <2>3, <3>1, <3>2 DEF IInv, Stages
  <2>. QED
    BY <1>2, <2>2, <2>3 DEF Filter, Filtered
<1>3. CASE Split
  <2>. DEFINE T == {One("tokens")}
              p == Allocate(ptr, T)
  <2>1. p \in [Blocks -> Pointers] /\ \A b \in Blocks : p[b] = IF b \in T THEN "live" ELSE ptr[b]
    BY <1>1, Allocation
  <2>2. T \subseteq Blocks /\ T \cap Filtered = {}
    BY DEF Filtered, Blocks, Locals, One
  <2>3. Holds(ptr, Filtered, {})
    BY <1>3 DEF Split, IInv, Stages
  <2>4. Holds(p, Filtered \cup T, {})
    BY <2>1, <2>3 DEF Holds
  <2>. HIDE DEF p
  <2>5. CASE FreeThen(p, Filtered, "allocate") /\ n' \in 0 .. MaxTokens
    <3>1. ptr' = Free(p, Filtered) /\ ~bad' /\ bad' \in BOOLEAN /\ at' = "allocate"
      BY <1>1, <2>4, <2>5 DEF FreeThen, FreesAgain, Holds
    <3>2. Types'
      BY <1>1, <1>3, <2>1, <2>5, <3>1, Freeing DEF Split, Types
    <3>3. Holds(ptr', T, Filtered)
      BY <2>1, <2>2, <2>4, <3>1, Freeing DEF Holds
    <3>. QED
      BY <3>1, <3>2, <3>3 DEF IInv, Stages
  <2>6. CASE Fail(p, Filtered \cup T, "failed to split input") /\ UNCHANGED n
    <3>1. /\ ptr' \in [Blocks -> Pointers] /\ ~bad' /\ bad' \in BOOLEAN
          /\ at' = "idle" /\ Holds(ptr', {}, Blocks)
      BY <1>1, <2>1, <2>2, <2>4, <2>6, FailFrees DEF Fail
    <3>. QED
      BY <1>1, <1>3, <2>6, <3>1, EndsEmpty DEF Split, Types
  <2>7. Filtered \cup T = {One("filtered"), One("tokens")}
    BY DEF Filtered
  <2>. QED
    BY <1>3, <2>5, <2>6, <2>7 DEF Split, Filtered, p
<1>. QED
  BY <1>2, <1>3

\* The three allocations for the work, some of which may have been had.
LEMMA WorkStep == IInv /\ AllocateWork => IInv'
<1>. SUFFICES ASSUME IInv, AllocateWork PROVE IInv'
  OBVIOUS
<1>. DEFINE wanted == {One("result"), One("sets"), One("selected")}
            T == {One("tokens")}
<1>1. Types /\ ~bad /\ ptr \in [Blocks -> Pointers] /\ n \in 0 .. MaxTokens
  BY DEF IInv, Types
<1>2. Holds(ptr, T, Filtered) /\ at = "allocate"
  BY DEF AllocateWork, IInv, Stages
<1>3. /\ wanted \subseteq Blocks /\ T \subseteq Blocks /\ Prepared = wanted \cup T
      /\ (wanted \cup T) \cap Filtered = {} /\ One("result") \in Blocks
  BY DEF Blocks, Locals, OfResult, Prepared, Work, Filtered, One
<1>4. PICK got \in SUBSET wanted :
        IF got = wanted
        THEN ptr' = Allocate(ptr, got) /\ at' = "candidates" /\ UNCHANGED bad
        ELSE Fail(Allocate(ptr, got), wanted \cup T, "out of memory")
  BY DEF AllocateWork
<1>5. UNCHANGED <<n, i, said>>
  BY DEF AllocateWork
<1>. DEFINE p == Allocate(ptr, got)
<1>6. p \in [Blocks -> Pointers] /\ \A b \in Blocks : p[b] = IF b \in got THEN "live" ELSE ptr[b]
  BY <1>1, Allocation
<1>. HIDE DEF p, wanted, T
<1>7. Holds(p, wanted \cup T, Filtered)
  BY <1>2, <1>4, <1>6 DEF Holds
<1>8. CASE got = wanted
  <2>1. ptr' = p /\ at' = "candidates" /\ UNCHANGED bad
    BY <1>4, <1>8 DEF p
  <2>2. Types'
    <3>1. n' \in 0 .. MaxTokens /\ i' \in 1 .. (MaxTokens + 1)
      BY <1>1, <1>5 DEF Types
    <3>2. i <= n + 1
      BY <1>1, <1>2, AnalyzeAssumption DEF Types
    <3>. QED
      BY <1>1, <1>5, <1>6, <2>1, <3>1, <3>2 DEF Types
  <2>3. ptr'[One("result")] = "live"
    BY <1>3, <1>6, <1>8, <2>1 DEF wanted
  <2>4. Holds(ptr', SetsUpTo(i' - 1) \cup Prepared, Filtered)
    BY <1>3, <1>7, <2>1 DEF Holds
  <2>. QED
    BY <1>1, <2>1, <2>2, <2>3, <2>4 DEF IInv, Stages
<1>9. CASE got # wanted
  <2>1. Fail(p, wanted \cup T, "out of memory")
    BY <1>4, <1>9 DEF p
  <2>2. /\ ptr' \in [Blocks -> Pointers] /\ ~bad' /\ bad' \in BOOLEAN
        /\ at' = "idle" /\ Holds(ptr', {}, Blocks)
    BY <1>1, <1>3, <1>6, <1>7, <2>1, FailFrees DEF Fail
  <2>. QED
    BY <1>1, <1>5, <2>2, EndsEmpty DEF Types
<1>. QED
  BY <1>8, <1>9

\* One eojeol after the other gets its list of candidates.
LEMMA CandidatesStep == IInv /\ Candidates => IInv'
<1>. SUFFICES ASSUME IInv, Candidates PROVE IInv'
  OBVIOUS
<1>1. Types /\ ~bad /\ ptr \in [Blocks -> Pointers] /\ n \in 0 .. MaxTokens /\ at = "candidates"
  BY DEF Candidates, IInv, Types
<1>2. i \in Nat /\ n \in Nat /\ 1 <= i /\ i <= n /\ MaxTokens \in Nat /\ n <= MaxTokens
  <2>1. i <= n /\ i \in 1 .. (MaxTokens + 1)
    BY <1>1 DEF Candidates, Types
  <2>. QED
    BY <1>1, <2>1, AnalyzeAssumption
<1>3. Holds(ptr, SetsUpTo(i - 1) \cup Prepared, Filtered) /\ ptr[One("result")] = "live"
  BY <1>1 DEF IInv, Stages
<1>4. UNCHANGED n /\ said' \in BOOLEAN
  BY <1>1 DEF Candidates, Answers, Types
<1>5. CASE /\ Fail(ptr, SetsUpTo(i - 1) \cup Work \cup {One("result")}, "analysis interrupted")
           /\ UNCHANGED i
  <2>1. SetsUpTo(i - 1) \subseteq SetsUpTo(n)
    BY <1>2 DEF SetsUpTo
  <2>2. /\ SetsUpTo(i - 1) \cup Prepared \subseteq Blocks
        /\ (SetsUpTo(i - 1) \cup Prepared) \cap Filtered = {}
    BY <1>1, <2>1, BlockFacts DEF Prepared
  <2>3. FreeThen(ptr, SetsUpTo(i - 1) \cup Prepared, "idle")
    BY <1>5 DEF Fail, Prepared
  <2>4. /\ ptr' \in [Blocks -> Pointers] /\ ~bad' /\ bad' \in BOOLEAN
        /\ at' = "idle" /\ Holds(ptr', {}, Blocks)
    BY <1>1, <1>3, <2>2, <2>3, FailFrees
  <2>. QED
    BY <1>1, <1>4, <1>5, <2>4, EndsEmpty
<1>6. CASE /\ \E found \in BOOLEAN : ptr' = Allocate(ptr, IF found THEN {<<"set", i>>} ELSE {})
           /\ i' = i + 1 /\ UNCHANGED <<at, bad>>
  <2>1. PICK B \in SUBSET {<<"set", i>>} : ptr' = Allocate(ptr, B)
    BY <1>6
  <2>2. /\ ptr' \in [Blocks -> Pointers]
        /\ \A b \in Blocks : ptr'[b] = IF b \in B THEN "live" ELSE ptr[b]
    BY <1>1, <2>1, Allocation
  <2>3. B \subseteq SetsUpTo(i) /\ SetsUpTo(i - 1) \subseteq SetsUpTo(i)
    BY <1>2 DEF SetsUpTo
  <2>4. Holds(ptr', SetsUpTo(i) \cup Prepared, Filtered)
    BY <1>3, <2>2, <2>3 DEF Holds
  <2>5. i' - 1 = i /\ i' \in 1 .. (MaxTokens + 1) /\ i' <= n + 1
    BY <1>2, <1>6
  <2>6. Types'
    BY <1>1, <1>4, <1>6, <2>2, <2>5 DEF Types
  <2>7. ptr'[One("result")] = "live"
    BY <1>1, <1>3, <2>2, BlockFacts
  <2>. QED
    BY <1>1, <1>6, <2>4, <2>5, <2>6, <2>7 DEF IInv, Stages
<1>. QED
  BY <1>5, <1>6 DEF Candidates

-----------------------------------------------------------------------------
\* All that a call may have once the candidates are found.
Everything == SetsUpTo(n) \cup Work \cup OfResult

\* After the last eojeol every list that was made is accounted for.
LEMMA AllFound ==
  ASSUME IInv, at = "candidates", i > n
  PROVE  Holds(ptr, SetsUpTo(n) \cup Prepared, Filtered)
<1>1. i \in 1 .. (MaxTokens + 1) /\ i <= n + 1 /\ n \in 0 .. MaxTokens
  BY DEF IInv, Types
<1>2. i - 1 = n
  BY <1>1, AnalyzeAssumption
<1>3. Holds(ptr, SetsUpTo(i - 1) \cup Prepared, Filtered)
  BY DEF IInv, Stages
<1>. QED
  BY <1>2, <1>3

\* A way out on which everything is freed ends with nothing.
LEMMA EverythingFreed ==
  ASSUME Types, ~bad, NEW p \in [Blocks -> Pointers], Holds(p, Everything, Filtered), NEW next,
         FreeThen(p, OfResult \cup SetsUpTo(n) \cup Work, next)
  PROVE  /\ ptr' \in [Blocks -> Pointers] /\ ~bad' /\ bad' \in BOOLEAN /\ at' = next
         /\ Holds(ptr', {}, Blocks)
<1>1. Everything \subseteq Blocks /\ Everything \cap Filtered = {}
  BY BlockFacts DEF Everything
<1>2. FreeThen(p, Everything, next)
  BY DEF Everything
<1>. QED
  BY <1>1, <1>2, FailFrees

\* A result that is given up is freed as a whole, and the rest kept for the
\* end both ways have in common.
LEMMA ResultDropped ==
  ASSUME Types, ~bad, NEW p \in [Blocks -> Pointers], Holds(p, Everything, Filtered),
         FreeThen(p, OfResult, "cleanup")
  PROVE  /\ ptr' \in [Blocks -> Pointers] /\ ~bad' /\ bad' \in BOOLEAN /\ at' = "cleanup"
         /\ Holds(ptr', Everything, Filtered \cup OfResult) /\ WholeResult(ptr')
<1>1. ptr' = Free(p, OfResult) /\ at' = "cleanup"
  BY DEF FreeThen
<1>2. OfResult \subseteq Blocks /\ OfResult \cap Filtered = {} /\ One("result") \in OfResult
  BY BlockFacts
<1>3. ~FreesAgain(p, OfResult)
  BY <1>2 DEF FreesAgain, Holds
<1>4. /\ ptr' \in [Blocks -> Pointers]
      /\ \A b \in Blocks : ptr'[b] = IF b \in OfResult /\ p[b] = "live" THEN "dangling" ELSE p[b]
  BY <1>1, Freeing
<1>5. Holds(ptr', Everything, Filtered \cup OfResult)
  BY <1>4 DEF Holds
<1>6. WholeResult(ptr')
  BY <1>2, <1>4 DEF WholeResult
<1>. QED
  BY <1>1, <1>3, <1>4, <1>5, <1>6 DEF FreeThen, Types

\* The steps of the modes that skip the tagger.
LEMMA MorphSteps == IInv /\ (AllocateMorph \/ CopyMorph \/ EndMorph) => IInv'
<1>. SUFFICES ASSUME IInv, AllocateMorph \/ CopyMorph \/ EndMorph PROVE IInv'
  OBVIOUS
<1>. USE DEF Everything
<1>1. Types /\ ~bad /\ ptr \in [Blocks -> Pointers] /\ n \in 0 .. MaxTokens /\ MaxTokens \in Nat
  BY AnalyzeAssumption DEF IInv, Types
<1>2. Prepared \subseteq Work \cup OfResult /\ One("result") \in OfResult /\ OfResult \subseteq Blocks
  BY <1>1, BlockFacts DEF Prepared
<1>3. UNCHANGED <<n, said>>
  BY DEF AllocateMorph, CopyMorph, EndMorph
<1>4. CASE AllocateMorph
  <2>. DEFINE wanted == {One("plain"), One("out")}
  <2>1. PICK got \in SUBSET wanted :
          IF got = wanted
          THEN ptr' = Allocate(ptr, got) /\ at' = "morph" /\ i' = 1 /\ UNCHANGED bad
          ELSE /\ Fail(Allocate(ptr, got), OfResult \cup SetsUpTo(n) \cup Work, "out of memory")
               /\ UNCHANGED i
    BY <1>4 DEF AllocateMorph
  <2>. DEFINE p == Allocate(ptr, got)
  <2>2. p \in [Blocks -> Pointers] /\ \A b \in Blocks : p[b] = IF b \in got THEN "live" ELSE ptr[b]
    BY <1>1, Allocation
  <2>3. wanted \subseteq OfResult
    BY DEF OfResult
  <2>. HIDE DEF p, wanted
  <2>4. Holds(ptr, SetsUpTo(n) \cup Prepared, Filtered) /\ ptr[One("result")] = "live"
    BY <1>4, AllFound DEF AllocateMorph, IInv, Stages
  <2>5. Holds(p, Everything, Filtered)
    BY <1>2, <2>2, <2>3, <2>4 DEF Holds
  <2>6. CASE got = wanted
    <3>1. ptr' = p /\ at' = "morph" /\ i' = 1 /\ UNCHANGED bad
      BY <2>1, <2>6 DEF p
    <3>2. i' \in 1 .. (MaxTokens + 1)
      BY <1>1, <3>1
    <3>3. Types'
      BY <1>1, <1>3, <2>2, <3>1, <3>2 DEF Types
    <3>4. ptr'[One("result")] = "live"
      BY <1>2, <2>2, <2>4, <3>1
    <3>. QED
      BY <1>1, <1>3, <2>5, <3>1, <3>3, <3>4 DEF IInv, Stages, SetsUpTo
  <2>7. CASE got # wanted
    <3>1. FreeThen(p, OfResult \cup SetsUpTo(n) \cup Work, "idle") /\ UNCHANGED i
      BY <2>1, <2>7 DEF Fail, p
    <3>2. /\ ptr' \in [Blocks -> Pointers] /\ ~bad' /\ bad' \in BOOLEAN
          /\ at' = "idle" /\ Holds(ptr', {}, Blocks)
      BY <1>1, <2>2, <2>5, <3>1, EverythingFreed
    <3>. QED
      BY <1>1, <1>3, <3>1, <3>2, EndsEmpty DEF Types
  <2>. QED
    BY <2>6, <2>7
<1>5. CASE CopyMorph
  <2>1. PICK made \in SUBSET {<<"plain", i>>, <<"out", i>>} :
          LET p == Allocate(ptr, made)
          IN  \/ ptr' = p /\ i' = i + 1 /\ UNCHANGED <<at, bad>>
              \/ FreeThen(p, OfResult, "cleanup") /\ UNCHANGED i
    BY <1>5 DEF CopyMorph
  <2>. DEFINE p == Allocate(ptr, made)
  <2>2. p \in [Blocks -> Pointers] /\ \A b \in Blocks : p[b] = IF b \in made THEN "live" ELSE ptr[b]
    BY <1>1, Allocation
  <2>3. i <= n /\ i \in 1 .. (MaxTokens + 1) /\ at = "morph"
    BY <1>1, <1>5 DEF CopyMorph, Types
  <2>4. i \in Tokens /\ i + 1 \in 1 .. (MaxTokens + 1)
    BY <1>1, <2>3 DEF Tokens
  <2>5. made \subseteq OfResult
    BY <2>4 DEF OfResult, Each
  <2>6. Holds(ptr, Everything, Filtered) /\ ptr[One("result")] = "live"
    BY <2>3 DEF IInv, Stages
  <2>. HIDE DEF p
  <2>7. Holds(p, Everything, Filtered)
    BY <2>2, <2>5, <2>6 DEF Holds
  <2>8. CASE ptr' = p /\ i' = i + 1 /\ UNCHANGED <<at, bad>>
    <3>1. Types'
      BY <1>1, <1>3, <2>2, <2>3, <2>4, <2>8 DEF Types
    <3>2. ptr'[One("result")] = "live"
      BY <1>2, <2>2, <2>6, <2>8
    <3>. QED
      BY <1>1, <1>3, <2>3, <2>7, <2>8, <3>1, <3>2 DEF IInv, Stages, SetsUpTo
  <2>9. CASE FreeThen(p, OfResult, "cleanup") /\ UNCHANGED i
    <3>1. /\ ptr' \in [Blocks -> Pointers] /\ ~bad' /\ bad' \in BOOLEAN /\ at' = "cleanup"
          /\ Holds(ptr', Everything, Filtered \cup OfResult) /\ WholeResult(ptr')
      BY <1>1, <2>2, <2>7, <2>9, ResultDropped
    <3>2. Types'
      BY <1>1, <1>3, <2>9, <3>1 DEF Types
    <3>. QED
      BY <1>3, <3>1, <3>2 DEF IInv, Stages, SetsUpTo
  <2>. QED
    BY <2>1, <2>8, <2>9 DEF p
<1>6. CASE EndMorph
  <2>1. at = "morph" /\ at' = "cleanup" /\ UNCHANGED <<n, i, ptr, bad, said>>
    BY <1>6 DEF EndMorph
  <2>2. Holds(ptr, Everything, Filtered) /\ ptr[One("result")] = "live"
    BY <2>1 DEF IInv, Stages
  <2>3. \A b \in OfResult : b \notin Filtered
    BY <1>1, BlockFacts
  <2>4. WholeResult(ptr)
    BY <1>2, <2>2, <2>3 DEF WholeResult, Holds
  <2>5. Holds(ptr, Everything, Filtered \cup OfResult)
    BY <2>2 DEF Holds
  <2>6. Types'
    BY <1>1, <2>1 DEF Types
  <2>. QED
    BY <1>1, <2>1, <2>4, <2>5, <2>6 DEF IInv, Stages, SetsUpTo
<1>. QED
  BY <1>4, <1>5, <1>6

\* The tagger, and the question why it has failed.
LEMMA TagSteps == IInv /\ (Tag \/ Untagged) => IInv'
<1>. SUFFICES ASSUME IInv, Tag \/ Untagged PROVE IInv'
  OBVIOUS
<1>1. Types /\ ~bad /\ ptr \in [Blocks -> Pointers] /\ n \in 0 .. MaxTokens
  BY DEF IInv, Types
<1>2. UNCHANGED <<n, i>>
  BY DEF Tag, Untagged
<1>3. CASE Tag
  <2>1. Holds(ptr, SetsUpTo(n) \cup Prepared, Filtered) /\ ptr[One("result")] = "live"
    BY <1>3, AllFound DEF Tag, IInv, Stages
  <2>2. CASE at' = "result" /\ UNCHANGED <<ptr, bad, said>>
    <3>1. \A j \in 1 .. n : ptr[<<"set", j>>] = "live"
      BY <1>3, <2>2 DEF Tag, FreeThen
    <3>2. Types'
      BY <1>1, <1>2, <2>2 DEF Types
    <3>. QED
      BY <1>1, <1>2, <2>1, <2>2, <3>1, <3>2 DEF IInv, Stages, SetsUpTo
  <2>3. CASE /\ FreeThen(ptr, SetsUpTo(n) \cup Work \cup {One("result")}, "untagged")
             /\ \E says \in Answers : said' = (said \/ says)
    <3>1. /\ SetsUpTo(n) \cup Prepared \subseteq Blocks
          /\ (SetsUpTo(n) \cup Prepared) \cap Filtered = {}
      BY <1>1, BlockFacts DEF Prepared
    <3>2. FreeThen(ptr, SetsUpTo(n) \cup Prepared, "untagged")
      BY <2>3 DEF Prepared
    <3>3. /\ ptr' \in [Blocks -> Pointers] /\ ~bad' /\ bad' \in BOOLEAN /\ at' = "untagged"
          /\ Holds(ptr', {}, Blocks)
      BY <1>1, <2>1, <3>1, <3>2, FailFrees
    <3>4. said' \in BOOLEAN
      BY <1>1, <2>3 DEF Answers, Types
    <3>5. Types'
      BY <1>1, <1>2, <3>3, <3>4 DEF Types
    <3>. QED
      BY <3>3, <3>5 DEF IInv, Stages
  <2>. QED
    BY <1>3, <2>2, <2>3 DEF Tag
<1>4. CASE Untagged
  <2>1. Holds(ptr, {}, Blocks) /\ FreeThen(ptr, {}, "idle")
    BY <1>4 DEF Untagged, Fail, IInv, Stages
  <2>2. {} \subseteq Blocks /\ {} \cap Blocks = {}
    OBVIOUS
  <2>3. /\ ptr' \in [Blocks -> Pointers] /\ ~bad' /\ bad' \in BOOLEAN /\ at' = "idle"
        /\ Holds(ptr', {}, Blocks)
    BY <1>1, <2>1, <2>2, FailFrees
  <2>4. said' \in BOOLEAN
    BY <1>1, <1>4 DEF Untagged, Answers, Types
  <2>. QED
    BY <1>1, <1>2, <2>3, <2>4, EndsEmpty
<1>. QED
  BY <1>3, <1>4

\* The tagged result is copied and reworked, and the rest freed.
LEMMA ResultSteps == IInv /\ (MakeResult \/ Simplify \/ Cleanup) => IInv'
<1>. SUFFICES ASSUME IInv, MakeResult \/ Simplify \/ Cleanup PROVE IInv'
  OBVIOUS
<1>. USE DEF Everything
<1>1. Types /\ ~bad /\ ptr \in [Blocks -> Pointers] /\ n \in 0 .. MaxTokens /\ MaxTokens \in Nat
  BY AnalyzeAssumption DEF IInv, Types
<1>2. Prepared \subseteq Work \cup OfResult /\ One("result") \in OfResult /\ OfResult \subseteq Blocks
  BY <1>1, BlockFacts DEF Prepared
<1>3. UNCHANGED <<n, i, said>>
  BY DEF MakeResult, Simplify, Cleanup
<1>4. CASE MakeResult
  <2>. DEFINE wanted == {One("plain"), One("out")}
              copies == {"plain", "out"} \X (1 .. n)
  <2>1. at = "result" /\ Holds(ptr, SetsUpTo(n) \cup Prepared, Filtered)
        /\ ptr[One("result")] = "live" /\ \A j \in 1 .. n : ptr[<<"set", j>>] = "live"
    BY <1>4 DEF MakeResult, IInv, Stages
  <2>2. wanted \subseteq OfResult
    BY DEF OfResult
  <2>3. copies \subseteq OfResult
    <3>1. \A j \in 1 .. n : j \in Tokens
      BY <1>1 DEF Tokens
    <3>. QED
      BY <3>1 DEF OfResult, Each
  <2>4. PICK B \in SUBSET OfResult :
          \/ ptr' = Allocate(ptr, B) /\ at' = "simplify" /\ ~bad' /\ bad' \in BOOLEAN
          \/ FreeThen(Allocate(ptr, B), OfResult \cup SetsUpTo(n) \cup Work, "idle")
    <3>1. PICK got \in SUBSET wanted :
            IF got = wanted
            THEN \E copied \in SUBSET copies :
                   /\ ptr' = Allocate(ptr, got \cup copied)
                   /\ bad' = (bad \/ \E j \in 1 .. n : ptr[<<"set", j>>] # "live")
                   /\ at' = "simplify"
            ELSE Fail(Allocate(ptr, got), OfResult \cup SetsUpTo(n) \cup Work, "out of memory")
      BY <1>4 DEF MakeResult
    <3>. HIDE DEF wanted, copies
    <3>2. CASE got = wanted
      <4>1. PICK copied \in SUBSET copies :
              /\ ptr' = Allocate(ptr, got \cup copied)
              /\ bad' = (bad \/ \E j \in 1 .. n : ptr[<<"set", j>>] # "live")
              /\ at' = "simplify"
        BY <3>1, <3>2
      <4>2. got \cup copied \in SUBSET OfResult
        BY <2>2, <2>3
      <4>3. ~bad' /\ bad' \in BOOLEAN
        BY <1>1, <2>1, <4>1 DEF Types
      <4>. QED
        BY <4>1, <4>2, <4>3
    <3>3. CASE got # wanted
      <4>1. FreeThen(Allocate(ptr, got), OfResult \cup SetsUpTo(n) \cup Work, "idle")
        BY <3>1, <3>3 DEF Fail
      <4>2. got \in SUBSET OfResult
        BY <2>2
      <4>. QED
        BY <4>1, <4>2
    <3>. QED
      BY <3>2, <3>3
  <2>. DEFINE p == Allocate(ptr, B)
  <2>5. p \in [Blocks -> Pointers] /\ \A b \in Blocks : p[b] = IF b \in B THEN "live" ELSE ptr[b]
    BY <1>1, Allocation
  <2>. HIDE DEF p, wanted, copies
  <2>6. Holds(p, Everything, Filtered) /\ p[One("result")] = "live"
    BY <1>2, <2>1, <2>4, <2>5 DEF Holds
  <2>7. CASE ptr' = p /\ at' = "simplify" /\ ~bad' /\ bad' \in BOOLEAN
    <3>1. Types'
      BY <1>1, <1>3, <2>5, <2>7 DEF Types
    <3>. QED
      BY <1>3, <2>6, <2>7, <3>1 DEF IInv, Stages, SetsUpTo
  <2>8. CASE FreeThen(p, OfResult \cup SetsUpTo(n) \cup Work, "idle")
    <3>1. /\ ptr' \in [Blocks -> Pointers] /\ ~bad' /\ bad' \in BOOLEAN
          /\ at' = "idle" /\ Holds(ptr', {}, Blocks)
      BY <1>1, <2>5, <2>6, <2>8, EverythingFreed
    <3>. QED
      BY <1>1, <1>3, <3>1, EndsEmpty DEF Types
  <2>. QED
    BY <2>4, <2>7, <2>8 DEF p
<1>5. CASE Simplify
  <2>1. at = "simplify" /\ Holds(ptr, Everything, Filtered) /\ ptr[One("result")] = "live"
    BY <1>5 DEF Simplify, IInv, Stages
  <2>2. CASE at' = "cleanup" /\ UNCHANGED <<ptr, bad>>
    <3>1. \A b \in OfResult : b \notin Filtered
      BY <1>1, BlockFacts
    <3>2. WholeResult(ptr) /\ Holds(ptr, Everything, Filtered \cup OfResult)
      BY <1>2, <2>1, <3>1 DEF WholeResult, Holds
    <3>3. Types'
      BY <1>1, <1>3, <2>2 DEF Types
    <3>. QED
      BY <1>1, <1>3, <2>2, <3>2, <3>3 DEF IInv, Stages, SetsUpTo
  <2>3. CASE FreeThen(ptr, OfResult, "cleanup")
    <3>1. /\ ptr' \in [Blocks -> Pointers] /\ ~bad' /\ bad' \in BOOLEAN /\ at' = "cleanup"
          /\ Holds(ptr', Everything, Filtered \cup OfResult) /\ WholeResult(ptr')
      BY <1>1, <2>1, <2>3, ResultDropped
    <3>2. Types'
      BY <1>1, <1>3, <3>1 DEF Types
    <3>. QED
      BY <1>3, <3>1, <3>2 DEF IInv, Stages, SetsUpTo
  <2>. QED
    BY <1>5, <2>2, <2>3 DEF Simplify
<1>6. CASE Cleanup
  <2>. DEFINE B == SetsUpTo(n) \cup Work
  <2>1. at = "cleanup" /\ Holds(ptr, B \cup OfResult, Filtered \cup OfResult) /\ WholeResult(ptr)
    BY <1>6 DEF Cleanup, IInv, Stages
  <2>2. FreeThen(ptr, B, "idle") /\ returned' = IF ptr[One("result")] = "live" THEN "result" ELSE "null"
    BY <1>6 DEF Cleanup
  <2>3. B \subseteq Blocks /\ B \cap OfResult = {} /\ B \cap Filtered = {}
    BY <1>1, BlockFacts
  <2>. HIDE DEF B
  <2>4. ~FreesAgain(ptr, B) /\ ptr' = Free(ptr, B) /\ at' = "idle"
    BY <2>1, <2>2, <2>3 DEF FreesAgain, FreeThen, Holds
  <2>5. ~bad' /\ bad' \in BOOLEAN
    BY <1>1, <2>2, <2>4 DEF FreeThen, Types
  <2>6. /\ ptr' \in [Blocks -> Pointers]
        /\ \A b \in Blocks : ptr'[b] = IF b \in B /\ ptr[b] = "live" THEN "dangling" ELSE ptr[b]
    BY <1>1, <2>4, Freeing
  <2>7. Types'
    BY <1>1, <1>3, <2>4, <2>5, <2>6 DEF Types
  <2>8. \A b \in OfResult : ptr'[b] = ptr[b]
    BY <1>2, <2>3, <2>6
  <2>9. Holds(ptr', OfResult, Blocks) /\ WholeResult(ptr')
    BY <1>2, <2>1, <2>6, <2>8 DEF Holds, WholeResult
  <2>10. returned' = "null" => Holds(ptr', {}, Blocks)
    BY <1>2, <2>2, <2>8, <2>9 DEF Holds, WholeResult
  <2>. QED
    BY <2>4, <2>5, <2>7, <2>9, <2>10 DEF IInv, Stages
<1>. QED
  BY <1>4, <1>5, <1>6

\* No step of a call or of its caller loses a block or frees one again.
LEMMA NextIInv == IInv /\ [Next]_vars => IInv'
<1>1. ASSUME IInv, UNCHANGED vars PROVE IInv'
  BY <1>1 DEF IInv, Types, Stages, vars, SetsUpTo
<1>. QED
  BY <1>1, CallerSteps, TextSteps, WorkStep, CandidatesStep, MorphSteps, TagSteps, ResultSteps DEF Next

\* The stages hold in every session.
LEMMA IInvHolds == Spec => []IInv
  BY InitIInv, NextIInv, PTL DEF Spec

\* For texts of any length, in every mode, whatever allocation fails and
\* wherever the callback says stop: hannanum_analyze frees no block twice,
\* copies from none it has freed, and leaves nothing but a whole result.
THEOREM MemoryCorrect == Spec => []FreedExactlyOnce
<1>1. IInv => FreedExactlyOnce
  <2>. SUFFICES ASSUME IInv PROVE FreedExactlyOnce
    OBVIOUS
  <2>1. OfResult \subseteq Blocks
    BY BlockFacts DEF IInv
  <2>. QED
    BY <2>1 DEF IInv, Stages, FreedExactlyOnce, Holds, WholeResult, Live
<1>. QED
  BY <1>1, IInvHolds, PTL

-----------------------------------------------------------------------------
\* What is known of the callback's answers and of the message on the way to
\* the end: a call that was told to stop is at its end or about to ask once
\* more, and a result that was given up has left its reason.
Told ==
  /\ said \in BOOLEAN
  /\ said => at \in {"untagged", "idle"}
  /\ at = "cleanup" /\ ptr[One("result")] # "live" =>
       error[2] = call /\ error[1] # "analysis interrupted"
  /\ FailureSetsError /\ InterruptAborts

\* The parts of a message.
LEMMA Parts ==
  ASSUME NEW message, error' = <<message, call>>
  PROVE  error'[1] = message /\ error'[2] = call
  OBVIOUS

\* A message that does not blame the callback.
LEMMA ReasonOfItsOwn ==
  ASSUME NEW message, message # "analysis interrupted"
  PROVE  error' = <<message, call>> => error'[2] = call /\ error'[1] # "analysis interrupted"
  BY Parts

\* A call that fails without having been told to stop gives its own reason.
LEMMA FailsWithReason ==
  ASSUME Told, said' = FALSE, NEW p, NEW B, NEW message, message # "analysis interrupted",
         Fail(p, B, message), UNCHANGED <<call, callback>>
  PROVE  Told'
  BY DEF Told, Fail, FreeThen, FailureSetsError, InterruptAborts

\* A call that fails because it was told to stop says so.
LEMMA FailsInterrupted ==
  ASSUME said' = TRUE, NEW p, NEW B, Fail(p, B, "analysis interrupted"), UNCHANGED <<call, callback>>
  PROVE  Told'
  BY DEF Told, Fail, FreeThen, FailureSetsError, InterruptAborts

\* Every way out is one of these, or brings the result.
LEMMA NextTold == IInv /\ Told /\ [Next]_vars => Told'
<1>. SUFFICES ASSUME IInv, Told, [Next]_vars PROVE Told'
  OBVIOUS
<1>. USE DEF FreeThen
<1>1. said \in BOOLEAN /\ (said => at \in {"untagged", "idle"})
  BY DEF Told
<1>2. CASE Call \/ CallWithoutText
  BY <1>2 DEF Call, CallWithoutText, Begin, Told, FailureSetsError, InterruptAborts
<1>3. CASE DestroyResult
  BY <1>3 DEF DestroyResult, Told, FailureSetsError, InterruptAborts
<1>4. CASE Filter
  <2>1. said' = FALSE /\ UNCHANGED <<call, callback>>
    BY <1>1, <1>4 DEF Filter
  <2>2. at' = "split" \/ Fail(ptr, {}, "failed to filter informal input")
    BY <1>4 DEF Filter
  <2>. QED
    BY <2>1, <2>2, FailsWithReason DEF Told, FailureSetsError, InterruptAborts
<1>5. CASE Split
  <2>1. said' = FALSE /\ UNCHANGED <<call, callback>>
    BY <1>1, <1>5 DEF Split
  <2>2. \/ at' = "allocate"
        \/ Fail(Allocate(ptr, {One("tokens")}), {One("filtered"), One("tokens")},
                "failed to split input")
    BY <1>5 DEF Split
  <2>. QED
    BY <2>1, <2>2, FailsWithReason DEF Told, FailureSetsError, InterruptAborts
<1>6. CASE AllocateWork
  <2>1. said' = FALSE /\ UNCHANGED <<call, callback>>
    BY <1>1, <1>6 DEF AllocateWork
  <2>2. \/ at' = "candidates"
        \/ \E p, B : Fail(p, B, "out of memory")
    BY <1>6 DEF AllocateWork
  <2>. QED
    BY <2>1, <2>2, FailsWithReason DEF Told, FailureSetsError, InterruptAborts
<1>7. CASE Candidates
  <2>1. UNCHANGED <<call, callback>> /\ ~said /\ at = "candidates"
    BY <1>1, <1>7 DEF Candidates
  <2>2. \/ said' = TRUE /\ \E B : Fail(ptr, B, "analysis interrupted")
        \/ said' = FALSE /\ at' = at
    BY <1>7, <2>1 DEF Candidates, Answers
  <2>. QED
    BY <2>1, <2>2, FailsInterrupted DEF Told, FailureSetsError, InterruptAborts
<1>8. CASE AllocateMorph
  <2>1. said' = FALSE /\ UNCHANGED <<call, callback>>
    BY <1>1, <1>8 DEF AllocateMorph
  <2>2. at' = "morph" \/ \E p, B : Fail(p, B, "out of memory")
    BY <1>8 DEF AllocateMorph
  <2>. QED
    BY <2>1, <2>2, FailsWithReason DEF Told, FailureSetsError, InterruptAborts
<1>9. CASE CopyMorph \/ Simplify
  <2>1. said' = FALSE /\ UNCHANGED <<call, callback>> /\ at \in {"morph", "simplify"}
    BY <1>1, <1>9 DEF CopyMorph, Simplify
  <2>2. \/ at' \in {"morph"}
        \/ /\ at' = "cleanup"
           /\ \/ UNCHANGED ptr /\ ptr[One("result")] = "live"
              \/ /\ error'[2] = call
                 /\ error'[1] # "analysis interrupted"
    <3>1. ptr[One("result")] = "live"
      BY <2>1 DEF IInv, Stages
    <3>2. CASE CopyMorph
      <4>1. at = "morph" /\ \/ at' = at
                            \/ at' = "cleanup" /\ error' = <<"failed to produce simple MA result", call>>
        BY <3>2 DEF CopyMorph
      <4>. QED
        BY <4>1, ReasonOfItsOwn
    <3>3. CASE Simplify
      <4>1. at' = "cleanup" /\ (UNCHANGED ptr \/ error' = <<"failed to simplify", call>>)
        BY <3>3 DEF Simplify
      <4>. QED
        BY <3>1, <4>1, ReasonOfItsOwn
    <3>. QED
      BY <1>9, <3>2, <3>3
  <2>. QED
    BY <2>1, <2>2 DEF Told, FailureSetsError, InterruptAborts
<1>10. CASE EndMorph
  BY <1>1, <1>10 DEF EndMorph, IInv, Stages, Told, FailureSetsError, InterruptAborts
<1>11. CASE Tag
  <2>1. ~said /\ UNCHANGED <<call, callback, error>> /\ at' \in {"result", "untagged"}
    BY <1>1, <1>11 DEF Tag
  <2>2. said' \in BOOLEAN /\ (at' = "result" => ~said')
    <3>1. CASE at' = "result"
      BY <1>1, <1>11, <2>1, <3>1 DEF Tag
    <3>2. CASE at' = "untagged"
      <4>1. \E says \in Answers : said' = (said \/ says)
        BY <1>11, <3>2 DEF Tag
      <4>. QED
        BY <2>1, <3>2, <4>1 DEF Answers
    <3>. QED
      BY <2>1, <3>1, <3>2
  <2>. QED
    BY <2>1, <2>2 DEF Told, FailureSetsError, InterruptAborts
<1>12. CASE Untagged
  <2>1. PICK says \in Answers :
          /\ said' = (said \/ says)
          /\ Fail(ptr, {}, IF says THEN "analysis interrupted" ELSE "failed to select best candidate")
    BY <1>12 DEF Untagged
  <2>2. UNCHANGED <<call, callback>> /\ at' = "idle" /\ returned' = "null" /\ says \in BOOLEAN
    BY <1>12, <2>1 DEF Untagged, Fail, Answers
  <2>3. callback = "latching" /\ said => says
    BY <2>1 DEF Answers
  <2>4. error' = <<IF says THEN "analysis interrupted" ELSE "failed to select best candidate", call>>
    BY <2>1 DEF Fail
  <2>. QED
    BY <1>1, <2>1, <2>2, <2>3, <2>4 DEF Told, FailureSetsError, InterruptAborts
<1>13. CASE MakeResult
  <2>1. said' = FALSE /\ UNCHANGED <<call, callback>>
    BY <1>1, <1>13 DEF MakeResult
  <2>2. at' = "simplify" \/ \E p, B : Fail(p, B, "out of memory")
    BY <1>13 DEF MakeResult
  <2>. QED
    BY <2>1, <2>2, FailsWithReason DEF Told, FailureSetsError, InterruptAborts
<1>14. CASE Cleanup
  <2>1. /\ said' = FALSE /\ at = "cleanup" /\ at' = "idle" /\ UNCHANGED <<call, callback, error>>
        /\ returned' = IF ptr[One("result")] = "live" THEN "result" ELSE "null"
    BY <1>1, <1>14 DEF Cleanup
  <2>. QED
    BY <2>1 DEF Told, FailureSetsError, InterruptAborts
<1>15. CASE UNCHANGED vars
  BY <1>15 DEF vars, Told, FailureSetsError, InterruptAborts
<1>. QED
  BY <1>2, <1>3, <1>4, <1>5, <1>6, <1>7, <1>8, <1>9, <1>10, <1>11, <1>12, <1>13, <1>14, <1>15 DEF Next

\* What is told holds in every session.
LEMMA ToldHolds == Spec => []Told
<1>1. Init => Told
  <2>1. Init => at = "idle" /\ said = FALSE /\ given = FALSE
    BY DEF Init
  <2>. QED
    BY <2>1 DEF Told, FailureSetsError, InterruptAborts
<1>. QED
  BY <1>1, NextTold, IInvHolds, PTL DEF Spec

\* However long the text and whatever came before on the handle, a call that
\* was given a text and returns NULL has left a message of its own.
THEOREM ReasonGiven == Spec => []FailureSetsError
<1>1. Told => FailureSetsError
  BY DEF Told
<1>. QED
  BY <1>1, ToldHolds, PTL

\* A non-zero answer ends the call without a result, at whichever eojeol and
\* in whichever mode it comes.
THEOREM InterruptEnds == Spec => []InterruptAborts
<1>1. Told => InterruptAborts
  BY DEF Told
<1>. QED
  BY <1>1, ToldHolds, PTL

=============================================================================
