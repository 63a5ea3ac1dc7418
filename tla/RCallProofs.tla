----------------------------- MODULE RCallProofs ----------------------------
(***************************************************************************)
(* Proofs about RCall, for every number of calls and of polls.             *)
(***************************************************************************)
EXTENDS RCall, TLAPS

\* Where the memory of each call is, step by step: a call that has not been
\* made has nothing; before the finalizer is registered there is nothing for
\* it to free, and after that the call's block is there until it has run.
\* Nothing that is freed keeps its pointer, but for the call's own block,
\* which only its finalizer frees.
Ledger ==
  /\ \A c \in Calls : c > k => holder[c] = "none" /\ block[c]["call"] = "null"
  /\ at \in {"calloc", "holder"} => holder[k] = "none"
  /\ at = "register" => holder[k] = "made"
  /\ at \in {"holder", "register"} => block[k]["call"] = "live"
  /\ at \in {"create", "analyze", "ask", "failed", "convert", "release"} => holder[k] = "registered"
  /\ \A c \in Calls :
       /\ block[c]["hannanum"] # "dangling" /\ block[c]["result"] # "dangling"
       /\ holder[c] # "finalized" => block[c]["call"] # "dangling"
       /\ holder[c] = "registered" => block[c]["call"] = "live"
       /\ holder[c] # "registered" => block[c]["hannanum"] = "null" /\ block[c]["result"] = "null"

\* OwnerKnows and NothingFreedTwice say nothing of the calls to come and of
\* the steps before the finalizer is registered; Ledger does.
IInv == TypeOK /\ Ledger /\ NothingFreedTwice

\* What setting one pointer to "live" does to the blocks.
LEMMA Allocated ==
  ASSUME TypeOK, k \in Calls, NEW f \in Fields, block' = [block EXCEPT ![k][f] = "live"]
  PROVE  /\ block' \in [Calls -> [Fields -> Pointers]]
         /\ block'[k][f] = "live"
         /\ \A g \in Fields : g # f => block'[k][g] = block[k][g]
         /\ \A c \in Calls : c # k => block'[c] = block[c]
<1>. DEFINE b == [block[k] EXCEPT ![f] = "live"]
<1>1. block \in [Calls -> [Fields -> Pointers]] /\ "live" \in Pointers
  BY DEF TypeOK, Pointers
<1>2. b \in [Fields -> Pointers] /\ b[f] = "live" /\ \A g \in Fields : g # f => b[g] = block[k][g]
  BY <1>1
<1>3. block' = [block EXCEPT ![k] = b]
  OBVIOUS
<1>. HIDE DEF b
<1>. QED
  BY <1>1, <1>2, <1>3

\* What releasing a call's analyzer does to its three fields.
LEMMA ReleasedFields ==
  ASSUME NEW b \in [Fields -> Pointers]
  PROVE  /\ Released(b) \in [Fields -> Pointers] /\ Finalized(b) \in [Fields -> Pointers]
         /\ Released(b)["call"] = b["call"] /\ Finalized(b)["call"] = "dangling"
         /\ Released(b)["hannanum"] = "null" /\ Released(b)["result"] = "null"
         /\ Finalized(b)["hannanum"] = "null" /\ Finalized(b)["result"] = "null"
         /\ ReleasesAgain(b) <=> \/ b["call"] = "dangling" \/ b["hannanum"] = "dangling"
                                 \/ b["result"] = "dangling"
  BY DEF Released, Finalized, ReleasesAgain, Fields, Pointers

\* The end of a call records an outcome of the call.
LEMMA EndTypes ==
  ASSUME TypeOK, NEW what \in Outcomes, End(what)
  PROVE  outcome' \in [Calls -> Outcomes] /\ at' = "idle"
  BY DEF TypeOK, End

\* A session begins with nothing allocated.
LEMMA InitIInv == Init => IInv
<1>. SUFFICES ASSUME Init PROVE IInv
  OBVIOUS
<1>1. block \in [Calls -> [Fields -> Pointers]]
  BY DEF Init, Pointers
<1>2. outcome \in [Calls -> Outcomes]
  BY DEF Init, Outcomes
<1>3. TypeOK
  <2>1. k \in 0 .. MaxCalls /\ polls \in 0 .. MaxPolls
    BY RCallAssumption DEF Init
  <2>2. /\ pending \in BOOLEAN /\ interrupted \in BOOLEAN
        /\ consumed \in BOOLEAN /\ bad \in BOOLEAN
    BY DEF Init
  <2>. QED
    BY <1>1, <1>2, <2>1, <2>2 DEF Init, TypeOK
<1>4. Ledger
  BY DEF Init, Ledger, Fields
<1>. QED
  BY <1>3, <1>4 DEF Init, IInv, NothingFreedTwice

\* A poll changes nothing but the flags.
LEMMA PollTypes ==
  ASSUME TypeOK, pending_interrupt
  PROVE  /\ pending' \in BOOLEAN /\ interrupted' \in BOOLEAN
         /\ consumed' \in BOOLEAN
  BY DEF TypeOK, pending_interrupt

-----------------------------------------------------------------------------
\* The argument check and the allocation of the call's own block.
LEMMA StartSteps == IInv /\ (Start \/ AllocateCall) => IInv'
<1>. SUFFICES ASSUME IInv, Start \/ AllocateCall PROVE IInv'
  OBVIOUS
<1>. USE RCallAssumption
<1>1. CASE Start
  <2>1. k \in 0 .. MaxCalls /\ k < MaxCalls /\ k' = k + 1
    BY <1>1 DEF Start, IInv, TypeOK
  <2>2. k' \in Calls /\ k' \in 0 .. MaxCalls /\ ~(k' \in 0 .. k)
    BY <2>1 DEF Calls
  <2>3. outcome' \in [Calls -> Outcomes]
    BY <1>1 DEF Start, IInv, TypeOK, Outcomes
  <2>4. /\ pending' \in BOOLEAN /\ interrupted' \in BOOLEAN
        /\ consumed' \in BOOLEAN /\ bad' \in BOOLEAN
    BY <1>1 DEF Start, IInv, TypeOK
  <2>5. polls' \in 0 .. MaxPolls
    <3>1. polls' = 0 /\ MaxPolls \in Nat
      BY <1>1 DEF Start
    <3>. QED
      BY <3>1
  <2>6. at' \in {"calloc", "idle"} /\ UNCHANGED <<block, holder, bad>>
    BY <1>1 DEF Start
  <2>7. TypeOK'
    BY <2>2, <2>3, <2>4, <2>5, <2>6 DEF IInv, TypeOK
  <2>8. \A c \in Calls : c > k' => c > k
    BY <2>1 DEF Calls
  <2>9. k' > k
    BY <2>1
  <2>10. Ledger'
    BY <2>2, <2>6, <2>8, <2>9 DEF IInv, Ledger
  <2>. QED
    BY <2>6, <2>7, <2>10 DEF IInv, NothingFreedTwice
<1>2. CASE AllocateCall
  <2>1. k \in Calls /\ {"call", "hannanum", "result"} = Fields
    BY <1>2 DEF AllocateCall, IInv, TypeOK, Fields
  <2>2. CASE Goto("holder") /\ block' = [block EXCEPT ![k]["call"] = "live"]
    <3>1. TypeOK'
      BY <1>2, <2>1, <2>2, Allocated DEF AllocateCall, Goto, flag, IInv, TypeOK
    <3>2. Ledger'
      BY <1>2, <2>1, <2>2, Allocated DEF AllocateCall, Goto, IInv, TypeOK, Ledger, Calls
    <3>. QED
      BY <1>2, <3>1, <3>2 DEF AllocateCall, IInv, NothingFreedTwice
  <2>3. CASE End("out of memory") /\ UNCHANGED block
    <3>1. TypeOK'
      BY <1>2, <2>3, EndTypes DEF AllocateCall, Outcomes, flag, IInv, TypeOK
    <3>2. Ledger'
      BY <1>2, <2>3 DEF AllocateCall, End, IInv, Ledger
    <3>. QED
      BY <1>2, <3>1, <3>2 DEF AllocateCall, IInv, NothingFreedTwice
  <2>. QED
    BY <1>2, <2>2, <2>3 DEF AllocateCall
<1>. QED
  BY <1>1, <1>2

\* The external pointer is made and given its finalizer.
LEMMA HolderSteps == IInv /\ (MakeHolder \/ Register) => IInv'
<1>. SUFFICES ASSUME IInv, MakeHolder \/ Register PROVE IInv'
  OBVIOUS
<1>1. k \in Calls /\ TypeOK
  BY DEF MakeHolder, Register, IInv, TypeOK
<1>2. outcome' \in [Calls -> Outcomes]
  BY <1>1, EndTypes DEF MakeHolder, Register, Goto, Outcomes, TypeOK
<1>3. holder' \in [Calls -> {"none", "made", "registered", "finalized"}]
  BY <1>1 DEF MakeHolder, Register, TypeOK
<1>4. TypeOK'
  BY <1>1, <1>2, <1>3 DEF MakeHolder, Register, Goto, End, flag, TypeOK
<1>5. \A c \in Calls : c # k => holder'[c] = holder[c]
  BY <1>1 DEF MakeHolder, Register, TypeOK
<1>6. /\ holder[k] \in {"none", "made"} /\ UNCHANGED <<k, block, bad>>
      /\ \/ at = "holder" /\ at' = "register" /\ holder'[k] = "made"
         \/ at = "register" /\ at' = "create" /\ holder'[k] = "registered"
         \/ at' = "idle" /\ holder' = holder
      /\ block[k]["call"] = "live"
  BY <1>1 DEF MakeHolder, Register, Goto, End, IInv, TypeOK, Ledger
<1>7. ~(k > k)
  BY <1>1 DEF Calls
<1>8. Ledger'
  BY <1>1, <1>5, <1>6, <1>7 DEF IInv, Ledger
<1>. QED
  BY <1>4, <1>6, <1>8 DEF IInv, NothingFreedTwice

\* The analyzer is made, and makes the result.
LEMMA LibrarySteps == IInv /\ (Create \/ Analyzed) => IInv'
<1>. SUFFICES ASSUME IInv, Create \/ Analyzed PROVE IInv'
  OBVIOUS
<1>1. k \in Calls /\ TypeOK /\ {"call", "hannanum", "result"} = Fields
  BY DEF Create, Analyzed, IInv, TypeOK, Fields
<1>2. outcome' \in [Calls -> Outcomes]
  BY <1>1, EndTypes DEF Create, Analyzed, Goto, Outcomes, TypeOK
<1>3. CASE UNCHANGED block
  <2>1. TypeOK'
    BY <1>1, <1>2, <1>3 DEF Create, Analyzed, Goto, End, flag, TypeOK
  <2>2. Ledger'
    BY <1>1, <1>3 DEF Create, Analyzed, Goto, End, IInv, Ledger
  <2>. QED
    BY <2>1, <2>2 DEF Create, Analyzed, IInv, NothingFreedTwice
<1>4. CASE \E f \in {"hannanum", "result"} :
             /\ block' = [block EXCEPT ![k][f] = "live"]
             /\ f = "hannanum" => at' = "analyze"
             /\ f = "result" => at = "analyze" /\ at' = "convert"
  <2>1. PICK f \in {"hannanum", "result"} :
             /\ block' = [block EXCEPT ![k][f] = "live"]
             /\ f = "hannanum" => at' = "analyze"
             /\ f = "result" => at = "analyze" /\ at' = "convert"
    BY <1>4
  <2>2. TypeOK'
    BY <1>1, <1>2, <2>1, Allocated DEF Create, Analyzed, flag, TypeOK
  <2>3. holder[k] = "registered" /\ at' \in {"analyze", "convert"} /\ UNCHANGED <<k, holder>>
    BY <1>1, <2>1 DEF Create, Analyzed, IInv, Ledger
  <2>4. /\ block'[k]["call"] = block[k]["call"]
        /\ \A g \in Fields : block'[k][g] \in {"live", block[k][g]}
        /\ \A c \in Calls : c # k => block'[c] = block[c]
    BY <1>1, <2>1, Allocated
  <2>5. Ledger'
    BY <1>1, <2>3, <2>4 DEF IInv, Ledger
  <2>. QED
    BY <2>2, <2>5 DEF Create, Analyzed, IInv, NothingFreedTwice
<1>. QED
  BY <1>3, <1>4 DEF Create, Analyzed, Goto

\* Polls, and the conversion of the result.
LEMMA PollSteps == IInv /\ (Poll \/ AskWhy \/ Convert) => IInv'
<1>. SUFFICES ASSUME IInv, Poll \/ AskWhy \/ Convert PROVE IInv'
  OBVIOUS
<1>1. CASE Poll \/ AskWhy
  <2>1. /\ pending' \in BOOLEAN /\ interrupted' \in BOOLEAN
        /\ consumed' \in BOOLEAN
    BY <1>1, PollTypes DEF Poll, AskWhy, IInv
  <2>2. at \in {"analyze", "ask"} /\ at' \in {"failed", "ask", "analyze"} /\ UNCHANGED outcome
    BY <1>1 DEF Poll, AskWhy, Goto
  <2>3. polls' \in 0 .. MaxPolls
    BY <1>1, RCallAssumption DEF Poll, AskWhy, IInv, TypeOK
  <2>4. UNCHANGED <<k, block, holder, bad>>
    BY <1>1 DEF Poll, AskWhy
  <2>5. TypeOK'
    BY <2>1, <2>2, <2>3, <2>4 DEF IInv, TypeOK
  <2>6. Ledger'
    BY <2>2, <2>4 DEF IInv, Ledger
  <2>. QED
    BY <2>4, <2>5, <2>6 DEF IInv, NothingFreedTwice
<1>2. CASE Convert
  <2>1. NothingFreedTwice'
    BY <1>2 DEF Convert, IInv, TypeOK, NothingFreedTwice
  <2>2. outcome' \in [Calls -> Outcomes] /\ at' \in {"convert", "release", "idle"}
    BY <1>2, EndTypes DEF Convert, Goto, Outcomes, IInv, TypeOK
  <2>3. TypeOK'
    BY <1>2, <2>1, <2>2 DEF Convert, flag, IInv, TypeOK, NothingFreedTwice
  <2>4. Ledger'
    BY <1>2, <2>2 DEF Convert, IInv, Ledger
  <2>. QED
    BY <2>1, <2>3, <2>4 DEF IInv
<1>. QED
  BY <1>1, <1>2

\* The two ways out on which the call itself releases the analyzer.
LEMMA ReleaseSteps == IInv /\ (Fail \/ Return) => IInv'
<1>. SUFFICES ASSUME IInv, Fail \/ Return PROVE IInv'
  OBVIOUS
<1>1. k \in Calls /\ TypeOK /\ block[k] \in [Fields -> Pointers] /\ holder[k] = "registered"
  BY DEF Fail, Return, IInv, TypeOK, Ledger
<1>2. block' = [block EXCEPT ![k] = Released(block[k])] /\ UNCHANGED <<k, holder, flag>>
  BY DEF Fail, Return
<1>3. ~ReleasesAgain(block[k])
  BY <1>1, ReleasedFields DEF IInv, Ledger
<1>4. NothingFreedTwice'
  BY <1>1, <1>3 DEF Fail, Return, IInv, TypeOK, NothingFreedTwice
<1>5. outcome' \in [Calls -> Outcomes] /\ at' = "idle"
  BY <1>1, EndTypes DEF Fail, Return, Outcomes
<1>6. block' \in [Calls -> [Fields -> Pointers]]
  BY <1>1, <1>2, ReleasedFields DEF TypeOK
<1>7. TypeOK'
  BY <1>1, <1>2, <1>4, <1>5, <1>6 DEF TypeOK, NothingFreedTwice, flag
<1>8. \A c \in Calls : block'[c] = IF c = k THEN Released(block[k]) ELSE block[c]
  BY <1>1, <1>2 DEF TypeOK
<1>9. Ledger'
  BY <1>1, <1>2, <1>5, <1>8, ReleasedFields DEF IInv, TypeOK, Ledger, Calls
<1>. QED
  BY <1>4, <1>7, <1>9 DEF IInv

\* The collector takes the holder of a call that is over.
LEMMA FinalizeStep == ASSUME IInv, NEW c \in Calls, Finalize(c) PROVE IInv'
<1>1. TypeOK /\ block[c] \in [Fields -> Pointers]
  BY DEF IInv, TypeOK
<1>2. holder[c] = "registered" /\ (c = k => at = "idle")
  BY DEF Finalize, Collectable, Running
<1>3. ~ReleasesAgain(block[c])
  BY <1>1, <1>2, ReleasedFields DEF IInv, Ledger
<1>4. NothingFreedTwice'
  BY <1>3 DEF Finalize, IInv, TypeOK, NothingFreedTwice
<1>5. block' \in [Calls -> [Fields -> Pointers]]
  BY <1>1, ReleasedFields DEF Finalize, TypeOK
<1>6. holder' \in [Calls -> {"none", "made", "registered", "finalized"}]
  BY <1>1 DEF Finalize, TypeOK
<1>7. \A d \in Calls : d # c => block'[d] = block[d] /\ holder'[d] = holder[d]
  BY <1>1 DEF Finalize, TypeOK
<1>8. block'[c] = Finalized(block[c]) /\ holder'[c] = "finalized"
  BY <1>1 DEF Finalize, TypeOK
<1>9. UNCHANGED <<at, k, flag, outcome>>
  BY DEF Finalize
<1>10. TypeOK'
  BY <1>1, <1>2, <1>4, <1>5, <1>6, <1>7, <1>9 DEF TypeOK, NothingFreedTwice, flag
<1>11. ~(c > k) /\ (at = "idle" \/ (k \in Calls /\ k # c) \/ at = "quit")
  BY <1>1, <1>2 DEF IInv, TypeOK, Ledger
<1>12. /\ block'[c]["call"] = "dangling"
       /\ block'[c]["hannanum"] = "null" /\ block'[c]["result"] = "null"
  BY <1>1, <1>8, ReleasedFields
<1>13. Ledger'
  BY <1>7, <1>8, <1>9, <1>11, <1>12 DEF IInv, Ledger
<1>. QED
  BY <1>4, <1>10, <1>13 DEF IInv

\* R's exit runs all finalizers that are left.
LEMMA QuitStep == IInv /\ Quit => IInv'
<1>. SUFFICES ASSUME IInv, Quit PROVE IInv'
  OBVIOUS
<1>1. TypeOK /\ \A c \in Calls : block[c] \in [Fields -> Pointers]
  BY DEF IInv, TypeOK
<1>2. at = "idle" /\ at' = "quit" /\ UNCHANGED <<k, flag, outcome>>
  BY DEF Quit
<1>3. \A c \in Calls : Collectable(c) <=> holder[c] = "registered"
  BY <1>2 DEF Collectable, Running
<1>4. \A c \in Calls : Collectable(c) => ~ReleasesAgain(block[c])
  BY <1>1, <1>3, ReleasedFields DEF IInv, Ledger
<1>5. NothingFreedTwice'
  BY <1>4 DEF Quit, IInv, TypeOK, NothingFreedTwice
<1>6. block' \in [Calls -> [Fields -> Pointers]]
  BY <1>1, ReleasedFields DEF Quit
<1>7. holder' \in [Calls -> {"none", "made", "registered", "finalized"}]
  BY <1>1 DEF Quit, TypeOK
<1>8. TypeOK'
  BY <1>1, <1>2, <1>5, <1>6, <1>7 DEF TypeOK, NothingFreedTwice, flag
<1>9. \A c \in Calls :
        IF holder[c] = "registered"
        THEN block'[c] = Finalized(block[c]) /\ holder'[c] = "finalized"
        ELSE block'[c] = block[c] /\ holder'[c] = holder[c]
  BY <1>1, <1>3 DEF Quit, TypeOK
<1>10. Ledger'
  BY <1>1, <1>2, <1>9, ReleasedFields DEF IInv, TypeOK, Ledger
<1>. QED
  BY <1>5, <1>8, <1>10 DEF IInv

\* No step of a call, of the collector, of R's exit or of the user breaks the
\* ledger.
LEMMA NextIInv == IInv /\ [Next]_vars => IInv'
<1>1. ASSUME IInv, Press \/ Act \/ UNCHANGED vars PROVE IInv'
  <2>1. UNCHANGED <<at, k, block, holder, interrupted, consumed, polls, outcome, bad>>
    BY <1>1 DEF Press, Act, vars
  <2>2. pending' \in BOOLEAN
    BY <1>1 DEF Press, Act, vars, IInv, TypeOK
  <2>3. TypeOK'
    BY <1>1, <2>1, <2>2 DEF IInv, TypeOK
  <2>4. Ledger'
    BY <1>1, <2>1 DEF IInv, Ledger
  <2>. QED
    BY <1>1, <2>1, <2>3, <2>4 DEF IInv, NothingFreedTwice
<1>. QED
  BY <1>1, StartSteps, HolderSteps, LibrarySteps, PollSteps, ReleaseSteps, FinalizeStep, QuitStep
  DEF Next

\* The ledger holds in every session.
LEMMA IInvHolds == Spec => []IInv
  BY InitIInv, NextIInv, PTL DEF Spec

\* Type correctness, and with it: wherever the call uses its analyzer or its
\* result, the pointer is there.
THEOREM TypeCorrect == Spec => []TypeOK
  BY IInvHolds, PTL DEF IInv

\* However many calls there are and wherever R errors, interrupts and
\* collections fall, the call and its finalizer never free the same block
\* and nothing is used after it was freed.
THEOREM FreedOnce == Spec => []NothingFreedTwice
  BY IInvHolds, PTL DEF IInv

\* Who may still have an analyzer or a result: the running call once it has
\* made them, and calls that an R error has ended, until R quits.
Has(c) == block[c]["hannanum"] = "live" \/ block[c]["result"] = "live"
Left ==
  /\ at = "create" => ~Has(k)
  /\ \A c \in Calls : Has(c) => Running(c) \/ (outcome[c] = "R error" /\ at # "quit")

\* The number of the call that starts.
LEMMA StartsCall == TypeOK /\ k < MaxCalls => k + 1 \in Calls /\ k + 1 > k
<1>. SUFFICES ASSUME TypeOK, k < MaxCalls PROVE k + 1 \in Calls /\ k + 1 > k
  OBVIOUS
<1>1. k \in 0 .. MaxCalls /\ MaxCalls \in Nat
  BY RCallAssumption DEF TypeOK
<1>. QED
  BY <1>1 DEF Calls

\* A call that starts has nothing yet.
LEMMA StartsEmpty == TypeOK /\ Ledger /\ k < MaxCalls /\ k' = k + 1 => ~Has(k')
<1>. SUFFICES ASSUME TypeOK, Ledger, k < MaxCalls, k' = k + 1 PROVE ~Has(k + 1)
  OBVIOUS
<1>. QED
  BY StartsCall DEF Ledger, Has

\* Every step leaves the analyzer of a call that is over to the collector only
\* if it is an R error that ends the call.
LEMMA NextLeft == IInv /\ IInv' /\ Left /\ [Next]_vars => Left'
<1>. SUFFICES ASSUME IInv, IInv', Left, [Next]_vars PROVE Left'
  OBVIOUS
<1>. USE DEF Has, Running, Left
<1>1. /\ k \in 0 .. MaxCalls /\ outcome \in [Calls -> Outcomes]
      /\ at \notin {"idle", "quit"} => k \in Calls
      /\ \A c \in Calls : Has(c) => holder[c] = "registered" /\ ~(c > k)
      /\ \A c \in Calls : holder'[c] # "registered" => ~Has(c)'
  BY DEF IInv, TypeOK, Ledger
<1>2. CASE Start
  <2>1. k' = k + 1 /\ at = "idle" /\ at' \in {"calloc", "idle"} /\ UNCHANGED block
    BY <1>2 DEF Start
  <2>2. \A c \in Calls : c # k' => outcome'[c] = outcome[c]
    BY <1>1, <1>2, <2>1 DEF Start
  <2>3. ~Has(k')
    BY <1>2, StartsEmpty DEF Start, IInv
  <2>4. \A c \in Calls : Has(c) => c # k'
    BY <2>3
  <2>. QED
    BY <2>1, <2>2, <2>4
<1>3. CASE AllocateCall \/ MakeHolder \/ Register
  <2>1. k' = k /\ k \in Calls /\ holder[k] # "registered"
    BY <1>1, <1>3 DEF AllocateCall, MakeHolder, Register, IInv, Ledger
  <2>2. ~Has(k) /\ at # "idle" /\ at # "quit" /\ at' # "quit"
    BY <1>1, <1>3, <2>1 DEF AllocateCall, MakeHolder, Register, Goto, End
  <2>3. \A c \in Calls : c # k => outcome'[c] = outcome[c]
    BY <1>1, <1>3 DEF AllocateCall, MakeHolder, Register, Goto, End
  <2>4. \A c \in Calls : Has(c)' => Has(c)
    <3>1. CASE AllocateCall
      <4>1. holder'[k] # "registered"
        BY <2>1, <3>1 DEF AllocateCall
      <4>2. \A c \in Calls : c # k => block'[c] = block[c]
        BY <3>1 DEF AllocateCall, IInv, TypeOK
      <4>. QED
        BY <1>1, <4>1, <4>2
    <3>. QED
      BY <1>3, <3>1 DEF MakeHolder, Register
  <2>. QED
    BY <2>1, <2>2, <2>3, <2>4
<1>4. CASE Create
  <2>1. k' = k /\ k \in Calls /\ at = "create" /\ at' \in {"analyze", "idle"}
    BY <1>1, <1>4 DEF Create, Goto, End
  <2>2. \A c \in Calls : c # k => outcome'[c] = outcome[c] /\ block'[c] = block[c]
    BY <1>1, <1>4 DEF Create, Goto, End, IInv, TypeOK
  <2>3. at' = "idle" => block' = block
    BY <1>4 DEF Create, Goto
  <2>. QED
    BY <2>1, <2>2, <2>3
<1>5. CASE Poll \/ AskWhy \/ Analyzed
  <2>1. k' = k /\ k \in Calls /\ at' \in {"analyze", "ask", "failed", "convert"} /\ UNCHANGED outcome
    BY <1>1, <1>5 DEF Poll, AskWhy, Analyzed, Goto
  <2>2. at # "quit" /\ \A c \in Calls : c # k => block'[c] = block[c]
    BY <1>5 DEF Poll, AskWhy, Analyzed, IInv, TypeOK
  <2>. QED
    BY <2>1, <2>2
<1>6. CASE Fail \/ Return
  <2>1. k' = k /\ k \in Calls /\ at' = "idle" /\ at # "quit"
    BY <1>1, <1>6 DEF Fail, Return, End
  <2>2. \A c \in Calls : c # k => outcome'[c] = outcome[c] /\ block'[c] = block[c]
    BY <1>1, <1>6 DEF Fail, Return, End, IInv, TypeOK
  <2>3. block'[k] = Released(block[k]) /\ block[k] \in [Fields -> Pointers]
    BY <1>6, <2>1 DEF Fail, Return, IInv, TypeOK
  <2>4. ~Has(k)'
    BY <2>1, <2>3, ReleasedFields
  <2>. QED
    BY <2>1, <2>2, <2>4
<1>7. CASE Convert
  <2>1. k' = k /\ k \in Calls /\ at \notin {"idle", "quit"} /\ UNCHANGED block
    BY <1>1, <1>7 DEF Convert
  <2>2. \/ at' \in {"convert", "release"} /\ UNCHANGED outcome
        \/ at' = "idle" /\ outcome' = [outcome EXCEPT ![k] = "R error"]
    BY <1>7 DEF Convert, Goto, End
  <2>3. \A c \in Calls : c # k => outcome'[c] = outcome[c]
    BY <1>1, <2>2
  <2>4. at' = "idle" => outcome'[k] = "R error"
    BY <1>1, <2>1, <2>2
  <2>. QED
    BY <2>1, <2>2, <2>3, <2>4
<1>8. ASSUME NEW c \in Calls, Finalize(c) PROVE Left'
  <2>1. UNCHANGED <<at, k, outcome>> /\ holder'[c] # "registered" /\ at # "create"
    BY <1>8 DEF Finalize, IInv, TypeOK
  <2>2. \A d \in Calls : d # c => block'[d] = block[d]
    BY <1>8 DEF Finalize, IInv, TypeOK
  <2>. QED
    BY <1>1, <2>1, <2>2
<1>9. CASE Quit
  <2>1. at = "idle" /\ at' = "quit" /\ UNCHANGED k
    BY <1>9 DEF Quit
  <2>2. \A c \in Calls : holder[c] = "registered" => holder'[c] = "finalized"
    BY <1>9, <2>1 DEF Quit, Collectable, IInv, TypeOK
  <2>3. \A c \in Calls : holder[c] # "registered" => block'[c] = block[c]
    BY <1>9 DEF Quit, Collectable, IInv, TypeOK
  <2>4. \A c \in Calls : ~Has(c)'
    BY <1>1, <2>2, <2>3
  <2>. QED
    BY <2>1, <2>4
<1>10. CASE Press \/ Act \/ UNCHANGED vars
  <2>1. UNCHANGED <<at, k, block, outcome>>
    BY <1>10 DEF Press, Act, vars
  <2>. QED
    BY <2>1
<1>. QED
  BY <1>2, <1>3, <1>4, <1>5, <1>6, <1>7, <1>8, <1>9, <1>10 DEF Next

\* Whenever there is an analyzer or a result, there is a finalizer to free it,
\* and if its call is over an R error has ended it and R has not quit.
THEOREM NothingUnowned == Spec => []OwnerKnows
<1>1. Init => Left
  BY DEF Init, Left, Has, Fields
<1>2. IInv /\ Left => OwnerKnows
  BY DEF IInv, Ledger, Left, Has, OwnerKnows
<1>. QED
  BY <1>1, <1>2, NextLeft, IInvHolds, PTL DEF Spec

-----------------------------------------------------------------------------
\* What the flag on the stack says while the call runs: it is set as soon as R
\* has acted on an interrupt, and from then on the call is on its way out.
Latched ==
  /\ interrupted <=> consumed
  /\ interrupted => at \in {"ask", "failed", "idle", "quit"}
  /\ InterruptRaised

\* The way out is the same for every interrupt, whatever made the library ask.
LEMMA NextLatched == IInv /\ Latched /\ [Next]_vars => Latched'
<1>. SUFFICES ASSUME IInv, Latched, [Next]_vars PROVE Latched'
  OBVIOUS
<1>. USE DEF Latched, InterruptRaised
<1>1. /\ k \in 0 .. MaxCalls /\ outcome \in [Calls -> Outcomes]
      /\ at \notin {"idle", "quit"} => k \in Calls
      /\ interrupted \in BOOLEAN /\ consumed \in BOOLEAN /\ pending \in BOOLEAN
  BY DEF IInv, TypeOK
<1>2. CASE Start
  <2>1. k + 1 \in Calls
    BY <1>2, StartsCall DEF Start, IInv
  <2>2. at' = "idle" => outcome'[k'] = "bad argument"
    BY <1>1, <1>2, <2>1 DEF Start
  <2>. QED
    BY <1>2, <2>2 DEF Start
<1>3. CASE AllocateCall \/ MakeHolder \/ Register \/ Create \/ Convert
  <2>1. /\ k \in Calls /\ ~interrupted /\ UNCHANGED <<k, interrupted, consumed>>
    BY <1>1, <1>3 DEF AllocateCall, MakeHolder, Register, Create, Convert, flag
  <2>2. at' = "idle" => outcome'[k] # "interrupted by user"
    BY <1>1, <1>3, <2>1 DEF AllocateCall, MakeHolder, Register, Create, Convert, Goto, End
  <2>. QED
    BY <2>1, <2>2
<1>4. CASE Poll \/ AskWhy
  <2>1. (interrupted' <=> consumed') /\ at' \notin {"idle"}
    BY <1>1, <1>4 DEF Poll, AskWhy, pending_interrupt, Goto
  <2>2. interrupted' => at' \in {"ask", "failed"}
    BY <1>4 DEF Poll, AskWhy, Goto
  <2>. QED
    BY <2>1, <2>2
<1>5. CASE Analyzed
  BY <1>5 DEF Analyzed, Goto, flag
<1>6. CASE Fail \/ Return
  <2>1. k \in Calls /\ at' = "idle" /\ UNCHANGED <<k, interrupted, consumed>>
    BY <1>1, <1>6 DEF Fail, Return, End, flag
  <2>2. outcome'[k] = "interrupted by user" <=> interrupted
    BY <1>1, <1>6, <2>1 DEF Fail, Return, End
  <2>. QED
    BY <2>1, <2>2
<1>7. CASE (\E c \in Calls : Finalize(c)) \/ Press \/ Act \/ UNCHANGED vars
  <2>1. UNCHANGED <<at, k, interrupted, consumed, outcome>>
    BY <1>7 DEF Finalize, Press, Act, vars, flag
  <2>. QED
    BY <2>1
<1>8. CASE Quit
  BY <1>8 DEF Quit, flag
<1>. QED
  BY <1>2, <1>3, <1>4, <1>5, <1>6, <1>7, <1>8 DEF Next

\* An interrupt that R has acted on while the library ran ends the call as an
\* interrupt, and nothing else does, at whichever poll it comes and however
\* many there are.
THEOREM InterruptCarried == Spec => []InterruptRaised
<1>1. Init => Latched
  BY DEF Init, Latched, InterruptRaised
<1>2. Latched => InterruptRaised
  BY DEF Latched
<1>. QED
  BY <1>1, <1>2, NextLatched, IInvHolds, PTL DEF Spec

-----------------------------------------------------------------------------
\* The calls that have come to an end are those with an outcome.
Decided == \A c \in Calls : outcome[c] # "none" <=> c < k \/ (c = k /\ ~Running(c))

\* A step decides at most the running call, as it ends it.
LEMMA NextDecided == IInv /\ Decided /\ [Next]_vars => Decided'
<1>. SUFFICES ASSUME IInv, Decided, [Next]_vars PROVE Decided'
  OBVIOUS
<1>. USE DEF Decided, Running
<1>1. /\ k \in 0 .. MaxCalls /\ outcome \in [Calls -> Outcomes] /\ MaxCalls \in Nat
      /\ at \notin {"idle", "quit"} => k \in Calls
  BY RCallAssumption DEF IInv, TypeOK
<1>2. CASE Start
  <2>1. k' = k + 1 /\ k' \in Calls /\ at = "idle"
    BY <1>2, StartsCall DEF Start, IInv
  <2>2. \A c \in Calls : c # k' => outcome'[c] = outcome[c]
    BY <1>1, <1>2, <2>1 DEF Start
  <2>3. outcome[k'] = "none"
    BY <1>1, <2>1
  <2>4. \/ at' = "calloc" /\ outcome'[k'] = "none"
        \/ at' = "idle" /\ outcome'[k'] = "bad argument"
    BY <1>1, <1>2, <2>1, <2>3 DEF Start
  <2>5. \A c \in Calls : c < k' <=> c < k \/ c = k
    BY <1>1, <2>1 DEF Calls
  <2>6. ASSUME NEW c \in Calls, c # k' PROVE outcome'[c] # "none" <=> c < k'
    BY <2>1, <2>2, <2>5, <2>6
  <2>7. ~(k' < k')
    BY <1>1, <2>1
  <2>. QED
    BY <2>4, <2>6, <2>7
<1>3. CASE AllocateCall \/ MakeHolder \/ Register \/ Create \/ Poll \/ AskWhy \/ Analyzed
           \/ Fail \/ Convert \/ Return
  <2>1. k' = k /\ k \in Calls /\ at \notin {"idle", "quit"}
    BY <1>1, <1>3 DEF AllocateCall, MakeHolder, Register, Create, Poll, AskWhy, Analyzed,
                      Fail, Convert, Return
  <2>2. \/ at' \notin {"idle", "quit"} /\ outcome' = outcome
        \/ \E what \in Outcomes \ {"none"} : at' = "idle" /\ outcome' = [outcome EXCEPT ![k] = what]
    BY <1>3 DEF AllocateCall, MakeHolder, Register, Create, Poll, AskWhy, Analyzed,
                Fail, Convert, Return, Goto, End, Outcomes
  <2>. QED
    BY <1>1, <2>1, <2>2
<1>4. CASE (\E c \in Calls : Finalize(c)) \/ Quit \/ Press \/ Act \/ UNCHANGED vars
  BY <1>4 DEF Finalize, Quit, Press, Act, vars
<1>. QED
  BY <1>2, <1>3, <1>4 DEF Next

\* The custody of one call.
Of(c) ==
  IF Has(c) THEN IF Running(c) THEN "held" ELSE "left"
  ELSE IF outcome[c] = "none" THEN "absent" ELSE "gone"

\* A step that changes no call's custody is a stutter of the promise.
LEMMA AllStay == (\A c \in Calls : Of(c)' = Of(c)) => custody' = custody
  BY DEF custody, Of, Has

\* A step that moves one call's custody along the table is a step of it.
LEMMA OneMoves ==
  ASSUME NEW c \in Calls, \A d \in Calls : d # c => Of(d)' = Of(d),
         <<Of(c), Of(c)'>> \in C!Moves
  PROVE  C!Next
<1>. DEFINE was == Of(c)  now == Of(c)'
<1>1. custody = [d \in Calls |-> Of(d)] /\ custody' = [d \in Calls |-> Of(d)']
  BY DEF custody, Of, Has
<1>2. custody[c] = was /\ custody' = [custody EXCEPT ![c] = now]
  BY <1>1
<1>3. PICK m \in C!Moves : m = <<was, now>>
  OBVIOUS
<1>4. m[1] = was /\ m[2] = now
  BY <1>3
<1>5. C!Move(c)
  BY <1>2, <1>3, <1>4 DEF C!Move
<1>. QED
  BY <1>5 DEF C!Next

\* Every step of the call, of the collector and of R's exit is a step of the
\* promise or changes nothing it speaks of.
LEMMA NextKeeps ==
  IInv /\ IInv' /\ Left /\ Left' /\ Decided /\ Decided' /\ [Next]_vars => [C!Next]_custody
<1>. SUFFICES ASSUME IInv, IInv', Left, Left', Decided, Decided', [Next]_vars
              PROVE  C!Next \/ custody' = custody
  OBVIOUS
<1>1. /\ k \in 0 .. MaxCalls /\ outcome \in [Calls -> Outcomes] /\ MaxCalls \in Nat
      /\ at \notin {"idle", "quit"} => k \in Calls
      /\ \A c \in Calls : Has(c) => holder[c] = "registered" /\ ~(c > k)
  BY RCallAssumption DEF IInv, TypeOK, Ledger, Has
<1>2. CASE Start
  <2>1. /\ k' = k + 1 /\ k' \in Calls /\ at = "idle" /\ at' \in {"calloc", "idle"}
        /\ UNCHANGED block
    BY <1>2, StartsCall DEF Start, IInv
  <2>2. PICK n \in Calls : n = k'
    BY <2>1
  <2>3. ~Has(n) /\ ~Has(n)'
    BY <1>2, <2>1, <2>2, StartsEmpty DEF Start, IInv, Has
  <2>4. \A c \in Calls : c # n => Of(c)' = Of(c)
    BY <1>1, <1>2, <2>1, <2>2 DEF Start, Of, Has, Running
  <2>5. outcome[n] = "none"
    BY <1>1, <2>1, <2>2 DEF Decided
  <2>6. Of(n) = "absent" /\ Of(n)' \in {"absent", "gone"}
    BY <2>3, <2>5 DEF Of, Has
  <2>7. CASE Of(n)' = "absent"
    BY <2>4, <2>6, <2>7, AllStay
  <2>8. CASE Of(n)' = "gone"
    BY <2>4, <2>6, <2>8, OneMoves DEF C!Moves
  <2>. QED
    BY <2>6, <2>7, <2>8
<1>3. CASE AllocateCall \/ MakeHolder \/ Register \/ Create \/ Poll \/ AskWhy \/ Analyzed
           \/ Fail \/ Convert \/ Return
  <2>1. k' = k /\ k \in Calls /\ at \notin {"idle", "quit"}
    BY <1>1, <1>3 DEF AllocateCall, MakeHolder, Register, Create, Poll, AskWhy, Analyzed,
                      Fail, Convert, Return
  <2>2. \A c \in Calls : c # k => outcome'[c] = outcome[c]
    BY <1>1, <1>3 DEF AllocateCall, MakeHolder, Register, Create, Poll, AskWhy, Analyzed,
                Fail, Convert, Return, Goto, End
  <2>3. \A c \in Calls : c # k => block'[c] = block[c]
    BY <1>3 DEF IInv, TypeOK, AllocateCall, MakeHolder, Register, Create, Poll, AskWhy, Analyzed,
                Fail, Convert, Return
  <2>4. \A c \in Calls : c # k => Of(c)' = Of(c)
    BY <2>1, <2>2, <2>3 DEF Of, Has, Running
  <2>5. Running(k) /\ outcome[k] = "none" /\ (Running(k)' <=> at' \notin {"idle", "quit"})
    BY <1>1, <2>1 DEF Decided, Running
  <2>6. outcome'[k] = "none" <=> Running(k)'
    BY <1>1, <2>1 DEF Decided
  <2>7. Of(k) = IF Has(k) THEN "held" ELSE "absent"
    BY <2>5 DEF Of
  <2>8. Of(k)' = IF Has(k)' THEN IF Running(k)' THEN "held" ELSE "left"
                 ELSE IF Running(k)' THEN "absent" ELSE "gone"
    BY <2>1, <2>6 DEF Of, Has, Running
  <2>9. Has(k) => Has(k)' \/ ~Running(k)'
    <3>1. CASE AllocateCall \/ MakeHolder \/ Register \/ Create
      BY <1>1, <2>1, <3>1 DEF IInv, Ledger, Left, AllocateCall, MakeHolder, Register, Create
    <3>2. CASE Poll \/ AskWhy \/ Convert
      BY <2>1, <3>2 DEF Has, Poll, AskWhy, Convert
    <3>3. CASE Analyzed
      <4>1. block[k]["hannanum"] = "live" /\ "hannanum" \in Fields /\ "result" \in Fields
        BY <3>3 DEF Analyzed, IInv, TypeOK, Fields
      <4>2. block' = block \/ block' = [block EXCEPT ![k]["result"] = "live"]
        BY <3>3 DEF Analyzed
      <4>3. block'[k]["hannanum"] = "live"
        BY <2>1, <4>1, <4>2, Allocated DEF IInv
      <4>. QED
        BY <2>1, <4>3 DEF Has
    <3>4. CASE Fail \/ Return
      BY <2>5, <3>4 DEF Fail, Return, End
    <3>. QED
      BY <1>3, <3>1, <3>2, <3>3, <3>4
  <2>10. ~Has(k) => ~(Has(k)' /\ ~Running(k)')
    BY <1>1, <1>3, <2>1, <2>5 DEF Has, AllocateCall, MakeHolder, Register, Create, Poll, AskWhy,
       Analyzed, Fail, Convert, Return, Goto, End, IInv, TypeOK
  <2>11. \/ Of(k)' = Of(k)
         \/ <<Of(k), Of(k)'>> \in C!Moves
    BY <2>7, <2>8, <2>9, <2>10 DEF C!Moves
  <2>. QED
    BY <2>1, <2>4, <2>11, AllStay, OneMoves
<1>4. ASSUME NEW c \in Calls, Finalize(c) PROVE C!Next \/ custody' = custody
  <2>1. UNCHANGED <<at, k, outcome>> /\ holder[c] = "registered" /\ ~Running(c)
    BY <1>4 DEF Finalize, Collectable
  <2>2. \A d \in Calls : d # c => Of(d)' = Of(d)
    BY <1>4, <2>1 DEF Finalize, IInv, TypeOK, Of, Has, Running
  <2>3. ~Has(c)'
    BY <1>4, ReleasedFields DEF Finalize, IInv, TypeOK, Has
  <2>4. ~(c > k)
    BY <2>1 DEF IInv, Ledger
  <2>5. outcome[c] # "none"
    BY <1>1, <2>1, <2>4 DEF Decided, Calls
  <2>6. Of(c) \in {"left", "gone"} /\ Of(c)' = "gone"
    BY <2>1, <2>3, <2>5 DEF Of, Has, Running
  <2>. QED
    BY <2>2, <2>6, AllStay, OneMoves DEF C!Moves
<1>5. CASE Quit
  <2>1. at = "idle" /\ at' = "quit" /\ UNCHANGED <<k, outcome>>
    BY <1>5 DEF Quit
  <2>2. \A c \in Calls : ~Has(c)'
    BY <2>1 DEF Left, Has, Running
  <2>3. \A c \in Calls : Has(c) => outcome[c] # "none"
    BY <2>1 DEF Left, Running
  <2>4. \A c \in Calls : Of(c)' = IF Of(c) = "left" THEN "gone" ELSE Of(c)
    BY <2>1, <2>2, <2>3 DEF Of, Has, Running
  <2>5. custody = [c \in Calls |-> Of(c)] /\ custody' = [c \in Calls |-> Of(c)']
    BY DEF custody, Of, Has
  <2>6. C!FreeAll
    BY <2>4, <2>5 DEF C!FreeAll
  <2>. QED
    BY <2>6 DEF C!Next
<1>6. CASE Press \/ Act \/ UNCHANGED vars
  BY <1>6 DEF Press, Act, vars, custody, Running
<1>. QED
  BY <1>2, <1>3, <1>4, <1>5, <1>6 DEF Next

\* The call from R keeps the promise of Custody, for every number of calls and
\* of polls: what it holds it frees or, at an R error, leaves to the collector,
\* and what is gone stays gone.
THEOREM CustodyKept == Spec => KeepsCustody
<1>1. Init => Left /\ Decided
  BY RCallAssumption DEF Init, Left, Decided, Running, Has, Fields, Calls
<1>2. Init => C!Init
  BY DEF Init, C!Init, custody, Fields
<1>. QED
  BY <1>1, <1>2, IInvHolds, NextLeft, NextDecided, NextKeeps, PTL DEF Spec, KeepsCustody, C!Spec

=============================================================================
