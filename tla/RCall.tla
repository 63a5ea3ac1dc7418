------------------------------- MODULE RCall --------------------------------
(***************************************************************************)
(* hannlp_hannanum_analyze (hannanum_r.c): the .Call behind the tagging    *)
(* functions.  An external pointer owns the analyzer and its result, an R  *)
(* error may jump out of any call to R, the collector may finalize what an *)
(* earlier call left, and a user's interrupt is kept in a flag while the C *)
(* library unwinds.                                                        *)
(*                                                                         *)
(* Of hannanum_analyze only what Analyze shows is kept: it polls the       *)
(* callback, a non-zero answer ends it without a result, and after the     *)
(* tagger has failed the callback is asked once more.                      *)
(***************************************************************************)
EXTENDS Naturals

CONSTANTS
  MaxCalls,     \* calls made one after the other in a session
  MaxPolls      \* polls in one call

ASSUME RCallAssumption == MaxCalls \in Nat /\ MaxPolls \in Nat

Calls == 1 .. MaxCalls
Fields == {"call", "hannanum", "result"}
Pointers == {"null", "live", "dangling"}
Outcomes == {"none", "bad argument", "out of memory", "R error", "value",
             "failed to initialize", "analysis failed", "interrupted by user"}

VARIABLES
  at,           \* the next step of the running call; "idle" if none, "quit"
  k,            \* the number of the running or last call
  block,        \* block[c][f]: hannanum_call_t of call c and its two pointers
  holder,       \* the external pointer of each call
  pending,      \* R has yet to act on the interrupt key (or a time limit)
  interrupted,  \* the flag on the stack of the running call
  consumed,     \* R has acted on an interrupt in this call
  polls,
  outcome,      \* of each call: "none" yet, "value" or the R error
  bad           \* a freed block has been freed again or used

vars == <<at, k, block, holder, pending, interrupted, consumed, polls, outcome, bad>>
Running(c) == c = k /\ at \notin {"idle", "quit"}
flag == <<pending, interrupted, consumed, polls>>

-----------------------------------------------------------------------------
Init ==
  /\ at = "idle" /\ k = 0
  /\ block = [c \in Calls |-> [f \in Fields |-> "null"]]
  /\ holder = [c \in Calls |-> "none"]
  /\ pending = FALSE /\ interrupted = FALSE /\ consumed = FALSE
  /\ polls = 0
  /\ outcome = [c \in Calls |-> "none"]
  /\ bad = FALSE

\* The call goes on to `next`; or an R error jumps out of it and its
\* protection of the holder is gone; or it returns.
Goto(next) == at' = next /\ UNCHANGED outcome
End(what) == at' = "idle" /\ outcome' = [outcome EXCEPT ![k] = what]

\* The callers' arguments are looked at before anything is allocated.
Start ==
  /\ at = "idle" /\ k < MaxCalls
  /\ k' = k + 1
  /\ interrupted' = FALSE /\ consumed' = FALSE /\ polls' = 0
  /\ \/ at' = "calloc" /\ UNCHANGED outcome
     \/ at' = "idle" /\ outcome' = [outcome EXCEPT ![k + 1] = "bad argument"]
  /\ UNCHANGED <<block, holder, pending, bad>>

\* calloc, which leaves both pointers NULL
AllocateCall ==
  /\ at = "calloc"
  /\ \/ Goto("holder") /\ block' = [block EXCEPT ![k]["call"] = "live"]
     \/ End("out of memory") /\ UNCHANGED block
  /\ UNCHANGED <<k, holder, flag, bad>>

\* R_MakeExternalPtr
MakeHolder ==
  /\ at = "holder"
  /\ \/ Goto("register") /\ holder' = [holder EXCEPT ![k] = "made"]
     \/ End("R error") /\ UNCHANGED holder
  /\ UNCHANGED <<k, block, flag, bad>>

\* Mutant of Register: the finalizer is forgotten.
RegisterNothing ==
  /\ at = "register"
  /\ Goto("create")
  /\ UNCHANGED <<k, block, holder, flag, bad>>

\* R_RegisterCFinalizerEx
Register ==
  /\ at = "register"
  /\ \/ Goto("create") /\ holder' = [holder EXCEPT ![k] = "registered"]
     \/ End("R error") /\ UNCHANGED holder
  /\ UNCHANGED <<k, block, flag, bad>>

\* hannanum_create and hannanum_set_interrupt
Create ==
  /\ at = "create"
  /\ \/ Goto("analyze") /\ block' = [block EXCEPT ![k]["hannanum"] = "live"]
     \/ End("failed to initialize") /\ UNCHANGED block
  /\ UNCHANGED <<k, holder, flag, bad>>

-----------------------------------------------------------------------------
\* Mutant of pending_interrupt: R is asked every time, the flag not kept.
pending_interrupt_unlatched ==
  /\ interrupted' = pending
  /\ consumed' = (consumed \/ pending)
  /\ pending' = FALSE

\* R is asked until it has once acted on an interrupt, which clears it; the
\* jump ends in R_ToplevelExec and is kept in the flag, which is the answer.
pending_interrupt ==
  LET acts == ~interrupted /\ pending
  IN  /\ interrupted' = (interrupted \/ acts)
      /\ consumed' = (consumed \/ acts)
      /\ pending' = (pending /\ ~acts)

\* A poll of hannanum_analyze; a non-zero answer makes it return NULL, at
\* once or after the tagger has failed for it.
Poll ==
  /\ at = "analyze" /\ polls < MaxPolls
  /\ pending_interrupt
  /\ polls' = polls + 1
  /\ IF interrupted' THEN \E next \in {"failed", "ask"} : Goto(next) ELSE Goto("analyze")
  /\ UNCHANGED <<k, block, holder, bad>>

\* The poll that is to tell why the tagger has failed.
AskWhy ==
  /\ at = "ask"
  /\ pending_interrupt
  /\ Goto("failed")
  /\ UNCHANGED <<k, block, holder, polls, bad>>

\* hannanum_analyze returns a result, or NULL for a reason of its own.
Analyzed ==
  /\ at = "analyze"
  /\ \/ Goto("convert") /\ block' = [block EXCEPT ![k]["result"] = "live"]
     \/ \E next \in {"failed", "ask"} : Goto(next) /\ UNCHANGED block
  /\ UNCHANGED <<k, holder, flag, bad>>

-----------------------------------------------------------------------------
\* Mutant of Released: the pointers keep their values.
ReleasedNotCleared(b) ==
  [f \in Fields |-> IF f # "call" /\ b[f] = "live" THEN "dangling" ELSE b[f]]

\* hannanum_call_release: both pointers are freed, if set, and set to NULL.
Released(b) == [f \in Fields |-> IF f = "call" THEN b[f] ELSE "null"]
ReleasesAgain(b) == \E f \in Fields : b[f] = "dangling"

\* hannanum_call_finalize; the external pointer is cleared with it.
Finalized(b) == [Released(b) EXCEPT !["call"] = "dangling"]

\* The message is copied, the analyzer released, the error raised.
Fail ==
  /\ at = "failed"
  /\ bad' = (bad \/ ReleasesAgain(block[k]) \/ block[k]["hannanum"] # "live")
  /\ block' = [block EXCEPT ![k] = Released(@)]
  /\ End(IF interrupted THEN "interrupted by user" ELSE "analysis failed")
  /\ UNCHANGED <<k, holder, flag>>

\* One allocation of R's while the result is turned into R objects.
Convert ==
  /\ at = "convert"
  /\ bad' = (bad \/ block[k]["result"] # "live")
  /\ \E next \in {"convert", "release"} : Goto(next) \/ End("R error")
  /\ UNCHANGED <<k, block, holder, flag>>

Return ==
  /\ at = "release"
  /\ bad' = (bad \/ ReleasesAgain(block[k]))
  /\ block' = [block EXCEPT ![k] = Released(@)]
  /\ End("value")
  /\ UNCHANGED <<k, holder, flag>>

-----------------------------------------------------------------------------
\* Mutant of Collectable: the holder is not protected.
CollectableUnprotected(c) == holder[c] = "registered"

\* The running call protects its holder; nobody else refers to one.
Collectable(c) == holder[c] = "registered" /\ ~Running(c)

\* The collector runs where R allocates or runs handlers.
Finalize(c) ==
  /\ at \in {"idle", "holder", "register", "analyze", "ask", "convert"}
  /\ Collectable(c)
  /\ bad' = (bad \/ ReleasesAgain(block[c]))
  /\ block' = [block EXCEPT ![c] = Finalized(@)]
  /\ holder' = [holder EXCEPT ![c] = "finalized"]
  /\ UNCHANGED <<at, k, flag, outcome>>

\* R runs the finalizers that were registered for its exit.
Quit ==
  /\ at = "idle" /\ at' = "quit"
  /\ block' = [c \in Calls |-> IF Collectable(c) THEN Finalized(block[c]) ELSE block[c]]
  /\ holder' = [c \in Calls |-> IF Collectable(c) THEN "finalized" ELSE holder[c]]
  /\ bad' = (bad \/ \E c \in Calls : Collectable(c) /\ ReleasesAgain(block[c]))
  /\ UNCHANGED <<k, flag, outcome>>

\* The user presses the key; R acts on it itself when no call runs.
Press ==
  /\ at # "quit" /\ ~pending /\ pending' = TRUE
  /\ UNCHANGED <<at, k, block, holder, interrupted, consumed, polls, outcome, bad>>
Act ==
  /\ at = "idle" /\ pending /\ pending' = FALSE
  /\ UNCHANGED <<at, k, block, holder, interrupted, consumed, polls, outcome, bad>>

Next ==
  \/ Start \/ AllocateCall \/ MakeHolder \/ Register \/ Create
  \/ Poll \/ AskWhy \/ Analyzed \/ Fail \/ Convert \/ Return
  \/ \E c \in Calls : Finalize(c)
  \/ Quit \/ Press \/ Act

Spec == Init /\ [][Next]_vars

-----------------------------------------------------------------------------
(* Properties *)

\* A step that needs the analyzer or the result finds it there (the checks
\* for NULL of hannlp_hannanum_analyze come before every use).
TypeOK ==
  /\ at \in {"idle", "calloc", "holder", "register", "create", "analyze", "ask", "failed",
             "convert", "release", "quit"}
  /\ k \in 0 .. MaxCalls /\ polls \in 0 .. MaxPolls
  /\ block \in [Calls -> [Fields -> Pointers]]
  /\ holder \in [Calls -> {"none", "made", "registered", "finalized"}]
  /\ pending \in BOOLEAN /\ interrupted \in BOOLEAN
  /\ consumed \in BOOLEAN /\ bad \in BOOLEAN
  /\ outcome \in [Calls -> Outcomes]
  /\ at \notin {"idle", "quit"} => k \in Calls
  /\ at \in {"analyze", "ask", "failed", "convert", "release"} => block[k]["hannanum"] = "live"
  /\ at \in {"convert", "release"} => block[k]["result"] = "live"

\* Whatever the order of errors, returns and collections, nothing is freed
\* twice (by the call and then by its finalizer) or used after it was freed.
NothingFreedTwice == bad = FALSE

\* While there is an analyzer or a result, there is a finalizer that will
\* find it; only a jump out of R leaves anything to it, a call that ends by
\* its own decision has freed all; and when the session is over all is gone.
OwnerKnows ==
  \A c \in Calls : block[c]["hannanum"] = "live" \/ block[c]["result"] = "live" =>
    /\ holder[c] = "registered" /\ block[c]["call"] = "live"
    /\ Running(c) \/ (outcome[c] = "R error" /\ at # "quit")

\* An interrupt that R has acted on inside the library, where its jump was
\* stopped, is raised again when the library has returned, as nothing else;
\* and no other failure is passed off as one.
InterruptRaised ==
  at = "idle" /\ k > 0 => (consumed <=> outcome[k] = "interrupted by user")

\* The analyzer's custody follows the promise of Custody.
custody ==
  [c \in Calls |->
    IF block[c]["hannanum"] = "live" \/ block[c]["result"] = "live"
    THEN IF Running(c) THEN "held" ELSE "left"
    ELSE IF outcome[c] = "none" THEN "absent" ELSE "gone"]
C == INSTANCE Custody
KeepsCustody == C!Spec

=============================================================================
