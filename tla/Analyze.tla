------------------------------ MODULE Analyze -------------------------------
(***************************************************************************)
(* hannanum_analyze (workflow.c): one call of the analyzer, with every     *)
(* allocation that may fail, every point where the caller's interrupt      *)
(* callback is polled, and who frees what on which way out.                *)
(*                                                                         *)
(* The texts and the morphemes are left to the other modules.  What is     *)
(* kept of the data is, for each block of memory, the state of the pointer *)
(* the call holds to it: "null", "live", or "dangling" once the block has  *)
(* been freed and the pointer not yet gone.  A block that is one of many   *)
(* is named by a pair: <<"set", 2>> is the content of sets[1].             *)
(***************************************************************************)
EXTENDS Naturals, FiniteSets

CONSTANTS
  Modes,        \* the output modes to look at
  Callbacks,    \* "none", "latching" (once non-zero always non-zero), "momentary"
  MaxTokens,    \* a text has at most this many eojeols
  MaxCalls      \* the calls made one after the other on one handle

AllModes == {"MORPH", "MORPH_SIMPLE_09", "MORPH_SIMPLE_22", "HMM_POS",
             "SIMPLE_POS_09", "SIMPLE_POS_22", "NOUNS"}
MorphModes == {"MORPH", "MORPH_SIMPLE_09", "MORPH_SIMPLE_22"}

ASSUME AnalyzeAssumption ==
  /\ Modes \subseteq AllModes
  /\ Callbacks \subseteq {"none", "latching", "momentary"}
  /\ MaxTokens \in Nat /\ MaxCalls \in Nat

VARIABLES
  mode,         \* output_mode
  callback,     \* how the interrupt callback behaves
  given,        \* this call has been given a text, not NULL
  at,           \* the next step of the call, "idle" between calls
  n,            \* tokens.count
  i,            \* the loop variable, from 1
  ptr,          \* what each pointer is
  bad,          \* a freed block has been freed again or used
  said,         \* the callback has returned non-zero in this call
  error,        \* <<error message, the call that set it>>
  returned,     \* "nothing" yet, "null" or "result"
  call          \* the number of the call

vars == <<mode, callback, given, at, n, i, ptr, bad, said, error, returned, call>>

Tokens == 1 .. MaxTokens
One(name) == <<name, 0>>
Each(name) == {name} \X Tokens
Locals == { One("filtered"), One("tokens"), One("sets"), One("selected") } \cup Each("set")
OfResult == { One("result"), One("plain"), One("out") } \cup Each("plain") \cup Each("out")
Blocks == Locals \cup OfResult

Live(p) == { b \in Blocks : p[b] = "live" }
Allocate(p, B) == [b \in Blocks |-> IF b \in B THEN "live" ELSE p[b]]
Free(p, B) == [b \in Blocks |-> IF b \in B /\ p[b] = "live" THEN "dangling" ELSE p[b]]
FreesAgain(p, B) == \E b \in B : p[b] = "dangling"

\* What the callback may answer now.
Answers == IF callback = "none" THEN {FALSE}
           ELSE IF callback = "latching" /\ said THEN {TRUE} ELSE BOOLEAN

\* The call frees B, the pointers being p, and goes on to `next`.
FreeThen(p, B, next) ==
  /\ ptr' = Free(p, B)
  /\ bad' = (bad \/ FreesAgain(p, B))
  /\ at' = next

\* The call frees B, sets the error and returns NULL.
Fail(p, B, message) ==
  /\ FreeThen(p, B, "idle")
  /\ error' = <<message, call>>
  /\ returned' = "null"

\* free_candidate_list of sets[0 .. count - 1]; sets; selected; tokens.
SetsUpTo(count) == {"set"} \X (1 .. count)
Work == { One("sets"), One("selected"), One("tokens") }

-----------------------------------------------------------------------------
Init ==
  /\ mode \in Modes
  /\ callback \in Callbacks
  /\ given = FALSE
  /\ at = "idle" /\ n = 0 /\ i = 1
  /\ ptr = [b \in Blocks |-> "null"]
  /\ bad = FALSE /\ said = FALSE
  /\ error = <<"", 0>>
  /\ returned = "null"
  /\ call = 0

\* The caller has done with the result before, if there was one, and makes
\* the next call on the same handle.
Begin(text) ==
  /\ at = "idle" /\ call < MaxCalls
  /\ Live(ptr) = {}
  /\ given' = text
  /\ ptr' = [b \in Blocks |-> "null"]
  /\ said' = FALSE /\ call' = call + 1
  /\ UNCHANGED <<mode, callback, bad, error>>

Call ==
  /\ Begin(TRUE)
  /\ at' = "filter" /\ n' = 0 /\ i' = 1
  /\ returned' = "nothing"

\* A call without a text returns NULL before it does anything: it has no error
\* of its own, and the message is still what an earlier call has left.  (A
\* call without a handle does the same and leaves no handle to ask.)
CallWithoutText ==
  /\ Begin(FALSE)
  /\ returned' = "null"
  /\ UNCHANGED <<at, n, i>>

\* The caller destroys the result (hannanum_result_destroy).
DestroyResult ==
  /\ at = "idle" /\ returned = "result" /\ ptr[One("result")] = "live"
  /\ FreeThen(ptr, OfResult, "idle")
  /\ UNCHANGED <<mode, callback, given, n, i, said, error, returned, call>>

\* informal_sentence_filter
Filter ==
  /\ at = "filter"
  /\ \/ /\ ptr' = Allocate(ptr, {One("filtered")})
        /\ at' = "split"
        /\ UNCHANGED <<bad, error, returned>>
     \/ Fail(ptr, {}, "failed to filter informal input")
  /\ UNCHANGED <<mode, callback, given, n, i, said, call>>

\* Mutant of Split: the failure is not reported.
SplitSilent ==
  /\ at = "split"
  /\ \/ /\ n' \in 0 .. MaxTokens
        /\ FreeThen(Allocate(ptr, {One("tokens")}), {One("filtered")}, "allocate")
        /\ UNCHANGED <<error, returned>>
     \/ /\ FreeThen(ptr, {One("filtered")}, "idle")
        /\ returned' = "null"
        /\ UNCHANGED <<n, error>>
  /\ UNCHANGED <<mode, callback, given, i, said, call>>

\* split_eojeols, which may fail with some of the tokens already there.
Split ==
  /\ at = "split"
  /\ \/ /\ n' \in 0 .. MaxTokens
        /\ FreeThen(Allocate(ptr, {One("tokens")}), {One("filtered")}, "allocate")
        /\ UNCHANGED <<error, returned>>
     \/ /\ Fail(Allocate(ptr, {One("tokens")}), {One("filtered"), One("tokens")},
                "failed to split input")
        /\ UNCHANGED n
  /\ UNCHANGED <<mode, callback, given, i, said, call>>

\* result, sets and selected, any of which may not be had.
AllocateWork ==
  LET wanted == {One("result"), One("sets"), One("selected")}
  IN  /\ at = "allocate"
      /\ \E got \in SUBSET wanted :
           IF got = wanted
           THEN /\ ptr' = Allocate(ptr, got)
                /\ at' = "candidates"
                /\ UNCHANGED <<bad, error, returned>>
           ELSE Fail(Allocate(ptr, got), wanted \cup {One("tokens")}, "out of memory")
      /\ UNCHANGED <<mode, callback, given, n, i, said, call>>

\* Mutant of Candidates: the lists made so far are forgotten when the
\* callback says stop.
CandidatesForgettingLists ==
  /\ at = "candidates" /\ i <= n
  /\ \E says \in Answers :
       /\ said' = (said \/ says)
       /\ IF says
          THEN Fail(ptr, Work \cup {One("result")}, "analysis interrupted") /\ UNCHANGED i
          ELSE /\ ptr' = Allocate(ptr, {<<"set", i>>})
               /\ i' = i + 1
               /\ UNCHANGED <<at, bad, error, returned>>
  /\ UNCHANGED <<mode, callback, given, n, call>>

\* One eojeol: the callback, then candidates_for, whose list is empty when it
\* has failed.
Candidates ==
  /\ at = "candidates" /\ i <= n
  /\ \E says \in Answers :
       /\ said' = (said \/ says)
       /\ IF says
          THEN /\ Fail(ptr, SetsUpTo(i - 1) \cup Work \cup {One("result")}, "analysis interrupted")
               /\ UNCHANGED i
          ELSE /\ \E found \in BOOLEAN :
                    ptr' = Allocate(ptr, IF found THEN {<<"set", i>>} ELSE {})
               /\ i' = i + 1
               /\ UNCHANGED <<at, bad, error, returned>>
  /\ UNCHANGED <<mode, callback, given, n, call>>

\* The arrays of the result, in the modes that skip the tagger.
AllocateMorph ==
  /\ at = "candidates" /\ i > n /\ mode \in MorphModes
  /\ \E got \in SUBSET {One("plain"), One("out")} :
       IF got = {One("plain"), One("out")}
       THEN /\ ptr' = Allocate(ptr, got)
            /\ at' = "morph" /\ i' = 1
            /\ UNCHANGED <<bad, error, returned>>
       ELSE /\ Fail(Allocate(ptr, got), OfResult \cup SetsUpTo(n) \cup Work, "out of memory")
            /\ UNCHANGED i
  /\ UNCHANGED <<mode, callback, given, n, said, call>>

\* One eojeol is copied to the result: its text and its candidates, either of
\* which may stay empty for want of memory; a simplified mode may fail on it.
CopyMorph ==
  /\ at = "morph" /\ i <= n
  /\ \E made \in SUBSET {<<"plain", i>>, <<"out", i>>} :
       LET p == Allocate(ptr, made)
       IN  /\ <<"out", i>> \in made => ptr[<<"set", i>>] = "live"
           /\ \/ /\ ptr' = p /\ i' = i + 1
                 /\ UNCHANGED <<at, bad, error>>
              \/ /\ mode # "MORPH"
                 /\ FreeThen(p, OfResult, "cleanup")
                 /\ error' = <<"failed to produce simple MA result", call>>
                 /\ UNCHANGED i
  /\ UNCHANGED <<mode, callback, given, n, said, returned, call>>

EndMorph ==
  /\ at = "morph" /\ i > n
  /\ at' = "cleanup"
  /\ UNCHANGED <<mode, callback, given, n, i, ptr, bad, said, error, returned, call>>

\* select_best_by_sentence (HmmTagger) finds a choice for every eojeol, is
\* told to stop by the callback, or fails: of itself, or because a column is
\* empty.
Tag ==
  /\ at = "candidates" /\ i > n /\ mode \notin MorphModes
  /\ \/ /\ \A k \in 1 .. n : ptr[<<"set", k>>] = "live"
        /\ n > 0 => FALSE \in Answers
        /\ at' = "result"
        /\ UNCHANGED <<ptr, bad, said>>
     \/ /\ n > 0
        /\ \E says \in Answers : said' = (said \/ says)
        /\ FreeThen(ptr, SetsUpTo(n) \cup Work \cup {One("result")}, "untagged")
  /\ UNCHANGED <<mode, callback, given, n, i, error, returned, call>>

\* Mutant of Untagged: the callback is not asked again.
UntaggedUnasked ==
  /\ at = "untagged"
  /\ Fail(ptr, {}, "failed to select best candidate")
  /\ UNCHANGED <<mode, callback, given, n, i, said, call>>

\* Why the tagger failed is asked of the callback once more.
Untagged ==
  /\ at = "untagged"
  /\ \E says \in Answers :
       /\ said' = (said \/ says)
       /\ Fail(ptr, {}, IF says THEN "analysis interrupted" ELSE "failed to select best candidate")
  /\ UNCHANGED <<mode, callback, given, n, i, call>>

\* The arrays of the result, and the chosen candidates copied into them.
MakeResult ==
  /\ at = "result"
  /\ \E got \in SUBSET {One("plain"), One("out")} :
       IF got = {One("plain"), One("out")}
       THEN \E copied \in SUBSET ({"plain", "out"} \X (1 .. n)) :
              /\ ptr' = Allocate(ptr, got \cup copied)
              /\ bad' = (bad \/ \E k \in 1 .. n : ptr[<<"set", k>>] # "live")
              /\ at' = "simplify"
              /\ UNCHANGED <<error, returned>>
       ELSE Fail(Allocate(ptr, got), OfResult \cup SetsUpTo(n) \cup Work, "out of memory")
  /\ UNCHANGED <<mode, callback, given, n, i, said, call>>

\* The simplified modes and the noun extractor rework the result, or fail.
Simplify ==
  /\ at = "simplify"
  /\ \/ /\ at' = "cleanup"
        /\ UNCHANGED <<ptr, bad, error>>
     \/ /\ mode # "HMM_POS"
        /\ FreeThen(ptr, OfResult, "cleanup")
        /\ error' = <<"failed to simplify", call>>
  /\ UNCHANGED <<mode, callback, given, n, i, said, returned, call>>

\* The end both ways have in common; the result has survived or has not.
Cleanup ==
  /\ at = "cleanup"
  /\ FreeThen(ptr, SetsUpTo(n) \cup Work, "idle")
  /\ returned' = IF ptr[One("result")] = "live" THEN "result" ELSE "null"
  /\ UNCHANGED <<mode, callback, given, n, i, said, error, call>>

Next ==
  \/ Call \/ CallWithoutText \/ DestroyResult
  \/ Filter \/ Split \/ AllocateWork \/ Candidates
  \/ AllocateMorph \/ CopyMorph \/ EndMorph
  \/ Tag \/ Untagged \/ MakeResult \/ Simplify
  \/ Cleanup

Spec == Init /\ [][Next]_vars

-----------------------------------------------------------------------------
(* Properties *)

\* On no way out is a block freed twice or copied from after it was freed;
\* and on every way out, whatever was allocated and whatever failed, all that
\* is left is the result, and only when it is returned.
FreedExactlyOnce ==
  /\ ~bad
  /\ at = "idle" =>
       /\ Live(ptr) \subseteq OfResult
       /\ returned = "null" => Live(ptr) = {}
       /\ ptr[One("result")] # "live" => Live(ptr) = {}

\* A call that was given a text and returns NULL leaves the reason in
\* hannanum_error: the message is this call's and not one that an earlier call
\* left on the handle, and it blames the callback only if the callback did
\* answer non-zero.  A call with input == NULL promises nothing of the kind:
\* whoever asks it for its error is told that of an earlier call, or nothing.
FailureSetsError ==
  at = "idle" /\ given /\ returned = "null" =>
    /\ error[2] = call
    /\ error[1] = "analysis interrupted" => said

\* A non-zero answer of the callback always aborts the call, and the error
\* says so where the callback stands by its answer.
InterruptAborts ==
  at = "idle" /\ said =>
    /\ returned = "null"
    /\ callback = "latching" => error = <<"analysis interrupted", call>>

\* "a non-zero return aborts hannanum_analyze(), which then returns NULL with
\* the error "analysis interrupted"" (hannanum.h), with no condition on what
\* the callback answers later.
InterruptedSaysSo ==
  at = "idle" /\ said => returned = "null" /\ error = <<"analysis interrupted", call>>

=============================================================================
