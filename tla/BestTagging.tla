---------------------------- MODULE BestTagging -----------------------------
(***************************************************************************)
(* What the tagger promises, without how: one call chooses a candidate for *)
(* every eojeol, sentence by sentence, and in each sentence the choice has *)
(* the highest score there is -- or the call fails and chooses nothing.    *)
(***************************************************************************)
EXTENDS Integers, Sequences

CONSTANTS
  Inputs,       \* the possible candidate sets, one sequence per eojeol
  Transitions   \* the possible tables of transition scores between phrases

VARIABLES
  sets,         \* the candidate sets of the call
  wp,           \* its transition scores
  outcome,      \* "busy", "done" or "failed"
  choice        \* the chosen candidate of each eojeol, <<>> until done

IsSf(e) == e.tags # <<>> /\ \A k \in 1 .. Len(e.tags) : e.tags[k] = "sf"

\* The eojeol is sentence-final punctuation and nothing else can be meant.
EndsSentence(list) ==
  /\ list # <<>>
  /\ \/ \A j \in 1 .. Len(list) : IsSf(list[j])
     \/ IsSf(list[1]) /\ Len(list[1].tags) = 1

\* Its first candidate has sentence-final punctuation in it.
CarriesFinal(list) == list # <<>> /\ \E k \in 1 .. Len(list[1].tags) : list[1].tags[k] = "sf"

\* The first and the last eojeol of each sentence.
Sentences ==
  { s \in (1 .. Len(sets)) \X (1 .. Len(sets)) :
      /\ s[1] <= s[2]
      /\ s[1] = 1 \/ EndsSentence(sets[s[1] - 1])
      /\ s[2] = Len(sets) \/ EndsSentence(sets[s[2]])
      /\ \A i \in s[1] .. (s[2] - 1) : ~EndsSentence(sets[i]) }

\* The last eojeol stands for the sentence end: its first candidate is taken.
Pinned(s) == EndsSentence(sets[s[2]]) \/ CarriesFinal(sets[s[2]])

ChoicesOf(s) ==
  { c \in [s[1] .. s[2] -> UNION { 1 .. Len(sets[i]) : i \in s[1] .. s[2] }] :
      /\ \A i \in s[1] .. s[2] : c[i] <= Len(sets[i])
      /\ Pinned(s) => c[s[2]] = 1 }

Chosen(c, i) == sets[i][c[i]]

\* The words of a choice, the steps between its phrases, and the step to the
\* end of the sentence where that has no word of its own.
Score(s, c) ==
  LET upTo[i \in s[1] .. s[2]] ==
        Chosen(c, i).wt +
          IF i = s[1] THEN 0
          ELSE upTo[i - 1] + wp[<<Chosen(c, i - 1).phrase, Chosen(c, i).phrase>>]
  IN  upTo[s[2]] + IF Pinned(s) THEN 0 ELSE wp[<<Chosen(c, s[2]).phrase, "SF">>]

Best(s, c) == \A d \in ChoicesOf(s) : Score(s, d) <= Score(s, c)

Init ==
  /\ sets \in Inputs
  /\ wp \in Transitions
  /\ outcome = "busy"
  /\ choice = <<>>

Choose ==
  /\ outcome = "busy"
  /\ outcome' = "done"
  /\ Len(choice') = Len(sets)
  /\ \A s \in Sentences :
       LET c == [i \in s[1] .. s[2] |-> choice'[i]]
       IN  c \in ChoicesOf(s) /\ Best(s, c)
  /\ UNCHANGED <<sets, wp>>

Fail == outcome = "busy" /\ outcome' = "failed" /\ UNCHANGED <<sets, wp, choice>>

Next == Choose \/ Fail

Spec == Init /\ [][Next]_<<sets, wp, outcome, choice>>

=============================================================================
