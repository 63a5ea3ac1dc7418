----------------------------- MODULE HmmTagger ------------------------------
(***************************************************************************)
(* hmm_pos_tagger.c: choosing one candidate per eojeol.                    *)
(*                                                                         *)
(* select_best_by_sentence cuts the eojeols into sentences and runs        *)
(* select_best_ex on each: a Viterbi pass over the columns of candidates   *)
(* that looks, in each column, only at one candidate per phrase, and a     *)
(* walk back through the remembered predecessors.  The interrupt callback  *)
(* is polled once per column in either pass.                               *)
(*                                                                         *)
(* A candidate is its phrase, its own score wt and its tags, of which only *)
(* "sf" matters here.  Scores are integers: the model has the comparisons  *)
(* and ties of the code and not the rounding of its doubles.  Columns and  *)
(* candidates count from 1, from 0 in the code.                            *)
(***************************************************************************)
EXTENDS Integers, Sequences, FiniteSets, SequencesExt, FiniteSetsExt

CONSTANTS
  Inputs,       \* the candidate sets a call may be given
  Transitions,  \* wp_transition: scores of steps between phrases, and to "SF"
  Phrases,      \* what phrase_tag may give
  MaxPhrases    \* HMM_MAX_PHRASES

Candidates == [phrase : Phrases, wt : Int, tags : Seq(STRING)]

ASSUME TaggerAssumption ==
  /\ Inputs \subseteq Seq(Seq(Candidates))
  /\ \A w \in Transitions : \A p \in Phrases, q \in Phrases \cup {"SF"} : w[<<p, q>>] \in Int

VARIABLES
  sets, wp,     \* the arguments and the model of this call
  at,           \* "sentence", "build", "forward", "back", "done" or "failed"
  start, stop,  \* the first column of the present sentence, and its last
  pin,          \* pin_last
  col,          \* the column the pass is at
  phrases,      \* hmm_phrase_table_t.phrase
  nodes,        \* the nodes of the columns built so far
  selected      \* the output array

vars == <<sets, wp, at, start, stop, pin, col, phrases, nodes, selected>>

-----------------------------------------------------------------------------
(* Where a sentence ends *)

\* candidate_list_is_sentence_final
AllSentenceFinal(list) ==
  /\ list # <<>>
  /\ \A j \in 1 .. Len(list) : list[j].tags # <<>> /\ ToSet(list[j].tags) = {"sf"}

\* candidate_first_is_single_sentence_final
FirstIsSingleFinal(list) == list # <<>> /\ list[1].tags = <<"sf">>

\* candidate_first_has_sentence_final
FirstHasFinal(list) == list # <<>> /\ "sf" \in ToSet(list[1].tags)

Stops(list) == AllSentenceFinal(list) \/ FirstIsSingleFinal(list)

-----------------------------------------------------------------------------
Init ==
  /\ sets \in Inputs
  /\ wp \in Transitions
  /\ at = "sentence"
  /\ start = 1 /\ stop = 0 /\ pin = FALSE /\ col = 0
  /\ phrases = <<>>
  /\ nodes = <<>>
  /\ selected = [i \in 1 .. Len(sets) |-> 1]

\* select_best_by_sentence cuts off the next sentence, and select_best_ex
\* begins: it refuses a sentence with an empty column.
FindSentence ==
  LET ends == { i \in start .. Len(sets) : Stops(sets[i]) }
      last == IF ends = {} THEN Len(sets) ELSE Min(ends)
  IN  /\ at = "sentence" /\ start <= Len(sets)
      /\ stop' = last
      /\ pin' = (ends # {} \/ FirstHasFinal(sets[last]))
      /\ at' = IF \E i \in start .. last : sets[i] = <<>> THEN "failed" ELSE "build"
      /\ col' = start /\ phrases' = <<>> /\ nodes' = <<>>
      /\ UNCHANGED <<sets, wp, start, selected>>

\* hmm_phrase_id for each candidate of a column: the phrases there are then.
WithPhrasesOf(list) ==
  LET known[n \in 0 .. Len(list)] ==
        IF n = 0 THEN phrases
        ELSE LET before == known[n - 1]
             IN  IF Contains(before, list[n].phrase) THEN before
                 ELSE Append(before, list[n].phrase)
  IN  known[Len(list)]

\* The columns are built one by one, each with its phrases given an id.
BuildColumn ==
  LET list  == sets[col]
      known == WithPhrasesOf(list)
  IN  /\ at = "build"
      /\ Len(known) <= MaxPhrases
      /\ phrases' = known
      /\ nodes' = Append(nodes, [j \in 1 .. Len(list) |->
                                   [phrase |-> list[j].phrase, wt |-> list[j].wt,
                                    score |-> IF col = start THEN list[j].wt ELSE 0,
                                    back |-> 1, hasBack |-> FALSE]])
      /\ IF col < stop THEN col' = col + 1 /\ UNCHANGED at
         ELSE col' = start /\ at' = IF start = stop THEN "back" ELSE "forward"
      /\ UNCHANGED <<sets, wp, start, stop, pin, selected>>

\* hmm_phrase_id runs out of ids in the column.
TooManyPhrases ==
  /\ at = "build"
  /\ Cardinality(ToSet(phrases) \cup { sets[col][j].phrase : j \in 1 .. Len(sets[col]) }) > MaxPhrases
  /\ at' = "failed"
  /\ UNCHANGED <<sets, wp, start, stop, pin, col, phrases, nodes, selected>>

\* Either pass polls the callback before each column and gives up when it
\* says so, as the build does when a column cannot be allocated.
Interrupted ==
  /\ at \in {"build", "forward"}
  /\ at' = "failed"
  /\ UNCHANGED <<sets, wp, start, stop, pin, col, phrases, nodes, selected>>

\* nodes[] counts the columns of the sentence from 1.
Column(i) == nodes[i - start + 1]

\* group_back: of the candidates of column i with phrase p, the earliest top
\* scorer.
GroupBack(i, p) ==
  LET group == { j \in 1 .. Len(Column(i)) : Column(i)[j].phrase = p }
  IN  Min({ j \in group : \A o \in group : Column(i)[o].score <= Column(i)[j].score })

Present(i, p) == \E j \in 1 .. Len(Column(i)) : Column(i)[j].phrase = p

\* Mutant of Better: between equal scores the phrase that came first wins.
BetterFirstPhrase(i, n, p) ==
  IF ~Present(i, p) THEN n
  ELSE LET b == GroupBack(i, p)
           s == Column(i)[b].score + wp[<<p, n.phrase>>] + n.wt
       IN  IF ~n.hasBack \/ s > n.score
           THEN [n EXCEPT !.score = s, !.back = b, !.hasBack = TRUE] ELSE n

\* A node after it has looked at column i's candidate for phrase p.
Better(i, n, p) ==
  IF ~Present(i, p) THEN n
  ELSE LET b == GroupBack(i, p)
           s == Column(i)[b].score + wp[<<p, n.phrase>>] + n.wt
       IN  IF ~n.hasBack \/ s > n.score \/ (s = n.score /\ b < n.back)
           THEN [n EXCEPT !.score = s, !.back = b, !.hasBack = TRUE] ELSE n

\* One node of the next column looks for its best predecessor in column i.
Step(i, node) ==
  LET best[m \in 0 .. Len(phrases)] ==
        IF m = 0 THEN node ELSE Better(i, best[m - 1], phrases[m])
  IN  best[Len(phrases)]

ForwardColumn ==
  /\ at = "forward"
  /\ nodes' = [nodes EXCEPT ![col - start + 2] =
                 [k \in 1 .. Len(@) |-> Step(col, @[k])]]
  /\ IF col + 1 < stop THEN col' = col + 1 /\ UNCHANGED at
     ELSE col' = stop /\ at' = "back"
  /\ UNCHANGED <<sets, wp, start, stop, pin, phrases, selected>>

\* Mutant of LastBest: the walk back starts from candidate 0, as in JHanNanum.
LastBestFirst == 1

\* The candidate of the last column to walk back from: the first one where
\* the sentence ends in punctuation, else the best to step from to "SF".
LastBest ==
  LET list   == Column(stop)
      ended(j) == list[j].score + wp[<<list[j].phrase, "SF">>]
  IN  IF pin THEN 1
      ELSE Min({ j \in 1 .. Len(list) : \A o \in 1 .. Len(list) : ended(o) <= ended(j) })

BackTrack ==
  LET walk[i \in start .. stop] ==
        IF i = stop THEN LastBest ELSE Column(i + 1)[walk[i + 1]].back
  IN  /\ at = "back"
      /\ selected' = [i \in 1 .. Len(sets) |-> IF i \in start .. stop THEN walk[i]
                                               ELSE selected[i]]
      /\ start' = stop + 1
      /\ at' = "sentence"
      /\ UNCHANGED <<sets, wp, stop, pin, col, phrases, nodes>>

\* After the last sentence every choice is checked against its column.
Finish ==
  /\ at = "sentence" /\ start > Len(sets)
  /\ at' = IF \A i \in 1 .. Len(sets) : selected[i] <= Len(sets[i]) THEN "done" ELSE "failed"
  /\ UNCHANGED <<sets, wp, start, stop, pin, col, phrases, nodes, selected>>

Next ==
  \/ FindSentence \/ BuildColumn \/ TooManyPhrases \/ Interrupted
  \/ ForwardColumn \/ BackTrack \/ Finish

Spec == Init /\ [][Next]_vars

-----------------------------------------------------------------------------
(* Properties *)

\* "The transition score depends only on the phrase pair, so the best
\* predecessor within each phrase group is the earliest top scorer"
\* (select_best_ex): looking at one candidate per phrase finds, for every
\* node of a finished column, the score the plain search over all the
\* predecessors would find, and the earliest predecessor that has it.
GroupingLosesNothing ==
  at \in {"forward", "back"} =>
    \A i \in start .. (IF at = "back" THEN stop - 1 ELSE col - 1) :
      \A k \in 1 .. Len(Column(i + 1)) :
        LET n      == Column(i + 1)[k]
            via(j) == Column(i)[j].score + wp[<<Column(i)[j].phrase, n.phrase>>] + n.wt
            all    == 1 .. Len(Column(i))
        IN  /\ n.score = Max({ via(j) : j \in all })
            /\ n.back = Min({ j \in all : via(j) = n.score })

\* When the call fails half way, some sentences have been chosen and the rest
\* of the output array still names the first candidates.
Promise == INSTANCE BestTagging WITH
             outcome <- IF at \in {"done", "failed"} THEN at ELSE "busy",
             choice  <- IF at = "done" THEN selected ELSE <<>>

\* The tagger keeps its promise (BestTagging): a call that succeeds has
\* chosen, in every sentence, candidates whose total score no other choice
\* beats, the last one pinned where it stands for the sentence end.
KeepsPromise == Promise!Spec

=============================================================================
