---------------------------- MODULE MCHmmTagger -----------------------------
(***************************************************************************)
(* Texts of up to three eojeols for HmmTagger: two word phrases, one of    *)
(* punctuation and a fourth that exceeds MaxPhrases with the others, and   *)
(* tables of transitions that favour one predecessor, the other, or leave  *)
(* ties.                                                                   *)
(***************************************************************************)
EXTENDS HmmTagger

Cand(phrase, wt, tags) == [phrase |-> phrase, wt |-> wt, tags |-> tags]

a0 == Cand("A", 0, <<"x">>)
a1 == Cand("A", 1, <<"x">>)
b0 == Cand("B", 0, <<"x">>)
b1 == Cand("B", 1, <<"x">>)
dot == Cand("S", 0, <<"sf">>)
dots == Cand("S", 1, <<"sf", "sf">>)
abbreviation == Cand("A", 0, <<"x", "sf">>)

Columns ==
  { <<a0>>, <<a0, b0>>, <<a0, b1>>, <<b0, a1, a1>>, <<a0, a1, b1>>, <<b1, a0, b1>>,
    <<dot, a1>>, <<dots, dot>>, <<abbreviation, b1>>, <<dots, a1>> }
Odd == { <<>>, <<Cand("C", 0, <<"x">>), a1>> }

MCInputs ==
  (UNION { [1 .. n -> Columns] : n \in 0 .. 3 })
    \cup { <<c, o>> : c \in Columns, o \in Odd }
    \cup { <<c, d, o>> : c \in Columns, d \in Columns, o \in Odd }

MCPhrases == {"A", "B", "C", "S"}
Table(same, other, end) ==
  [st \in MCPhrases \X (MCPhrases \cup {"SF"}) |->
     IF st[2] = "SF" THEN (IF st[1] = "A" THEN end ELSE 0)
     ELSE IF st[1] = st[2] THEN same ELSE other]
MCTransitions == { Table(1, 0, 0), Table(0, 1, 0), Table(0, 0, 2), Table(0, 2, -1) }

=============================================================================
