------------------------------ MODULE MCLexicon -----------------------------
(***************************************************************************)
(* Lexicon with three directories: a whole one, one without a tag set      *)
(* whose user dictionary is missing too, and one whose tag set is too      *)
(* large.  The words share beginnings and come unsorted, one is too long,  *)
(* one is in both dictionaries, one has analyses in three places, one of   *)
(* them an unknown.  A reading of the chart has two unknowns.              *)
(***************************************************************************)
EXTENDS Lexicon

Tag(n) == [kind |-> "TAG", name |-> n]
Group(n, of) == [kind |-> "TSET", name |-> n, of |-> of]
Irregular(n) == [kind |-> "IRR", name |-> n]
M(text, tag) == [text |-> text, tag |-> tag]
Plain(base) == [base |-> base, minus |-> <<>>]
Surface(key, entries) ==
  [key |-> key, entries |-> [i \in 1 .. Len(entries) |-> [tag |-> entries[i][1], irr |-> entries[i][2]]]]

\* Stems and endings as morphemes: ga, eoss, neunde, which is contracted.
Ga == <<1>>
MCA == <<4>>
Eoss == <<5>>
Neunde == <<6>>
MCOpen == {Ga, MCA}
MCPositive == {Ga}
MCEo == {Eoss}
MCContracted == (Neunde :> <<7>>)

MCTypeRules == { [type |-> "NOUNS", name |-> "n", group |-> TRUE],
                 [type |-> "YONGS", name |-> "v", group |-> FALSE],
                 [type |-> "YONGS", name |-> "p", group |-> TRUE],
                 [type |-> "JP", name |-> "jp", group |-> FALSE] }
MCTags == << Tag("nc"), Tag("nq"), Tag("v"), Group("all", <<"nc", "nq", "v", "none">>),
             Group("n", <<"nc", "nq">>), Group("n", <<"v">>), Irregular("irrb"), Irregular("irrs") >>
MCConnections == << [left  |-> << [base |-> "all", minus |-> <<"n">>] >>, right |-> << Plain("all") >>],
                    [left  |-> << Plain("nc"), [base |-> "all", minus |-> <<"v", "nc">>], Plain("v") >>,
                     right |-> << Plain("nq"), Plain("none") >>] >>
MCAnalyzed == << [key |-> <<1>>, alts |-> << <<M(Ga, "v"), M(Eoss, "ep"), M(Neunde, "ef")>>, <<>> >>],
                 [key |-> <<2>>, alts |-> << <<>> >>],
                 [key |-> <<1>>, alts |-> << <<M(<<1>>, "unk")>> >>] >>
MCSystem == << Surface(<<2, 1>>, << <<"v", "irrs">>, <<"nc", "">> >>),
               Surface(<<2>>, << <<"nq", "irrb">>, <<"", "irrb">> >>),
               Surface(<<1>>, << <<"nc", "">> >>),
               Surface(<<2, 1, 3>>, << <<"nc", "">> >>) >>
MCUser == << Surface(<<2, 1>>, << <<"nc", "">>, <<"none", "none">> >>),
             Surface(<<3>>, << <<"nc", "">> >>), Surface(<<1>>, << <<"nq", "">> >>),
             Surface(<<2>>, << <<"v", "">> >>) >>
MCProbs == << [key |-> "a", value |-> 1], [key |-> "b", value |-> 2], [key |-> "a", value |-> 3] >>

MCDirectories == {
  [tags |-> MCTags, connections |-> MCConnections, analyzed |-> MCAnalyzed,
   system |-> MCSystem, user |-> MCUser, pwt |-> MCProbs, ptt_pos |-> <<>>, ptt_wp |-> MCProbs],
  [connections |-> MCConnections, system |-> MCSystem, pwt |-> MCProbs],
  [tags |-> <<Tag("nq"), Tag("v"), Tag("nc"), Tag("none"), Irregular("irrb")>>,
   connections |-> MCConnections, user |-> MCUser] }

MCProbes == { <<1>>, <<3>>, <<2, 1>>, <<2, 1, 3>> }
MCChartResults == { <<>>, << <<M(<<3>>, "unk")>> >>,
  << <<M(<<1>>, "nc")>>, <<M(<<3>>, "unk"), M(Neunde, "ef")>> >>,
  << <<M(<<3>>, "unk"), M(<<2>>, "v"), M(<<1>>, "unk")>>, <<M(<<3>>, "nqq")>> >>,
  << <<M(<<3>>, "unk"), M(<<2>>, "v")>>, <<M(<<2>>, "nq"), M(<<1>>, "unk")>> >> }

=============================================================================
