-------------------------- MODULE MCMorphemeChart ---------------------------
(***************************************************************************)
(* Small words for MorphemeChart.  Positions 1, 2, 3 are the word; 4 and 5 *)
(* are changed suffixes the rules have made, leading back to 3 and to 2.   *)
(* Tags: a noun, a verb stem (or the copula), and an ending or particle.    *)
(***************************************************************************)
EXTENDS MorphemeChart

MCPositions == 0 .. 5
MCChain == [p \in MCPositions |-> CASE p = 1 -> 2 [] p = 2 -> 3 [] p = 3 -> 0
                                    [] p = 4 -> 3 [] p = 5 -> 2 [] p = 0 -> 1]
MCTags == {"iwg", "unk", "n", "p", "e"}
MCTagTypes == [EOMIES |-> {"e"}, YONGS |-> {"p"}]
MCConnects == { <<"iwg", "n">>, <<"iwg", "p">>, <<"iwg", "unk">>, <<"n", "n">>,
                <<"n", "p">>, <<"n", "e">>, <<"p", "e">>, <<"e", "e">>, <<"e", "p">>,
                <<"n", "iwg">>, <<"e", "iwg">>, <<"unk", "e">>, <<"unk", "iwg">> }

Read(tag, nxt) == [tag |-> tag, next |-> nxt, type |-> "ALL"]
Typed(tag, nxt) == [tag |-> tag, next |-> nxt, type |-> "EOMIES"]

\* Dictionary readings run along the chain, the longest first in each of the
\* dictionaries, one dictionary after the other.
At1 == { <<>>, <<Read("n", 0)>>, <<Read("n", 2)>>, <<Read("p", 3), Read("n", 2)>>,
         <<Read("p", 2), Read("n", 2)>>, <<Read("n", 2), Read("n", 3)>> }
At2 == { <<>>, <<Read("e", 0)>>, <<Read("n", 3)>>, <<Read("e", 0), Read("n", 3), Read("e", 3)>> }
At3 == { <<>>, <<Read("e", 0)>>, <<Read("n", 0), Read("e", 0)>> }
At4 == { <<>>, <<Read("e", 3)>> }
At5 == { <<>>, <<Read("e", 2)>> }

MCLexicons == { [p \in MCPositions |-> CASE p = 0 -> <<>> [] p = 1 -> a [] p = 2 -> b
                                         [] p = 3 -> c [] p = 4 -> d [] p = 5 -> e] :
                 a \in At1, b \in At2, c \in At3, d \in At4, e \in At5 }

\* What the rules may derive: a stem and a changed ending (1 to 4), an
\* inserted copula of no width before an ending (2 to 2, after a noun), a
\* copula before an ending that joins the same position again (2 to 5 to 2)
\* and a stem that only an ending may follow (2 to 3).
Derive(r1, r2) ==
  [p \in MCPositions |-> [t \in MCTags |->
     IF p = 1 THEN r1 ELSE IF p = 2 /\ t \in {"n", "unk"} THEN r2 ELSE <<>>]]
MCRuleSets == { Derive(r1, r2) :
                  r1 \in { <<>>, <<Typed("p", 4)>> },
                  r2 \in { <<>>, <<Typed("p", 3)>>, <<Typed("p", 5), Typed("p", 2), Typed("p", 3)>> } }
MCParens == { <<>>, <<Read("n", 2)>> }

=============================================================================
