---------------------------- MODULE WordReading -----------------------------
(***************************************************************************)
(* What the chart reads a word as: a walk along the texts that dictionary  *)
(* words and phoneme rules lead to, from the whole word on.                *)
(*                                                                         *)
(* The state is one visit: the text that remains, the tag type the visit   *)
(* asks for and the changes the rules derive for that text.  The rules are *)
(* asked once for a text, by whichever visit comes first, with the         *)
(* morpheme that visit comes from: for the whole word that is the start    *)
(* node, which has no text; for any other text the model leaves open       *)
(* whether that morpheme ends in a vowel, all that the rules look at.      *)
(* Which visit comes first, and when a position is done with, is the       *)
(* matter of MorphemeChart; how a text becomes a position, of              *)
(* SegmentLattice.                                                         *)
(***************************************************************************)
EXTENDS PhonemeRules

CONSTANTS
  Words,        \* eojeols, as sequences of code points
  TagsOf(_, _), \* the tags the dictionaries have for a triple, in entries of a class
  MaxHead       \* how much the rules may put before a rest of the word, in jamo

ASSUME WordAssumption == MaxHead \in Nat

VARIABLES
  word,         \* the eojeol
  text,         \* what remains of it at the visited position, in jamo
  type,         \* the tag type the visit asks for
  changes,      \* what the rules derive there
  plain,        \* no rule has been used so far
  spelling      \* if so, the texts of the morphemes so far, one after the other

vars == <<word, text, type, changes, plain, spelling>>

\* set_tag_types_kaist, of the tags that the rules' types tell apart: verb
\* stems, prefinal endings, other endings, the copula, nouns, particles.
TagType == [ALL    |-> {"p", "ep", "e", "jp", "n", "j"},
            YONGS  |-> {"p", "ep", "jp"},
            EOMIES |-> {"e", "ep"},
            JP     |-> {"jp"},
            NBNP   |-> {"n"},
            JOSA   |-> {"j"}]

\* check_phoneme_type: "irrb" is the first class the tag set declares, its
\* number is 0, and 0 asks for no class.
Asked(class) == IF class = "irrb" THEN "any" ELSE class

-----------------------------------------------------------------------------
(* number_dic.c *)

number_dic_automata ==
  << <<0, 0, 0, 0, 0, 0, 0>>,   <<0, 9, 9, 0, 0, 2, 0>>,   <<1, 0, 0, 11, 5, 3, 0>>,
     <<1, 0, 0, 11, 5, 4, 0>>,  <<1, 0, 0, 11, 5, 10, 0>>, <<0, 0, 0, 0, 0, 6, 0>>,
     <<0, 0, 0, 0, 0, 7, 0>>,   <<0, 0, 0, 0, 0, 8, 0>>,   <<1, 0, 0, 0, 5, 0, 0>>,
     <<0, 0, 0, 0, 0, 10, 0>>,  <<1, 0, 0, 11, 0, 10, 0>>, <<1, 0, 0, 0, 0, 12, 0>>,
     <<1, 0, 0, 0, 0, 12, 0>> >>

\* A digit is told by the last byte of its code point.
NodeLook(c, state) ==
  number_dic_automata[state + 1][
    CASE c = 43 -> 2 [] c = 45 -> 3 [] c = 46 -> 4 [] c = 44 -> 5
      [] OTHER -> IF c % 256 \in 48 .. 57 THEN 6 ELSE 7]

\* The length of the longest number t begins with, or 0.
NumberEnd(t) ==
  LET state[i \in 0 .. Len(t)] == IF i = 0 THEN 1 ELSE NodeLook(t[i], state[i - 1])
      ends == { i \in 1 .. Len(t) : number_dic_automata[state[i] + 1][1] = 1 }
  IN  IF ends = {} THEN 0 ELSE CHOOSE i \in ends : \A j \in ends : j <= i

-----------------------------------------------------------------------------

\* The jamo of the whole word, and what chart_expander may be told of the
\* morpheme before a text.
Whole(w) == ToTriple(PreReplace(w))
Before(w, t) == IF t = Whole(w) THEN { <<>> } ELSE { <<Vi>>, <<Fn>> }

Init ==
  /\ word \in Words
  /\ text = Whole(word)
  /\ type = "ALL"
  /\ changes = Prule(<<>>, text)
  /\ plain = TRUE
  /\ spelling = <<>>

\* The next visit is about the text rest and asks for the type t.
Visit(rest, t) ==
  /\ text' = rest
  /\ type' = t
  /\ \E prev \in Before(word, rest) : changes' = Prule(prev, rest)
  /\ UNCHANGED word

\* The first n jamo become a morpheme as they stand.
Take(n) ==
  /\ Visit(From(text, n), "ALL")
  /\ spelling' = IF plain THEN spelling \o FromTriple(SubSeq(text, 1, n)) ELSE <<>>
  /\ UNCHANGED plain

\* A word of the dictionaries begins the text.
ReadWord(n) == TagsOf(SubSeq(text, 1, n), "any") \cap TagType[type] # {} /\ Take(n)

\* A number does.
ReadNumber == NumberEnd(text) > 0 /\ "n" \in TagType[type] /\ Take(NumberEnd(text))

\* Nothing has been found for the word: any beginning of it is a word.
ReadUnknown(n) == text = Whole(word) /\ type = "ALL" /\ Take(n)

\* morpheme_chart_phoneme_change has found the front of a change.
ReadChange(k) ==
  LET c == changes[k]
  IN  /\ TagsOf(c.front, Asked(c.class)) \cap TagType[c.frontType] \cap TagType[type] # {}
      /\ Visit(c.back, c.backType)
      /\ plain' = FALSE
      /\ spelling' = <<>>

Next ==
  \/ \E n \in 1 .. Len(text) : ReadWord(n) \/ ReadUnknown(n)
  \/ ReadNumber
  \/ \E k \in DOMAIN changes : ReadChange(k)

Spec == Init /\ [][Next]_vars

-----------------------------------------------------------------------------
(* Properties *)

\* The rules put at most MaxHead jamo before a rest of the word, however
\* many of them follow one another: the texts that ask for a position are
\* at most MaxHead jamo longer than the word, and finitely many, although a
\* rule may lead back to the text it was derived for.
StaysNear ==
  LET whole == Whole(word)
      near(t) == \E h \in 0 .. MaxHead : \E n \in 0 .. Len(whole) :
                   Len(t) = h + n /\ From(t, h) = From(whole, Len(whole) - n)
  IN  near(text) /\ \A k \in DOMAIN changes : near(changes[k].back)

\* A change that asks for a stem of an irregular class has a front that ends
\* as the stems of that class do; any other front is never found, and the
\* rule is lost for the words it is there for.
IrregularStems ==
  LET ending == [irrb |-> <<Fb>>, irrs |-> <<Fs>>, irrd |-> <<Fd>>, irrh |-> <<Fh>>,
                 irrlu |-> <<Cr, Veu>>, irrle |-> <<Cr, Veu>>]
  IN  \A k \in DOMAIN changes :
        changes[k].class # "any" => IsSuffix(ending[changes[k].class], changes[k].front)

\* The morphemes of a reading without rules spell the word, wherever it was
\* cut, inside a syllable too, and with its English and Chinese restored in
\* order, as long as there was room for it.
SpellsWord ==
  LET runs(kind) == { i \in 1 .. Len(Whole(word)) : Whole(word)[i] = kind }
  IN  /\ plain /\ text = <<>>
      /\ \A kind \in {ENG, CHI} : Cardinality(runs(kind)) <= MaxReplacements
      => ToTriple(Restored(spelling, word)) = ToTriple(word)

=============================================================================
