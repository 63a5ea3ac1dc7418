------------------------- MODULE SentenceSegmentor --------------------------
(***************************************************************************)
(* What becomes of a text before it is analysed: informal_sentence_filter  *)
(* (informal_sentence_filter.c) breaks up long runs of one character, then *)
(* split_eojeols (sentence_segmentor.c) cuts it into eojeols and cuts      *)
(* sentence ends off them.                                                 *)
(*                                                                         *)
(* A text is a sequence of characters, one for each kind that either of    *)
(* the two tells apart.  A token is a sequence too, and a rule's cut is    *)
(* the sequence of its pieces' lengths, in the order they are pushed.      *)
(***************************************************************************)
EXTENDS Naturals, Sequences, SequencesExt

CONSTANT Texts        \* the inputs

\* "ga" is a character of several bytes, "nl" any white space the filter
\* takes for text (the segmentor does not), "!" stands for "?" also.
Chars == {"ga", "1", "a", ".", "!", ")", ",", "@", "blank", "nl"}

ASSUME TextsAssumption == Texts \subseteq Seq(Chars)

VARIABLES
  input,
  text,         \* what the filter has made of it
  p,            \* text[1 .. p - 1] has been read
  pieces,       \* the tokens of the word that are still to be pushed
  tokens,       \* what has been pushed
  at            \* "filter", "word", "push"; "done" or "failed"

vars == <<input, text, p, pieces, tokens, at>>

-----------------------------------------------------------------------------
(* The filter *)

\* Mutant of MaxRepeats.
MaxRepeatsPlusOne == 5

\* A run of one character is broken after the first and this many repeats.
MaxRepeats == 4

\* What is appended for c when the run of `check` ends with it.
AfterDot(c, check) == IF check = "." THEN <<"blank", c>> ELSE <<c>>

\* One character of filter_informal_word; s.check is the run's character.
FilterChar(s, c) ==
  IF c # s.check
  THEN [out |-> s.out \o AfterDot(c, s.check), check |-> c, repeats |-> 0]
  ELSE IF s.repeats = MaxRepeats
  THEN [s EXCEPT !.out = @ \o <<"blank", c>>, !.repeats = 0]
  ELSE [s EXCEPT !.out = Append(@, c), !.repeats = @ + 1]

filter_informal_word(w) ==
  FoldLeft(FilterChar, [out |-> <<w[1]>>, check |-> w[1], repeats |-> 0], Tail(w)).out

\* The words of t, space being the set of the characters between words.
WordsBy(t, space) ==
  LET Step(ws, c) == IF c \in space THEN Append(ws, << >>)
                     ELSE [ws EXCEPT ![Len(ws)] = Append(@, c)]
  IN  SelectSeq(FoldLeft(Step, << << >> >>, t), LAMBDA w : w # << >>)

\* Only words of more than five characters are looked at.
informal_sentence_filter(t) ==
  FlattenSeq([j \in 1 .. Len(WordsBy(t, {"blank"})) |->
    LET w == WordsBy(t, {"blank"})[j]
    IN  (IF Len(w) > 5 THEN filter_informal_word(w) ELSE w) \o <<"blank">>])

-----------------------------------------------------------------------------
(* The segmentor *)

is_eojeol_space(c) == c \in {"blank", "nl"}
is_sentence_symbol(c) == c \in {".", "!", ")"}

\* memchr(w, c, j - 1)
Before(w, c, j) == \E h \in 1 .. (j - 1) : w[h] = c

\* A dot that ends no sentence: the second byte, after a Latin letter, or
\* inside a number (but not inside a list of numbers).
DotPassedOver(w, j) ==
  \/ j = 2 /\ w[1] # "ga"
  \/ j > 1 /\ w[j - 1] = "a"
  \/ j < Len(w) /\ w[j + 1] = "1" /\ ~Before(w, ",", j)

\* find_sentence_segmentor_split: where a sentence may end in w, and for the
\* first such place how many symbols there are from it.
Ends(w) == { j \in 1 .. Len(w) : w[j] = "!" \/ (w[j] = "." /\ ~DotPassedOver(w, j)) }
End(w) == CHOOSE j \in Ends(w) : \A h \in Ends(w) : j <= h
Symbols(w, j) ==
  CHOOSE m \in 1 .. (Len(w) - j + 1) :
    /\ \A h \in j + 1 .. j + m - 1 : is_sentence_symbol(w[h])
    /\ j + m <= Len(w) => ~is_sentence_symbol(w[j + m])

EndsWith(w, s) == Len(w) > Len(s) /\ IsSuffix(s, w)

\* A dot with an address before it, in a word of more than four bytes.
AddressDots(w) ==
  { j \in 2 .. (Len(w) - 1) : w[j] = "." /\ Before(w, "@", j) /\ (Len(w) > 4 \/ "ga" \in Range(w)) }
\* A decimal point in a number that the word goes on after.
DecimalPoints(w) ==
  { j \in 2 .. (Len(w) - 1) :
      /\ w[j] = "." /\ w[j - 1] = "1" /\ w[j + 1] = "1"
      /\ \E h \in j + 2 .. Len(w) : w[h] # "1" }
First(J) == CHOOSE j \in J : \A h \in J : j <= h

\* Mutant of AtEnd: what comes after the sentence end is not pushed.
AtEndWithoutRest(w, j, m) == <<j - 1, m>>

\* The pieces of a word with a sentence end at j followed by m - 1 symbols.
\* First: a number with its dot; a list of numbers is cut after the dot.
AtEnd(w, j, m) ==
  IF m = 1 /\ w[j] = "." /\ j > 1 /\ w[j - 1] = "1" /\ j = Len(w) THEN <<Len(w)>>
  ELSE IF m = 1 /\ w[j] = "." /\ Before(w, ",", j) THEN <<j, Len(w) - j>>
  ELSE <<j - 1, m, Len(w) - (j - 1) - m>>

\* The pieces of a word without one.
WithoutEnd(w) ==
  LET n == Len(w)
  IN  IF EndsWith(w, <<".", ".", ".">>) THEN <<n - 3, 3>>
      ELSE IF EndsWith(w, <<"!", "!">>) THEN <<n - 2, 2>>
      ELSE IF AddressDots(w) # {} THEN <<First(AddressDots(w)), n - First(AddressDots(w))>>
      ELSE IF DecimalPoints(w) # {} THEN <<First(DecimalPoints(w)), n - First(DecimalPoints(w))>>
      ELSE IF n > 1 /\ (w[n] = "!" \/ (w[n] = "." /\ w[n - 1] # "a")) THEN <<n - 1, 1>>
      ELSE <<n>>

Lengths(w) ==
  IF EndsWith(w, [j \in 1 .. 6 |-> "."]) THEN <<Len(w) - 6, 5, 1>>
  ELSE IF Ends(w) # {} THEN AtEnd(w, End(w), Symbols(w, End(w)))
  ELSE WithoutEnd(w)

PiecesOf(w, lengths) ==
  LET Step(s, m) == <<Append(s[1], SubSeq(w, s[2], s[2] + m - 1)), s[2] + m>>
  IN  FoldLeft(Step, << << >>, 1 >>, lengths)[1]

Pieces(w) == PiecesOf(w, SelectSeq(Lengths(w), LAMBDA m : m > 0))

-----------------------------------------------------------------------------
Init ==
  /\ input \in Texts
  /\ text = << >> /\ p = 1 /\ pieces = << >> /\ tokens = << >>
  /\ at = "filter"

Filter ==
  /\ at = "filter"
  /\ \/ text' = informal_sentence_filter(input) /\ at' = "word"
     \/ at' = "failed" /\ UNCHANGED text
  /\ UNCHANGED <<input, p, pieces, tokens>>

\* The first position from q on whose character is a space or is none.
SkipTo(q, space) ==
  First({ j \in q .. Len(text) : is_eojeol_space(text[j]) = space } \cup {Len(text) + 1})

\* The next word is read and cut.
FindWord ==
  /\ at = "word" /\ SkipTo(p, FALSE) <= Len(text)
  /\ LET start == SkipTo(p, FALSE)
         end == SkipTo(start, TRUE)
     IN  p' = end /\ pieces' = Pieces(SubSeq(text, start, end - 1))
  /\ at' = "push"
  /\ UNCHANGED <<input, text, tokens>>

\* hn_strndup and str_vec_push_owned, either of which may find no memory.
Push ==
  /\ at = "push"
  /\ \/ /\ tokens' = Append(tokens, Head(pieces))
        /\ pieces' = Tail(pieces)
        /\ at' = IF Tail(pieces) = << >> THEN "word" ELSE "push"
     \/ at' = "failed" /\ UNCHANGED <<pieces, tokens>>
  /\ UNCHANGED <<input, text, p>>

Done ==
  /\ at = "word" /\ SkipTo(p, FALSE) > Len(text)
  /\ at' = "done"
  /\ UNCHANGED <<input, text, p, pieces, tokens>>

Next == Filter \/ FindWord \/ Push \/ Done

Spec == Init /\ [][Next]_vars

-----------------------------------------------------------------------------
(* Properties *)

Visible(t) == SelectSeq(t, LAMBDA c : ~is_eojeol_space(c))

\* Filter and rules together neither lose, double nor reorder a character:
\* what has been pushed, what is being cut and what has not been read make
\* up the input, white space aside.  What white space keeps apart in the
\* input is in different tokens: cuts are only ever added.  And no rule makes
\* an empty token, for which candidates would be looked up.
Boundaries(ws) == { Len(FlattenSeq(SubSeq(ws, 1, j))) : j \in 1 .. Len(ws) }
TextConserved ==
  /\ << >> \notin ToSet(tokens)
  /\ at \in {"word", "push"} =>
       FlattenSeq(tokens) \o FlattenSeq(pieces) \o Visible(SubSeq(text, p, Len(text))) = Visible(input)
  /\ at = "done" =>
       /\ FlattenSeq(tokens) = Visible(input)
       /\ Boundaries(WordsBy(input, {"blank", "nl"})) \subseteq Boundaries(tokens)

\* No token has a character more than five times in a row, whichever of the
\* two took its word apart.
NoLongRun ==
  \A j \in 1 .. Len(tokens) : \A h \in 1 .. (Len(tokens[j]) - 5) :
    \E g \in 1 .. 5 : tokens[j][h + g] # tokens[j][h]

=============================================================================
