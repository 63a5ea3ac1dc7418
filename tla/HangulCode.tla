----------------------------- MODULE HangulCode -----------------------------
(***************************************************************************)
(* The texts of the chart: code.c, which turns a text into jamo and back,  *)
(* and the placeholders morpheme_chart.c puts for English and Chinese.     *)
(*                                                                         *)
(* A text and its jamo ("triple") are sequences of code points.  A final   *)
(* consonant that stands alone is written as a compatibility jamo, an      *)
(* initial one as '^' and its jamo.                                        *)
(***************************************************************************)
EXTENDS Integers, Sequences, FiniteSets, SequencesExt, HangulTables

CONSTANT MaxReplacements    \* the length of eng_replacements and chi_replacements

ASSUME CodeAssumption == MaxReplacements \in Nat

Choseong(i) == 4352 + i     \* U+1100, i from 0
Jungseong(i) == 4449 + i    \* U+1161, i from 0
Jongseong(i) == 4519 + i    \* U+11A7, i from 1
Choseongs == 4352 .. 4370
Jungseongs == 4449 .. 4469
Jongseongs == 4520 .. 4546
Caret == 94

-----------------------------------------------------------------------------
(* hannanum_code_to_triple *)

Place(table, c) == CHOOSE i \in 1 .. Len(table) : table[i] = c

\* The code goes on to U+D7AF: twelve characters that are no syllables, of
\* which it makes a vowel and a final consonant.
JamoOf(c) ==
  CASE c \in 44032 .. 55215 ->
         LET k == c - 44032
         IN  (IF k \div 588 > 18 THEN <<>> ELSE <<Choseong(k \div 588)>>)
             \o <<Jungseong((k % 588) \div 28)>>
             \o (IF k % 28 = 0 THEN <<>> ELSE <<Jongseong(k % 28)>>)
    [] c \in 12593 .. 12622 ->
         IF c \in ToSet(jongseong) THEN <<Jongseong(Place(jongseong, c) - 1)>>
                                   ELSE <<Choseong(Place(choseong, c) - 1)>>
    [] c \in 12623 .. 12643 -> <<Jungseong(c - 12623)>>
    [] OTHER -> <<c>>

\* A caret before a consonant that can begin a syllable says that it does.
Marks(s, i) == i \in 1 .. (Len(s) - 1) /\ s[i] = Caret /\ s[i + 1] \in ToSet(choseong)

ToTriple(s) ==
  FlattenSeq([i \in 1 .. Len(s) |->
    IF Marks(s, i) THEN <<>>
    ELSE IF Marks(s, i - 1) THEN <<Choseong(Place(choseong, s[i]) - 1)>>
    ELSE JamoOf(s[i])])

-----------------------------------------------------------------------------
(* hannanum_code_from_triple *)

\* Mutant of Alone: an initial consonant is written as a final one would be.
AloneUnmarked(c) ==
  CASE c \in Choseongs  -> <<choseong[c - 4352 + 1]>>
    [] c \in Jungseongs -> <<c - 4449 + 12623>>
    [] c \in Jongseongs -> <<jongseong[c - 4519 + 1]>>
    [] OTHER            -> <<c>>

\* A jamo that is not part of a syllable.  The three initial consonants that
\* are no final ones need no caret.
Alone(c) ==
  CASE c \in Choseongs  -> LET jamo == choseong[c - 4352 + 1]
                           IN  IF jamo \in {12600, 12611, 12617} THEN <<jamo>> ELSE <<Caret, jamo>>
    [] c \in Jungseongs -> <<c - 4449 + 12623>>
    [] c \in Jongseongs -> <<jongseong[c - 4519 + 1]>>
    [] OTHER            -> <<c>>

Begins(t, i) == i \in 1 .. (Len(t) - 1) /\ t[i] \in Choseongs /\ t[i + 1] \in Jungseongs
Closes(t, i) == i \in 3 .. Len(t) /\ t[i] \in Jongseongs /\ Begins(t, i - 2)

Syllable(t, i) ==
  44032 + (t[i] - 4352) * 588 + (t[i + 1] - 4449) * 28
        + (IF Closes(t, i + 2) THEN t[i + 2] - 4519 ELSE 0)

FromTriple(t) ==
  FlattenSeq([i \in 1 .. Len(t) |->
    IF Begins(t, i) THEN <<Syllable(t, i)>>
    ELSE IF Begins(t, i - 1) \/ Closes(t, i) THEN <<>>
    ELSE Alone(t[i])])

-----------------------------------------------------------------------------
(* morpheme_chart_pre_replace and the restoring in morpheme_chart_node_to_eojeol *)

ENG == -1       \* the text "HAN_ENG", which no input contains: it has English letters
CHI == -2       \* "HAN_CHI"

\* What stands for a character: itself, or the placeholder of its script.
Kind(c) ==
  IF c \in 65 .. 90 \/ c \in 97 .. 122 THEN ENG
  ELSE IF \/ c \in 11904 .. 12031 \/ c \in 13312 .. 19903
          \/ c \in 19968 .. 40894 \/ c \in 63744 .. 64255 THEN CHI
  ELSE c

InRun(s, i) == i \in 1 .. Len(s) /\ Kind(s[i]) \in {ENG, CHI}
Continues(s, i) == i > 1 /\ InRun(s, i) /\ Kind(s[i]) = Kind(s[i - 1])

PreReplace(s) ==
  FlattenSeq([i \in 1 .. Len(s) |-> IF Continues(s, i) THEN <<>> ELSE <<Kind(s[i])>>])

\* eng_replacements or chi_replacements: the runs the placeholders stand for.
Replacements(s, kind) ==
  LET runs == { r \in (1 .. Len(s)) \X (1 .. Len(s)) :
                  /\ r[1] <= r[2]
                  /\ \A i \in r[1] .. r[2] : Kind(s[i]) = kind
                  /\ ~Continues(s, r[1]) /\ ~Continues(s, r[2] + 1) }
      nth(k) == CHOOSE r \in runs : Cardinality({ q \in runs : q[1] <= r[1] }) = k
      number == Cardinality(runs)
  IN  [k \in 1 .. (IF number < MaxReplacements THEN number ELSE MaxReplacements) |->
         SubSeq(s, nth(k)[1], nth(k)[2])]

\* The texts along a reading of word, one after the other, with the n-th
\* placeholder of each kind replaced by the n-th run.
Restored(s, word) ==
  FlattenSeq([i \in 1 .. Len(s) |->
    IF s[i] \notin {ENG, CHI} THEN <<s[i]>>
    ELSE LET kept == Replacements(word, s[i])
             n    == Cardinality({ j \in 1 .. i : s[j] = s[i] })
         IN  IF n <= Len(kept) THEN kept[n] ELSE <<s[i]>>])

=============================================================================
