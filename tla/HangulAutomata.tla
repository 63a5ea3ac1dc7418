--------------------------- MODULE HangulAutomata ---------------------------
(***************************************************************************)
(* hannlp_hangul_automata (hangul_r.c): jamo, or the keys that type them,  *)
(* composed into syllables one character at a time.                        *)
(*                                                                         *)
(* A text is a sequence of code points, so that what is typed, the jamo in *)
(* between and the syllables that come out can be compared.  The automaton *)
(* holds the component being composed (cho, jung, jong; 0 is "none"), the  *)
(* syllables of the present word and, raw, the characters it was given for *)
(* it: a word that turns out not to be made of syllables is put out raw.   *)
(***************************************************************************)
EXTENDS Integers, Sequences, SequencesExt

CONSTANTS
  Choseong, Jungseong, Jongseong,         \* the letters of a syllable, by index
  JamoKey, KeyToJamo, KeyPairToJamo,      \* the keyboard
  KeyAlphabet, JamoAlphabet,              \* what may be fed, with keystroke and without
  Words,                                  \* words of whole syllables
  MaxLen                                  \* and how much of it

Jaeums == 12593 .. 12622
Moeums == 12623 .. 12643
IsJaeum(cp) == cp \in Jaeums
IsMoeum(cp) == cp \in Moeums
IsJamo(cp) == IsJaeum(cp) \/ IsMoeum(cp)
IsSyllable(cp) == cp \in 44032 .. 55203

Simple(cp) == Len(JamoKey[cp]) = 1
Compound(cp) == Len(JamoKey[cp]) = 2

\* The letters of a syllable, each once; index 0 of the final ones is no letter.
LetterTables ==
  /\ Choseong \in Seq(Jaeums) /\ Len(Choseong) = 19 /\ IsInjective(Choseong)
  /\ Jungseong \in Seq(Moeums) /\ Len(Jungseong) = 21 /\ IsInjective(Jungseong)
  /\ Jongseong \in Seq({0} \cup Jaeums) /\ Len(Jongseong) = 28 /\ IsInjective(Jongseong)
  /\ Jongseong[1] = 0

\* A jamo is typed by one key or by two that merge.
KeyTables ==
  /\ \A cp \in Jaeums \cup Moeums :
       /\ JamoKey[cp] \in Seq(DOMAIN KeyToJamo)
       /\ IF Simple(cp) THEN KeyToJamo[JamoKey[cp][1]] = cp
          ELSE /\ Compound(cp)
               /\ JamoKey[cp] \in DOMAIN KeyPairToJamo /\ KeyPairToJamo[JamoKey[cp]] = cp
  /\ \A k \in DOMAIN KeyToJamo : IsJamo(KeyToJamo[k]) /\ JamoKey[KeyToJamo[k]] = <<k>>
  /\ \A p \in DOMAIN KeyPairToJamo : IsJamo(KeyPairToJamo[p]) /\ JamoKey[KeyPairToJamo[p]] = p

\* A syllable may begin with the consonants that are one key and end with
\* every one that is two, of which it may end with the first and begin with
\* the second; two keys make a vowel only of two vowels.
PartTables ==
  /\ \A i \in 1 .. 19 : Simple(Choseong[i])
  /\ \A cp \in Jaeums :
       IF Simple(cp) THEN Contains(Choseong, cp)
       ELSE /\ Contains(Jongseong, cp)
            /\ \A i \in {1, 2} : /\ IsJaeum(KeyToJamo[JamoKey[cp][i]])
                                 /\ Contains(Choseong, KeyToJamo[JamoKey[cp][i]])
                                 /\ Contains(Jongseong, KeyToJamo[JamoKey[cp][i]])
  /\ \A cp \in Moeums :
       Contains(Jungseong, cp) /\ (Compound(cp) => \A i \in {1, 2} : IsMoeum(KeyToJamo[JamoKey[cp][i]]))

ASSUME TablesAssumption ==
  /\ LetterTables /\ KeyTables /\ PartTables
  /\ DOMAIN KeyToJamo \subseteq 0 .. 127
  /\ KeyAlphabet \subseteq Nat \ {0} /\ JamoAlphabet \subseteq Nat \ {0}
  /\ Words \subseteq Seq(44032 .. 55203) /\ MaxLen \in Nat

VARIABLES
  keystroke,    \* the input is keys, not jamo
  force,        \* a word that is not made of syllables is composed anyway
  input,        \* what has been fed so far
  comp,         \* cho, jung and jong
  valid,        \* word_valid: 0, 1 or 2 (forced)
  syllables, raw, output,  \* the three buffers
  at            \* "feeding", "done" or "error"

vars == <<keystroke, force, input, comp, valid, syllables, raw, output, at>>

None == [cho |-> 0, jung |-> 0, jong |-> 0]

-----------------------------------------------------------------------------
(* The letters *)

\* The 0-based index of a letter.
IndexIn(table, cp) == (CHOOSE i \in 1 .. Len(table) : table[i] = cp) - 1

\* compose_syllable: 0 when the letters do not make one.
Compose(c) ==
  IF c.cho = 0 THEN c.jung
  ELSE IF c.jung = 0 THEN c.cho
  ELSE IF ~Contains(Choseong, c.cho) \/ ~Contains(Jungseong, c.jung) \/ ~Contains(Jongseong, c.jong)
  THEN 0
  ELSE 44032 + IndexIn(Choseong, c.cho) * 588 + IndexIn(Jungseong, c.jung) * 28
             + IndexIn(Jongseong, c.jong)

\* merge_jamos: the compound two simple jamo make, 0 when there is none.
Merge(a, b) ==
  IF Simple(a) /\ Simple(b) /\ <<JamoKey[a][1], JamoKey[b][1]>> \in DOMAIN KeyPairToJamo
  THEN KeyPairToJamo[<<JamoKey[a][1], JamoKey[b][1]>>] ELSE 0

FirstPart(cp) == KeyToJamo[JamoKey[cp][1]]
SecondPart(cp) == KeyToJamo[JamoKey[cp][2]]

-----------------------------------------------------------------------------
(* One jamo: what becomes of the component, and whether the word is still   *)
(* valid.  A component that is complete is pushed to the syllables.         *)

Keep(c) == [push |-> None, comp |-> c, ok |-> TRUE]
Push(done, c) == [push |-> done, comp |-> c, ok |-> TRUE]
Spoil(c) == [push |-> None, comp |-> c, ok |-> FALSE]

Lead(cp) == [None EXCEPT !.cho = cp]

\* automata_feed_jamo, a consonant.
Jaeum(c, cp) ==
  IF c.cho = 0
  THEN IF c = None THEN Keep(Lead(cp))
       ELSE IF force THEN Push(c, Lead(cp)) ELSE Spoil(c)
  ELSE IF c.jung = 0
  THEN IF c.jong # 0 THEN Spoil(c) ELSE Push(c, Lead(cp))
  ELSE IF c.jong = 0
  THEN IF Contains(Jongseong, cp) THEN Keep([c EXCEPT !.jong = cp]) ELSE Push(c, Lead(cp))
  ELSE IF Simple(c.jong) /\ Merge(c.jong, cp) # 0
  THEN Keep([c EXCEPT !.jong = Merge(c.jong, cp)])
  ELSE Push(c, Lead(cp))

\* Mutants of Moeum: a final consonant stays where it is, moves to the vowel
\* as a whole, or loses its second part on the way.
MoeumKeepsFinal(c, cp) ==
  IF c.jong # 0 THEN Push(c, [None EXCEPT !.jung = cp])
  ELSE IF c.jung = 0 THEN Keep([c EXCEPT !.jung = cp])
  ELSE IF Merge(c.jung, cp) # 0 THEN Keep([c EXCEPT !.jung = Merge(c.jung, cp)])
  ELSE Push(c, [None EXCEPT !.jung = cp])
MoeumMovesWhole(c, cp) ==
  IF c.jong # 0 THEN Push([c EXCEPT !.jong = 0], [Lead(c.jong) EXCEPT !.jung = cp])
  ELSE IF c.jung = 0 THEN Keep([c EXCEPT !.jung = cp])
  ELSE IF Merge(c.jung, cp) # 0 THEN Keep([c EXCEPT !.jung = Merge(c.jung, cp)])
  ELSE Push(c, [None EXCEPT !.jung = cp])
MoeumDropsPart(c, cp) ==
  IF c.jong # 0 THEN Push([c EXCEPT !.jong = 0], [Lead(FirstPart(c.jong)) EXCEPT !.jung = cp])
  ELSE IF c.jung = 0 THEN Keep([c EXCEPT !.jung = cp])
  ELSE IF Merge(c.jung, cp) # 0 THEN Keep([c EXCEPT !.jung = Merge(c.jung, cp)])
  ELSE Push(c, [None EXCEPT !.jung = cp])

\* automata_feed_jamo, a vowel: a final consonant, or the second part of a
\* compound one, turns out to begin the next syllable.
Moeum(c, cp) ==
  IF c.jong # 0
  THEN IF Compound(c.jong)
       THEN Push([c EXCEPT !.jong = FirstPart(c.jong)],
                 [Lead(SecondPart(c.jong)) EXCEPT !.jung = cp])
       ELSE Push([c EXCEPT !.jong = 0], [Lead(c.jong) EXCEPT !.jung = cp])
  ELSE IF c.jung = 0 THEN Keep([c EXCEPT !.jung = cp])
  ELSE IF Merge(c.jung, cp) # 0 THEN Keep([c EXCEPT !.jung = Merge(c.jung, cp)])
  ELSE Push(c, [None EXCEPT !.jung = cp])

-----------------------------------------------------------------------------
(* The end of a word *)

Complete(c) == c.cho # 0 /\ c.jung # 0

\* What automata_flush puts out for the word: its syllables, the component
\* in progress with them, or the characters `typed` as they came.
Composed == IF comp = None THEN syllables ELSE Append(syllables, Compose(comp))
WordValid == valid # 0 /\ (comp = None \/ Complete(comp))
WordText(typed) == IF force \/ WordValid THEN Composed ELSE typed

FlushFails == comp # None /\ Compose(comp) = 0

\* The word is over; word_valid is reset only if there was anything in it.
NewWord(typed) ==
  /\ comp' = None /\ syllables' = <<>> /\ raw' = <<>>
  /\ valid' = IF typed # <<>> \/ Composed # <<>> THEN 1 ELSE IF force THEN 2 ELSE valid

-----------------------------------------------------------------------------
Init ==
  /\ keystroke \in BOOLEAN /\ force \in BOOLEAN
  /\ input = <<>>
  /\ comp = None /\ valid = 1
  /\ syllables = <<>> /\ raw = <<>> /\ output = <<>>
  /\ at = "feeding"

Typed(ch) == IF keystroke /\ ch \in DOMAIN KeyToJamo THEN KeyToJamo[ch] ELSE ch

\* A jamo.  The call fails when a component that is pushed does not compose.
FeedJamo(ch) ==
  LET cp   == Typed(ch)
      next == IF IsJaeum(cp) THEN Jaeum(comp, cp) ELSE Moeum(comp, cp)
  IN  /\ IsJamo(cp)
      /\ raw' = Append(raw, cp)
      /\ IF next.push # None /\ Compose(next.push) = 0
         THEN at' = "error" /\ UNCHANGED <<comp, valid, syllables>>
         ELSE /\ comp' = next.comp
              /\ syllables' = IF next.push = None THEN syllables
                              ELSE Append(syllables, Compose(next.push))
              /\ valid' = IF ~next.ok \/ (next.push # None /\ ~Complete(next.push)) THEN 0
                          ELSE valid
              /\ UNCHANGED at
      /\ UNCHANGED output

\* Any other character ends the word and follows it; in a word put out as it
\* came it is already part of it.
FeedOther(ch) ==
  LET typed == Append(raw, Typed(ch))
  IN  /\ ~IsJamo(Typed(ch))
      /\ IF FlushFails
         THEN at' = "error" /\ raw' = typed /\ UNCHANGED <<comp, valid, syllables, output>>
         ELSE /\ output' = output \o (IF force \/ WordValid THEN Append(Composed, Typed(ch))
                                      ELSE typed)
              /\ NewWord(typed)
              /\ UNCHANGED at

Feed(ch) ==
  /\ at = "feeding" /\ Len(input) < MaxLen
  /\ ch \in (IF keystroke THEN KeyAlphabet ELSE JamoAlphabet)
  /\ input' = Append(input, ch)
  /\ FeedJamo(ch) \/ FeedOther(ch)
  /\ UNCHANGED <<keystroke, force>>

\* The end of the input: a last word that is not valid makes the call return
\* the whole input as it came, the words before it included.
Finish ==
  /\ at = "feeding"
  /\ IF FlushFails THEN at' = "error" /\ UNCHANGED <<comp, valid, syllables, raw, output>>
     ELSE /\ output' = IF raw # <<>> /\ ~force /\ ~WordValid THEN input
                       ELSE output \o WordText(raw)
          /\ NewWord(raw)
          /\ at' = "done"
  /\ UNCHANGED <<keystroke, force, input>>

Next == (\E ch \in KeyAlphabet \cup JamoAlphabet : Feed(ch)) \/ Finish

Spec == Init /\ [][Next]_vars

-----------------------------------------------------------------------------
(* hannlp_hangul_to_jamos and hannlp_hangul_to_keystrokes, without the      *)
(* separators R splits the answer at.  Keys are the halfwidth ones the      *)
(* automaton takes for keys, Wide keys the fullwidth ones it does not.      *)

\* The letters a syllable is made of.
Decompose(cp) ==
  LET k == cp - 44032
  IN  [cho  |-> Choseong[(k \div 588) + 1],
       jung |-> Jungseong[((k % 588) \div 28) + 1],
       jong |-> Jongseong[(k % 28) + 1]]

Letters(cp) ==
  IF IsSyllable(cp)
  THEN LET c == Decompose(cp)
       IN  <<c.cho, c.jung>> \o (IF c.jong = 0 THEN <<>> ELSE <<c.jong>>)
  ELSE <<cp>>

\* append_keystrokes_for_jamo; no letter is no key.
LetterKeys(l) == IF l = 0 THEN <<>> ELSE JamoKey[l]
PartKeys(c) == LetterKeys(c.cho) \o LetterKeys(c.jung) \o LetterKeys(c.jong)

Keys(cp) ==
  IF IsSyllable(cp) THEN PartKeys(Decompose(cp))
  ELSE IF IsJamo(cp) THEN JamoKey[cp]
  ELSE <<cp>>

\* A key as it is written with isFullwidth = TRUE, the default.
Wide(key) == key - 65 + 65313

WideKeys(cp) ==
  IF IsSyllable(cp) \/ IsJamo(cp) THEN [i \in 1 .. Len(Keys(cp)) |-> Wide(Keys(cp)[i])]
  ELSE <<cp>>

Jamos(text) == FlattenSeq([i \in 1 .. Len(text) |-> Letters(text[i])])
Keystrokes(text) == FlattenSeq([i \in 1 .. Len(text) |-> Keys(text[i])])
WideKeystrokes(text) == FlattenSeq([i \in 1 .. Len(text) |-> WideKeys(text[i])])

-----------------------------------------------------------------------------
(* Properties *)

\* Nothing typed is lost or doubled: at every moment the keys of what is out,
\* of the word in progress and of its component are the keys of the input,
\* through every merge, split and word that turns out not to be one, unless
\* the component is one that is about to make the call fail.
KeysConserved ==
  at # "error" /\ ~FlushFails =>
    Keystrokes(IF at = "done" THEN output ELSE output \o WordText(raw)) = Keystrokes(input)

\* Only a compound consonant given as a single jamo where a syllable begins
\* can make the call fail: keys never do.
FailsOnlyOnCompound ==
  at = "error" => \E k \in 1 .. Len(input) : IsJaeum(input[k]) /\ Compound(input[k])

ByKeys == { Keystrokes(w) : w \in Words }
ByWideKeys == { WideKeystrokes(w) : w \in Words }
ByJamos == { Jamos(w) : w \in Words }

\* A word of whole syllables comes back: when the input is what
\* convertHangulStringToKeyStrokes with isFullwidth = FALSE or
\* convertHangulStringToJamos makes of a word, the automaton makes a word of
\* it, and one that is typed that way.  What convertHangulStringToKeyStrokes
\* makes by default, fullwidth keys, is not composed: it comes out as it is.
RoundTrip ==
  at = "done" =>
    /\ keystroke /\ input \in ByKeys => output \in Words /\ Keystrokes(output) = input
    /\ keystroke /\ input \in ByWideKeys => output = input
    /\ ~keystroke /\ input \in ByJamos => output \in Words /\ Jamos(output) = input

=============================================================================
