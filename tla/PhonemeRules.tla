---------------------------- MODULE PhonemeRules ----------------------------
(***************************************************************************)
(* The phoneme rules of exp.c: given the jamo that remain of a word and    *)
(* the jamo of the morpheme before them, the changes that would undo a     *)
(* contraction, an irregular conjugation or an omitted sound.              *)
(*                                                                         *)
(* A change cuts the altered text into a front, which is looked up in the  *)
(* system dictionary, and a back, which the analysis goes on with; each    *)
(* half has a tag type, and the front may have to be of an irregular       *)
(* class.  Indices count from 0, as in the code, and past the end there is *)
(* the character 0.                                                        *)
(***************************************************************************)
EXTENDS HangulCode

CONSTANT MaxChanges     \* the length of changes[] in chart_expander

ASSUME ChangesAssumption == MaxChanges \in Nat

\* Initial consonants, vowels and final consonants, by their Yale-like names.
Cg == 4352  Cn == 4354  Cd == 4355  Ctt == 4356  Cr == 4357  Cm == 4358
Cs == 4361  Cx == 4363  Cj == 4364  Cp == 4369  Ch == 4370
Va == 4449  Vae == 4450  Vya == 4451  Vyae == 4452  Veo == 4453  Ve == 4454
Vyeo == 4455  Vo == 4457  Vwa == 4458  Vwae == 4459  Voe == 4460  Vu == 4462
Vwo == 4463  Veu == 4467  Vui == 4468  Vi == 4469
Fn == 4523  Fd == 4526  Fl == 4527  Fm == 4535  Fb == 4536  Fs == 4538  Fh == 4546
Space == 32

EndingStarts == {Space, Fn, Fl, Fm, Fb, Cn, Cr, Cm, Cs, Cx}     \* exp_rules "54"
StemEnds     == Jungseongs \cup {Fl}                            \* "l54"
BrightVowels == {Va, Vo, Vya, Vae, Vwa, Voe, Vyae}

At(s, i) == IF i \in 0 .. (Len(s) - 1) THEN s[i + 1] ELSE 0
From(s, i) == SubSeq(s, i + 1, Len(s))
Insert(s, i, x) == SubSeq(s, 1, i) \o x \o From(s, i)
Replace(s, i, c) == [s EXCEPT ![i + 1] = c]
Starts(s, i, x) == i + Len(x) <= Len(s) /\ SubSeq(s, i + 1, i + Len(x)) = x
When(condition, change) == IF condition THEN <<change>> ELSE <<>>

Parts(front, back, ft, bt, class) ==
  [front |-> front, back |-> back, frontType |-> ft, backType |-> bt, class |-> class]
Cut(s, i, ft, bt) == Parts(SubSeq(s, 1, i), From(s, i), ft, bt, "any")
Stem(s, i) == Cut(s, i, "YONGS", "EOMIES")

\* Mutant of Irregular: the cut is one jamo late.
IrregularLate(s, i, class) == [Stem(s, i + 1) EXCEPT !.class = class]

\* A change whose front must be a stem of the class.
Irregular(s, i, class) == [Stem(s, i) EXCEPT !.class = class]
\* The back of a change begins with a syllable of its own.
WithEo(change) == [change EXCEPT !.back = <<Cx, Veo>> \o @]

-----------------------------------------------------------------------------
(* The rules at one index *)

\* exp_rule_eomi_u_generate: an ending has lost its first syllable.
EomiU(s, i) ==
  LET follows == i > 0 /\ At(s, i - 1) \in StemEnds
  IN  When(follows /\ At(s, i) \in EndingStarts, Stem(Insert(s, i, <<Cx, Veu>>), i))
      \o When(follows /\ Starts(s, i, <<Fb, Cn, Vi>>), Stem(Insert(s, i, <<Cs, Veu>>), i))
      \o When(follows /\ Starts(s, i, <<Fn, Cd, Va>>), Stem(Insert(s, i, <<Cn, Veu>>), i))

\* exp_rule_johwa_generate: vowel harmony.
Johwa(s, i) ==
  LET bright == i > 0 /\ At(s, i - 1) \in BrightVowels
  IN  CASE bright /\ At(s, i + 1) = Cx /\ At(s, i + 2) = Va -> <<Stem(Replace(s, i + 2, Veo), i + 1)>>
        [] bright /\ ~(At(s, i + 1) = Cx /\ At(s, i + 2) = Va)
                  /\ At(s, i) = Cx /\ At(s, i + 1) = Va     -> <<Stem(Replace(s, i + 1, Veo), i)>>
        [] OTHER                                            -> <<>>

\* Mutant of I: the ending that has lost its first syllable may be anything.
IUntyped(prev, s, i) ==
  LET barred  == \/ At(s, 0) \in Jongseongs
                 \/ \E x \in { <<Cn, Veu, Fn>>, <<Cx, Veu, Fn>>, <<Cx, Veu, Fm>> } : Starts(s, 0, x)
                 \/ Starts(s, 2, <<Cn, Veu, Fn>>)
  IN  IF i # 0 \/ Len(s) < 2 \/ prev = <<>> THEN <<>>
      ELSE IF Last(prev) \notin Jungseongs THEN <<>>
      ELSE IF Starts(s, 0, <<Cx, Vyeo>>)
           THEN <<Cut(Insert(Replace(s, 1, Veo), 1, <<Vi, Cx>>), 2, "JP", "EOMIES")>>
      ELSE IF barred THEN <<>>
      ELSE <<Parts(<<Cx, Vi>>, s, "JP", "EOMIES", "any")>>
           \o [k \in DOMAIN EomiU(<<Cx, Vi>> \o s, 2) |->
                [EomiU(<<Cx, Vi>> \o s, 2)[k] EXCEPT !.backType = "ALL"]]

\* exp_rule_i_generate: a copula has been left out after a vowel, or has
\* melted into the ending.
I(prev, s, i) ==
  LET barred  == \/ At(s, 0) \in Jongseongs
                 \/ \E x \in { <<Cn, Veu, Fn>>, <<Cx, Veu, Fn>>, <<Cx, Veu, Fm>> } : Starts(s, 0, x)
                 \/ Starts(s, 2, <<Cn, Veu, Fn>>)
  IN  IF i # 0 \/ Len(s) < 2 \/ prev = <<>> THEN <<>>
      ELSE IF Last(prev) \notin Jungseongs THEN <<>>
      ELSE IF Starts(s, 0, <<Cx, Vyeo>>)
           THEN <<Cut(Insert(Replace(s, 1, Veo), 1, <<Vi, Cx>>), 2, "JP", "EOMIES")>>
      ELSE IF barred THEN <<>>
      ELSE <<Parts(<<Cx, Vi>>, s, "JP", "EOMIES", "any")>> \o EomiU(<<Cx, Vi>> \o s, 2)

\* exp_rule_gut_generate: the noun "geos" has lost its final consonant.
Gut(s, i) ==
  LET si  == Insert(s, i, <<Fs, Cx, Vi>>)
      seu == Insert(s, i, <<Fs, Cx, Veu>>)
      c   == At(s, i)
  IN  CASE ~(i > 1 /\ Starts(s, i - 2, <<Cg, Veo>>) /\ c \in {Cn, Cm, Cr, Fn, Fl, Fb}) -> <<>>
        [] c = Fb -> When(Starts(s, i, <<Fb, Cn, Vi>>), Cut(si, i + 1, "NBNP", "JP"))
        [] c = Fl /\ Starts(s, i, <<Fl, Cr, Vo>>) ->
             <<Cut(Insert(Replace(s, i, Fs), i + 1, <<Fs, Cx, Veu>>), i + 1, "NBNP", "JOSA")>>
        [] c \in {Fl, Fn} /\ ~Starts(s, i, <<Fl, Cr, Vo>>) ->
             When(i + 1 < Len(s), Cut(si, i + 1, "NBNP", "JP"))
             \o <<Cut(seu, i + 1, "NBNP", "JOSA")>>
        [] c \in {Cn, Cm, Cr} -> <<Cut(si, i + 1, "NBNP", "JP")>>

\* exp_rule_shorten_generate: a stem's vowel has melted into the ending.
Shorten(s, i) ==
  LET c == At(s, i)
      melted(vowel) == WithEo(Stem(Replace(s, i, vowel), i + 1))
  IN  When(i > 0 /\ c \in {Vwa, Vwo}, melted(IF c = Vwa THEN Vo ELSE Vu))
      \o When(i > 0 /\ c = Vwae, melted(Voe))
      \o When(i > 0 /\ c = Vyeo /\ (i > 1 \/ At(s, i - 1) # Cx), melted(Vi))

\* exp_rule_rem_generate: a stem has lost its final consonant or its vowel.
Rem(s, i) ==
  LET c == At(s, i)
      withL == Insert(s, i, <<Fl>>)
      lostL == /\ i > 0 /\ At(s, i - 1) \in Jungseongs
               /\ c \in {Space, Fn, Fl, Fm, Fb, Cn, Cs} \/ Starts(s, i, <<Cx, Veo>>)
  IN  (IF lostL
       THEN <<Stem(withL, i + 1), Stem(s, i)>> \o EomiU(withL, i + 1)
       ELSE <<>>)
      \o When((i > 0 /\ c \in {Va, Veo}) \/ (i = 1 /\ c # Va),
              Stem(Insert(Replace(s, i, Veo), i, <<Veu, Cx>>), i + 1))
      \o When(i > 0 /\ c \in {Va, Veo, Ve, Vyeo, Vae}, Stem(Insert(s, i + 1, <<Cx, Veo>>), i + 1))

\* exp_rule_irr_word_generate_basic: the irregular stems.
IrrWord(s, i) ==
  LET l == At(s, i - 1)  c == At(s, i)  r == At(s, i + 1)
      b(vowel) == Irregular(Insert(Replace(s, i, vowel), i - 1, <<Fb>>), i, "irrb")
      h(vowel, x) == Irregular(Insert(Replace(s, i, vowel), i + 1, <<Fh>> \o x), i + 2, "irrh")
      h27 == i + 1 < Len(s) /\ l \in {Cg, Cd, Cr, Cm, Ctt, Cx}
      lu  == Insert([Replace(s, i, Veu) EXCEPT ![i] = Cr, ![i + 2] = Veo], i + 1, <<Cx>>)
  IN  IF i = 0 THEN <<>>
      ELSE When(l = Fl /\ c = Cx /\ r \in {Veo, Va, Veu}, Irregular(Replace(s, i - 1, Fd), i, "irrd"))
        \o When(l \in {Va, Veo, Vu, Veu, Vi} /\ c = Cx /\ r \in {Veo, Va, Veu},
                Irregular(Insert(s, i, <<Fs>>), i + 1, "irrs"))
        \o When(l = Cx /\ c = Vu, b(Veu))
        \o When(l = Cx /\ c \in {Vwa, Vwo}, b(Veo))
        \o When(i + 1 < Len(s) /\ l \in {Cg, Cd, Cr, Cm, Cx} /\ c \in {Va, Vya}, h(c, <<Cx, Veu>>))
        \o When(h27 /\ c \in {Vae, Vyae}, h(IF c = Vae THEN Va ELSE Vya, <<Cx, Veo>>))
        \o When(h27 /\ c \in {Vae, Vyae}, h(IF c = Vae THEN Veo ELSE Vyeo, <<Cx, Veo>>))
        \o When(h27 /\ c = Veo, h(Veo, <<Cx>>))
        \o When(l = Fl /\ c = Cr /\ r \in {Veo, Va}, Irregular(lu, i + 1, "irrlu"))
        \o When(l = Veu /\ c = Cr /\ r = Veo /\ At(s, i - 2) = Cr,
                Irregular(Replace(s, i, Cx), i, "irrle"))

\* exp_rule_irr_word2_generate: three more.
IrrWord2(s, i) ==
  LET l == At(s, i - 1)  c == At(s, i)
  IN  When(i > 0 /\ l = Cp /\ c = Veo, WithEo(Stem(Replace(s, i, Vu), i + 1)))
      \o When(i > 0 /\ l = Ch /\ c = Va /\ At(s, i + 1) = Cx /\ At(s, i + 2) = Vyeo,
              Stem(Replace(s, i + 2, Veo), i + 1))
      \o When(i > 0 /\ l = Ch /\ c = Vae, WithEo(Stem(Replace(s, i, Va), i + 1)))

-----------------------------------------------------------------------------
(* All of them *)

\* exp_rule_np_generate: contracted pronouns, the first row that fits.
Np(s) ==
  LET na == <<Cn, Va>>  neo == <<Cn, Veo>>  jeo == <<Cj, Veo>>
      nae == <<Cn, Vae>>  ne == <<Cn, Ve>>  je == <<Cj, Ve>>
      nugu == <<Cn, Vu, Cg, Vu>>
      pronoun(front, back) == Parts(front, back, "NBNP", "JOSA", "any")
      particle == CASE Last(s) = Fn -> <<Cn, Veu, Fn>> [] Last(s) = Fl -> <<Cr, Veu, Fl>>
                    [] OTHER -> <<>>
      short(x) == Starts(s, 0, x) /\ Len(s) = Len(x) + 1
      pairs == { <<nae, na>>, <<ne, neo>>, <<je, jeo>> }
  IN  IF \E p \in pairs : Starts(s, 0, p[1] \o <<Cg, Va>>)
      THEN <<pronoun((CHOOSE p \in pairs : Starts(s, 0, p[1]))[2], From(s, 2))>>
      ELSE IF \E p \in pairs : s = p[1]
      THEN <<pronoun((CHOOSE p \in pairs : s = p[1])[2], <<Cx, Vui>>)>>
      ELSE IF \E p \in pairs : Starts(s, 0, p[1] \o <<Cg, Ve>>)
      THEN <<pronoun((CHOOSE p \in pairs : Starts(s, 0, p[1]))[2], <<Cx, Ve>> \o From(s, 2))>>
      ELSE IF \E x \in {na, neo, nugu} : short(x)
      THEN When(particle # <<>>, pronoun(SubSeq(s, 1, Len(s) - 1), particle))
      ELSE When(s = <<Cm, Vu, Cx, Veo, Fn, Cg, Va>>,
                pronoun(<<Cm, Vu, Cx, Veo, Fs>>, <<Cx, Vi, Fn, Cg, Va>>))

\* The lists of exp_prule_generate at index i, in its order.
RulesAt(prev, s, i) ==
  <<Rem(s, i), IrrWord(s, i), IrrWord2(s, i), Shorten(s, i), EomiU(s, i), Johwa(s, i),
    I(prev, s, i), Gut(s, i)>>

\* exp_prule_generate: what changes[] has no room for is dropped.
Prule(prev, s) ==
  LET all == Np(s) \o FlattenSeq([i \in 1 .. Len(s) |-> FlattenSeq(RulesAt(prev, s, i - 1))])
  IN  SubSeq(all, 1, IF Len(all) < MaxChanges THEN Len(all) ELSE MaxChanges)

=============================================================================
