--------------------------- MODULE MCWordReading ----------------------------
(***************************************************************************)
(* Words for WordReading: every one of up to two syllables that together   *)
(* make every rule fire, longer ones with a contracted pronoun, a noun or  *)
(* stem the rules restore, and texts that are not only Hangul.             *)
(***************************************************************************)
EXTENDS WordReading

Open(c, v) == 44032 + (c - Choseong(0)) * 588 + (v - Jungseong(0)) * 28
Closed(c, v, f) == Open(c, v) + f - Jongseong(0)

Syllables == { Open(Cn, Va), Closed(Cg, Va, Fn), Open(Cg, Veo), Closed(Cx, Vi, Fl),
               Open(Cr, Vo), Open(Cx, Vyeo), Open(Cx, Veo), Closed(Cx, Veu, Fb),
               Open(Cn, Vi), Open(Ch, Vae), Open(Cr, Veu), Open(Cx, Vwa), Open(Cp, Veo) }

Pronouns == { <<Open(Cn, Vae), Open(Cg, Va)>>, <<Open(Cn, Ve)>>, <<Open(Cj, Ve), Open(Cg, Ve)>>,
              <<Closed(Cn, Va, Fn)>>, <<Open(Cn, Vu), Closed(Cg, Vu, Fl)>>,
              <<Open(Cm, Vu), Closed(Cx, Veo, Fn), Open(Cg, Va)>> }

Longer == { <<Open(Cg, Veo), Closed(Cn, Va, Fl), Open(Cx, Va)>>,
            <<Closed(Cg, Veo, Fl), Open(Cr, Vo)>>,
            <<Closed(Cg, Veo, Fb), Open(Cn, Vi), Open(Cd, Va)>>,
            <<Closed(Cm, Vo, Fl), Open(Cr, Va)>>, <<Open(Ch, Va), Open(Cx, Vyeo)>>,
            <<Open(Cx, Vi), Open(Cr, Veu), Open(Cr, Veo)>>,
            <<Closed(Cg, Veo, Fn), Open(Cj, Vi)>>, <<Open(Cg, Vo), Open(Cx, Vu), Open(Cn, Vi)>>,
            <<Open(Cd, Vwae), Open(Cs, Veo)>>, <<Open(Cn, Va), Open(Cx, Va)>>,
            <<Open(Cr, Vae), Closed(Cx, Veu, Fn), Open(Cd, Va)>> }

\* A and B are English, 20013 and 22269 Chinese, 12593 .. 12632 lone jamo,
\* 94 is the caret, 49 and 44 are a digit and a comma.
Mixed == { <<65, 66, 20013, 22269, Closed(Cn, Va, Fn), 67>>, <<20013, 65, 20013, 12632>>,
           <<65, 32, 66, 32, 67>>, <<12593, 12623, 12600>>, <<94, 12593, 12593, 94>>,
           <<94, 12600, 12631>>, <<43, 49, 49, 46, 49, Open(Cx, Vi)>>,
           <<49, 44, 49, 49, 49, 44, 49>>, <<Open(Cg, Va), Open(Cx, Vwa), 45, 49, 46, 50, 37>> }

MCWords == { <<a>> : a \in Syllables } \cup (Syllables \X Syllables)
           \cup Pronouns \cup Longer \cup Mixed

\* Every triple that begins and ends as the words of the system dictionary
\* do has every tag, but for two the rules could turn in circles with: only
\* "i" is a copula there, and it is no prefinal ending.  Digits and signs
\* are in no dictionary.
MCTagsOf(x, class) ==
  IF x[1] \in Jungseongs \/ Last(x) \in Choseongs \/ ToSet(x) \cap (33 .. 64) # {} THEN {}
  ELSE IF class # "any" THEN {"p"}
  ELSE IF x = <<Cx, Vi>> THEN {"p", "jp", "n", "j"}
  ELSE {"p", "ep", "e", "n", "j"}

=============================================================================
