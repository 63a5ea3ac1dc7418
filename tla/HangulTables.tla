---------------------------- MODULE HangulTables ----------------------------
(***************************************************************************)
(* The tables of hangul_r.c, by code point: the letters a syllable is made *)
(* of, in the order of their indices, and the keys of the two-beolsik      *)
(* keyboard they are typed with.                                           *)
(***************************************************************************)
EXTENDS Integers, Sequences

\* choseong[], jungseong[] and jongseong[], whose first entry is "none".
choseong ==
  <<12593, 12594, 12596, 12599, 12600, 12601, 12609, 12610, 12611,
    12613, 12614, 12615, 12616, 12617, 12618, 12619, 12620, 12621, 12622>>

jungseong == [i \in 1 .. 21 |-> 12622 + i]

jongseong ==
  <<0, 12593, 12594, 12595, 12596, 12597, 12598, 12599, 12601, 12602,
    12603, 12604, 12605, 12606, 12607, 12608, 12609, 12610, 12612,
    12613, 12614, 12615, 12616, 12618, 12619, 12620, 12621, 12622>>

\* key_to_jamo, an ASCII key to the jamo it types.
key_to_jamo ==
  LET keys == <<114, 82, 115, 101, 69, 102, 97, 113, 81, 116, 84, 100, 119, 87, 99, 122,
                120, 118, 103, 107, 111, 105, 79, 106, 112, 117, 80, 104, 121, 110, 98,
                109, 108>>
      jamo == <<12593, 12594, 12596, 12599, 12600, 12601, 12609, 12610, 12611, 12613,
                12614, 12615, 12616, 12617, 12618, 12619, 12620, 12621, 12622, 12623,
                12624, 12625, 12626, 12627, 12628, 12629, 12630, 12631, 12635, 12636,
                12640, 12641, 12643>>
  IN  [k \in { keys[i] : i \in 1 .. 33 } |->
         jamo[CHOOSE i \in 1 .. 33 : keys[i] = k]]

\* key_pair_to_jamo, two keys to the compound jamo they type together.
key_pair_to_jamo ==
  LET pairs == << <<114, 116>>, <<115, 119>>, <<115, 103>>, <<102, 114>>, <<102, 97>>,
                  <<102, 113>>, <<102, 116>>, <<102, 120>>, <<102, 118>>, <<102, 103>>,
                  <<113, 116>>, <<104, 107>>, <<104, 111>>, <<104, 108>>, <<110, 106>>,
                  <<110, 112>>, <<110, 108>>, <<109, 108>> >>
      jamo  == <<12595, 12597, 12598, 12602, 12603, 12604, 12605, 12606, 12607, 12608,
                 12612, 12632, 12633, 12634, 12637, 12638, 12639, 12642>>
  IN  [p \in { pairs[i] : i \in 1 .. 18 } |->
         jamo[CHOOSE i \in 1 .. 18 : pairs[i] = p]]

\* jamo_key, the keys that type a jamo: the two tables above, read backwards.
jamo_key ==
  [c \in 12593 .. 12643 |->
     IF \E k \in DOMAIN key_to_jamo : key_to_jamo[k] = c
     THEN <<CHOOSE k \in DOMAIN key_to_jamo : key_to_jamo[k] = c>>
     ELSE CHOOSE p \in DOMAIN key_pair_to_jamo : key_pair_to_jamo[p] = c]

=============================================================================
