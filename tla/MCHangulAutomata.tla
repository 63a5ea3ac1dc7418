-------------------------- MODULE MCHangulAutomata --------------------------
(***************************************************************************)
(* HangulAutomata with the tables of the code.  The keys r and t are       *)
(* consonants that may end a syllable, alone or together, E one that may   *)
(* not; h and k are vowels that merge; then a full stop, and the fullwidth *)
(* r and k, which are no keys to the automaton.                            *)
(* As jamo: the same two consonants and their compound, the two vowels and *)
(* theirs, and a whole syllable.                                           *)
(***************************************************************************)
EXTENDS HangulAutomata

T == INSTANCE HangulTables

MCChoseong == T!choseong
MCJungseong == T!jungseong
MCJongseong == T!jongseong
MCJamoKey == T!jamo_key
MCKeyToJamo == T!key_to_jamo
MCKeyPairToJamo == T!key_pair_to_jamo

MCKeyAlphabet == {114, 116, 69, 107, 104, 46, 65362, 65355}
MCJamoAlphabet == {12593, 12613, 12595, 12623, 12631, 12632, 44032}

\* Syllables of the letters above, and the words of one or two of them.
Syllables == { 44032 + c * 588 + v * 28 + f : c \in {0, 4, 9}, v \in {0, 8, 9}, f \in {0, 1, 3, 19} }
MCWords == UNION { [1 .. k -> Syllables] : k \in {1, 2} }

=============================================================================
