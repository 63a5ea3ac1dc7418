------------------------ MODULE MCSentenceSegmentor -------------------------
(***************************************************************************)
(* SentenceSegmentor with every text of up to four characters, and longer  *)
(* ones of the characters that the longer rules are about: runs, numbers   *)
(* and addresses.                                                          *)
(***************************************************************************)
EXTENDS SentenceSegmentor

TextsOf(chars, length) == UNION { [1 .. n -> chars] : n \in 0 .. length }

MCTexts ==
  TextsOf(Chars, 3)
    \cup TextsOf({"ga", "."}, 8) \cup TextsOf({".", "!", "a"}, 5) \cup TextsOf({"1", ".", "ga", ","}, 5)
    \cup TextsOf({"a", "@", "."}, 6)
    \cup { [j \in 1 .. n |-> "ga"] : n \in 9 .. 17 }

=============================================================================
