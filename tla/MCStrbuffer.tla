----------------------------- MODULE MCStrbuffer ----------------------------
(***************************************************************************)
(* Strbuffer with words of three bits and buffers that begin with two      *)
(* bytes, so that every growth and its end at SIZE_MAX is reached.         *)
(***************************************************************************)
EXTENDS Strbuffer

MCTexts == { <<>>, <<"a">>, <<"esc">>, <<"sp", "sp">>, <<"a", "sp", "esc">> }

=============================================================================
