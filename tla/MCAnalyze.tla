----------------------------- MODULE MCAnalyze ------------------------------
(***************************************************************************)
(* Analyze with texts of up to two eojeols and two calls on one handle, in *)
(* one mode of each kind.                                                  *)
(***************************************************************************)
EXTENDS Analyze

MCModes == {"MORPH", "MORPH_SIMPLE_22", "HMM_POS", "NOUNS"}
MCCallbacks == {"none", "latching", "momentary"}

=============================================================================
