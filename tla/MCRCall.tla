------------------------------ MODULE MCRCall -------------------------------
(***************************************************************************)
(* RCall with three calls in a session, so that what two of them left is   *)
(* collected while the third runs, and two polls in a call.                *)
(***************************************************************************)
EXTENDS RCall

MCMaxCalls == 3
MCMaxPolls == 2

=============================================================================
