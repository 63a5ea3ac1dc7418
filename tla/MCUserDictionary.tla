-------------------------- MODULE MCUserDictionary --------------------------
(***************************************************************************)
(* UserDictionary with a package dictionary of two rows, an external       *)
(* dictionary of one row or none, a user's row, and three calls.           *)
(***************************************************************************)
EXTENDS UserDictionary

CONSTANTS b1, b2, x, u

MCBundled == {b1, b2}
MCExternal == {{}, {x}}
MCUsers == {{}, {u}}

=============================================================================
