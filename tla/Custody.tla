------------------------------ MODULE Custody ------------------------------
(***************************************************************************)
(* What a call from R promises about its analyzer and the result, which R  *)
(* does not manage: while the call runs the call has them; when the call   *)
(* is over it has freed them or, if an R error cut it short, left them to  *)
(* the garbage collector; and what is gone stays gone.                     *)
(***************************************************************************)
CONSTANT Calls

VARIABLE custody  \* of each call: "absent", "held", "left" or "gone"

Init == custody = [c \in Calls |-> "absent"]

Moves == { <<"absent", "held">>,  \* the analyzer is made
           <<"absent", "gone">>,  \* the call ends before there is one
           <<"held", "gone">>,    \* the call frees it
           <<"held", "left">>,    \* an R error
           <<"left", "gone">> }   \* the finalizer

Move(c) == \E m \in Moves :
  /\ custody[c] = m[1]
  /\ custody' = [custody EXCEPT ![c] = m[2]]

\* When R quits everything that was left is freed at once.
FreeAll == custody' = [c \in Calls |-> IF custody[c] = "left" THEN "gone" ELSE custody[c]]

Next == (\E c \in Calls : Move(c)) \/ FreeAll

Spec == Init /\ [][Next]_custody

=============================================================================
