------------------------------ MODULE MCEscrow ------------------------------
(***************************************************************************)
(* Instances of EscrowLedger for TLC: two requests at once, two payments   *)
(* of the same booking, two prompts on the customer's phone.               *)
(***************************************************************************)
EXTENDS EscrowLedger, TLC

CONSTANTS r1, r2, u1, u2

Symmetry == Permutations({r1, r2}) \cup Permutations({u1, u2})
=============================================================================
