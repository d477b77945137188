---------------------------- MODULE EscrowPromise ----------------------------
(***************************************************************************)
(* What the backend promises about the money of one booking.  Each payment *)
(* is asked for, and fails or reaches escrow.  It leaves escrow for the    *)
(* provider, after the customer has confirmed the work and while no        *)
(* dispute is open, or goes back to the customer, even after the provider  *)
(* had it.  What the customer got back never moves again.                  *)
(***************************************************************************)
CONSTANT Payments

VARIABLES
    place,       \* where the money of each payment is
    confirmed,   \* the customer has confirmed the work
    disputed     \* a dispute is open

vars == <<place, confirmed, disputed>>

Init ==
    /\ place = [p \in Payments |-> "none"]
    /\ confirmed = FALSE
    /\ disputed = FALSE

Move(p, from, to) ==
    /\ place[p] = from
    /\ place' = [place EXCEPT ![p] = to]
    /\ UNCHANGED <<confirmed, disputed>>

Request(p) == Move(p, "none", "asked")
Decline(p) == Move(p, "asked", "failed")
Hold(p) == Move(p, "asked", "escrow")
Release(p) == confirmed /\ ~ disputed /\ Move(p, "escrow", "provider")
TakeBack(p) == Move(p, "provider", "customer")

(* A refund out of escrow may be the outcome of a dispute and close it. *)
Refund(p) ==
    /\ place[p] = "escrow"
    /\ place' = [place EXCEPT ![p] = "customer"]
    /\ disputed' \in {disputed, FALSE}
    /\ UNCHANGED confirmed

Confirm ==
    /\ confirmed' = TRUE
    /\ UNCHANGED <<place, disputed>>

Dispute ==
    /\ disputed' = ~ disputed
    /\ UNCHANGED <<place, confirmed>>

Next ==
    \/ \E p \in Payments :
          Request(p) \/ Decline(p) \/ Hold(p) \/ Release(p) \/ Refund(p) \/ TakeBack(p)
    \/ Confirm
    \/ Dispute

Spec == Init /\ [][Next]_vars
=============================================================================
