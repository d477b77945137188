--------------------------- MODULE BookingPromise ---------------------------
(***************************************************************************)
(* What the backend promises about a booking, in four stages: it is open   *)
(* to offers, booked with a provider, being worked on (up to payment and   *)
(* dispute), and over.  Work is never taken back to the market, the        *)
(* professional on site is never replaced, the customer's confirmation is  *)
(* given during the work and never withdrawn, and what is over stays so.   *)
(***************************************************************************)
CONSTANTS People, None

VARIABLES
    stage,       \* "open", "booked", "work" or "over"
    provider,    \* the professional of the booking, or None
    confirmed    \* the customer verified the completed work

vars == <<stage, provider, confirmed>>

Init ==
    /\ stage = "open"
    /\ provider = None
    /\ confirmed = FALSE

(* A provider takes the booking, or the company sends somebody (else). *)
Book ==
    /\ stage \in {"open", "booked"}
    /\ stage' = "booked"
    /\ provider' \in People \cup {None}
    /\ UNCHANGED confirmed

(* The booking goes back to the market. *)
Release ==
    /\ stage = "booked"
    /\ stage' = "open"
    /\ UNCHANGED <<provider, confirmed>>

StartWork ==
    /\ stage = "booked"
    /\ stage' = "work"
    /\ UNCHANGED <<provider, confirmed>>

Confirm ==
    /\ stage = "work"
    /\ confirmed' = TRUE
    /\ UNCHANGED <<stage, provider>>

(* cancelled, expired, failed, refunded or closed *)
End ==
    /\ stage # "over"
    /\ stage' = "over"
    /\ UNCHANGED <<provider, confirmed>>

Next == Book \/ Release \/ StartWork \/ Confirm \/ End

Spec == Init /\ [][Next]_vars
=============================================================================
