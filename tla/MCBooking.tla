------------------------------ MODULE MCBooking ------------------------------
(***************************************************************************)
(* Instances of Booking for TLC: one fundi, one company member, a customer *)
(* and an administrator; two requests at once, and a background pass next  *)
(* to them.                                                                *)
(***************************************************************************)
EXTENDS Booking, TLC

CONSTANTS f1, m1, customer, admin, r1, r2, b1, q1, q2

MCFundis == {f1}
MCMembers == {m1}
MCProviders == {f1, m1}
MCCompanyAndAdmin == {admin, m1}
MCCompanyAndCustomer == {customer, m1}
MCAnyStatus == Status
MCNoStatus == {}

(* In the quote runs PATCH is asked for what moves a booking into and out   *)
(* of the quote phase; the other statuses are checked in booking_life.      *)
MCQuoteTargets == {"quote_requested", "matching", "scheduled", "accepted"}

Symmetry == Permutations({r1, r2}) \cup Permutations({q1, q2})
=============================================================================
