--------------------------- MODULE JobStateMachine ---------------------------
(***************************************************************************)
(* The central job state machine of the backend, jobStateMachine.js: the   *)
(* table of edges, who may ask for which status, and the two predicates    *)
(* every transition is checked with.  Constants and operators only: the    *)
(* guarded UPDATE of transitionJob is an action of module Booking.         *)
(***************************************************************************)
CONSTANTS
    Customer,    \* the user who booked the job
    Fundis,      \* approved individual professionals
    Members,     \* active members of the company, its technicians included
    Admin,       \* a platform administrator
    None         \* SQL null

(* A person plays one role with respect to a booking. *)
ASSUME PeopleAssumption ==
    /\ Fundis \cap Members = {}
    /\ {Customer, Admin} \cap (Fundis \cup Members) = {}
    /\ Customer # Admin
    /\ None \notin Fundis \cup Members \cup {Customer, Admin}

People == {Customer, Admin} \cup Fundis \cup Members

QuotePhase == {"quote_requested", "offered"}

Status ==
    {"pending", "matching", "quote_requested", "offered", "accepted", "booking_confirmed",
     "scheduled", "assigned", "on_the_way", "arrived", "in_progress", "completion_requested",
     "customer_confirmed_completion", "payment_pending", "payment_processing",
     "payment_confirmed", "completed", "closed", "cancelled", "failed", "expired",
     "disputed", "refund_requested", "refunded"}

(* The statuses a booking never leaves. *)
Absorbing == {"closed", "cancelled", "failed", "expired", "refunded"}

TerminalStates == Absorbing \cup {"completed"}

(* JOB_TRANSITIONS: anything not listed is rejected with a 400. *)
JobTransitions ==
  [ s \in Status |->
    CASE s = "pending" ->
           {"matching", "quote_requested", "offered", "accepted", "assigned",
            "scheduled", "booking_confirmed", "expired", "cancelled"}
      [] s = "matching" ->
           {"pending", "quote_requested", "offered", "accepted", "assigned",
            "scheduled", "booking_confirmed", "expired", "cancelled"}
      [] s = "quote_requested" -> {"matching", "pending", "offered", "cancelled"}
      [] s = "offered" ->
           {"accepted", "booking_confirmed", "matching", "pending", "cancelled"}
      [] s = "accepted" ->
           {"booking_confirmed", "assigned", "scheduled", "on_the_way", "matching",
            "cancelled"}
      [] s = "booking_confirmed" ->
           {"assigned", "scheduled", "on_the_way", "cancelled"}
      [] s = "scheduled" ->
           {"accepted", "assigned", "on_the_way", "booking_confirmed", "matching",
            "cancelled"}
      [] s = "assigned" ->
           {"on_the_way", "arrived", "accepted", "scheduled", "cancelled"}
      [] s = "on_the_way" -> {"arrived", "cancelled"}
      [] s = "arrived" -> {"in_progress", "on_the_way", "cancelled"}
      [] s = "in_progress" ->
           {"completion_requested", "completed", "cancelled", "disputed"}
      [] s = "completion_requested" ->
           {"customer_confirmed_completion", "completed", "disputed", "cancelled"}
      [] s = "customer_confirmed_completion" ->
           {"payment_pending", "payment_processing", "payment_confirmed", "completed",
            "disputed"}
      [] s = "payment_pending" ->
           {"payment_processing", "payment_confirmed", "completed", "disputed"}
      [] s = "payment_processing" ->
           {"payment_confirmed", "payment_pending", "failed", "disputed"}
      [] s = "payment_confirmed" -> {"completed", "closed", "disputed"}
      [] s = "completed" -> {"closed", "disputed", "refund_requested"}
      [] s = "disputed" ->
           {"in_progress", "completed", "refund_requested", "closed", "cancelled"}
      [] s = "refund_requested" -> {"refunded", "disputed", "closed"}
      [] OTHER -> {} ]     \* closed, cancelled, failed, expired, refunded

(* assertTransitionAllowed: an edge of the table, and never from the quote  *)
(* phase to completion or payment, whatever the table says.                *)
TransitionAllowed(from, to) ==
    /\ to # from
    /\ to \in JobTransitions[from]
    /\ ~ /\ from \in QuotePhase
         /\ to \in {"completed", "closed", "customer_confirmed_completion",
                    "payment_confirmed", "payment_processing", "payment_pending"}

-----------------------------------------------------------------------------
(* Who may drive a transition.  A job j is a record with the fields status, *)
(* fundi, tech (each a person or None) and company (the company holds it). *)

(* Mutant: a dispute is opened by the provider. *)
JobStatusActorDispute(to) ==
    CASE to \in {"on_the_way", "arrived", "in_progress", "completion_requested", "disputed"} -> "provider"
      [] to \in {"customer_confirmed_completion", "completed"} -> "completion"
      [] to \in {"closed", "failed", "expired"} -> "admin"
      [] to \in {"cancelled", "refund_requested"} -> "customer"
      [] to \in {"accepted", "booking_confirmed"} -> "flex"
      [] to \in {"offered", "assigned"} -> "dispatch"
      [] to \in {"quote_requested", "scheduled", "pending", "matching"} -> "scheduler"
      [] OTHER -> "system"

(* JOB_STATUS_ACTORS *)
JobStatusActor(to) ==
    CASE to \in {"on_the_way", "arrived", "in_progress", "completion_requested"} -> "provider"
      [] to \in {"customer_confirmed_completion", "completed"} -> "completion"
      [] to \in {"closed", "failed", "expired"} -> "admin"
      [] to \in {"cancelled", "disputed", "refund_requested"} -> "customer"
      [] to \in {"accepted", "booking_confirmed"} -> "flex"
      [] to \in {"offered", "assigned"} -> "dispatch"
      [] to \in {"quote_requested", "scheduled", "pending", "matching"} -> "scheduler"
      [] OTHER -> "system"

CompanyMember(who, j) == j.company /\ who \in Members

(* Mutant: completion is the professional's, whatever the status. *)
MayDriveCompletionToo(who, j, to) ==
    LET kind == JobStatusActor(to)
        professional == who \in {j.fundi, j.tech}
    IN  \/ who = Admin
        \/ kind = "provider" /\ (professional \/ CompanyMember(who, j))
        \/ kind = "completion" /\ professional
        \/ kind = "customer" /\ who = Customer
        \/ kind \in {"flex", "dispatch"} /\ who # Customer
        \/ kind = "scheduler" /\ (who = j.fundi => who = j.tech)
        \/ kind = "system"

(* checkActor.  The kind "system" is the default branch of its switch: it  *)
(* asks nothing of the caller.                                             *)
MayDrive(who, j, to) ==
    LET kind == JobStatusActor(to)
        professional == who \in {j.fundi, j.tech}
    IN  \/ who = Admin
        \/ kind = "provider" /\ (professional \/ CompanyMember(who, j))
        \/ /\ kind = "completion"
           /\ IF to = "customer_confirmed_completion" \/ j.status = "completion_requested"
              THEN who = Customer ELSE professional
        \/ kind = "customer" /\ who = Customer
        \/ /\ kind = "flex"
           /\ IF j.status = "offered"
              THEN who = Customer \/ professional \/ CompanyMember(who, j)
              ELSE who # Customer
        \/ kind = "dispatch" /\ who # Customer
        \/ kind = "scheduler" /\ (who = j.fundi => who = j.tech)
        \/ kind = "system"

(* canAccessJob: the participants of the booking and the administrators. *)
HasAccess(who, j) ==
    who \in {Customer, Admin, j.fundi, j.tech} \/ CompanyMember(who, j)
=============================================================================
