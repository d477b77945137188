---------------------------- MODULE FundiAccess ----------------------------
(***************************************************************************)
(* Whether a fundi may work: registration (fundiRegistrationService.js),   *)
(* the automatic checks (identityVerificationService.js and                *)
(* livenessVerificationService.js), the decisions of the staff             *)
(* (adminController.js) and the fundi who goes online                      *)
(* (fundiController.js).                                                   *)
(*                                                                         *)
(* A step is a statement or a transaction on the database, with the checks *)
(* that precede it; requests interleave between steps.  Jobs are offered   *)
(* to fundis whose row is approved and online, and whose user has the role *)
(* fundi (jobController.js:32).                                            *)
(***************************************************************************)
EXTENDS Naturals, FiniteSets

CONSTANTS
    Calls,   \* requests of the fundi handled at a time
    Staff    \* decisions handled at a time

VARIABLES
    approval,   \* fundis.approval_status, "none" without a row
    role,       \* users.role
    active,     \* users.status = 'active'
    online,     \* fundis.online
    scores,     \* the scores on the row: the face's and the liveness's suffice
    call,       \* where each request of the fundi is
    staff,      \* where each decision is
    stale,      \* history: the requests whose check of the approval is out of date
    late,       \* history: one of them went on to set online
    crossed     \* history: a rejection was overtaken by another decision, or failed half-way

vars == <<approval, role, active, online, scores, call, staff, stale, late, crossed>>

Init ==
    /\ approval = "none" /\ role = "customer" /\ active = TRUE /\ online = FALSE
    /\ scores = [face |-> FALSE, liveness |-> FALSE]
    /\ call = [c \in Calls |-> "idle"] /\ staff = [s \in Staff |-> "idle"]
    /\ stale = {} /\ late = FALSE /\ crossed = FALSE

Goes(c, from, to) == call[c] = from /\ call' = [call EXCEPT ![c] = to]

Demoting == {s \in Staff : staff[s] = "demote"}

(* The row gets a status: what was read of it before is out of date, and a  *)
(* rejection that has still to change the role will undo more than it did.  *)
Decide(status) ==
    /\ approval' = status
    /\ stale' = stale \cup {c \in Calls : call[c] = "online"}
    /\ crossed' = (crossed \/ Demoting # {})
    /\ UNCHANGED late

Undecided == UNCHANGED <<approval, stale, late, crossed>>

-----------------------------------------------------------------------------
(* Registration and the automatic checks *)

registerFundi(c) ==
    /\ role \in {"customer", "fundi_pending"}
    /\ Goes(c, "idle", "register")
    /\ Undecided /\ UNCHANGED <<role, active, online, scores, staff>>

(* Whatever the status is by now: "Contact support or re-register"          *)
(* (fundiController.js:48).                                                 *)
createFundiRegistration(c) ==
    /\ Goes(c, "register", "identity")
    /\ role' = "fundi_pending"
    /\ Decide("pending")
    /\ UNCHANGED <<active, online, scores, staff>>

runIdentityVerification(c) ==
    /\ Goes(c, "identity", "idle")
    /\ \E face \in BOOLEAN : scores' = [scores EXCEPT !.face = face]
    /\ Undecided /\ UNCHANGED <<role, active, online, staff>>

completeLivenessSession(c) ==
    /\ approval # "none"
    /\ scores' \in [face : BOOLEAN, liveness : BOOLEAN]
    /\ Goes(c, "idle", IF scores'.face /\ scores'.liveness THEN "auto" ELSE "idle")
    /\ Undecided /\ UNCHANGED <<role, active, online, staff>>

(* tryAutoApprove reads the scores, copies the photo, and then approves     *)
(* whatever the row says by then.                                           *)
ReadScores(c) ==
    /\ Goes(c, "auto", IF scores.face /\ scores.liveness THEN "approve" ELSE "idle")
    /\ Undecided /\ UNCHANGED <<role, active, online, scores, staff>>

tryAutoApprove(c) ==
    /\ Goes(c, "approve", "idle")
    /\ role' = "fundi" /\ active' = TRUE
    /\ Decide("approved")
    /\ UNCHANGED <<online, scores, staff>>

-----------------------------------------------------------------------------
(* The staff *)

(* Mutant: the user's role is left as it is. *)
approveFundiRow ==
    /\ approval # "none"
    /\ active' = TRUE
    /\ Decide("approved")
    /\ UNCHANGED <<role, online, scores, call, staff>>

approveFundi ==
    /\ approval # "none"
    /\ role' = "fundi" /\ active' = TRUE
    /\ Decide("approved")
    /\ UNCHANGED <<online, scores, call, staff>>

requestFundiReupload ==
    /\ approval # "none"
    /\ Decide("pending")
    /\ UNCHANGED <<role, active, online, scores, call, staff>>

(* Mutant: online is left as it is. *)
suspendFundiOnline ==
    /\ approval # "none"
    /\ Decide("suspended")
    /\ UNCHANGED <<role, active, online, scores, call, staff>>

suspendFundi ==
    /\ approval # "none"
    /\ online' = FALSE
    /\ Decide("suspended")
    /\ UNCHANGED <<role, active, scores, call, staff>>

(* The fundi's row, then the user's role. *)
rejectFundi(s) ==
    /\ approval # "none" /\ staff[s] = "idle"
    /\ Decide("rejected")
    /\ staff' = [staff EXCEPT ![s] = "demote"]
    /\ UNCHANGED <<role, active, online, scores, call>>

Demote(s) ==
    /\ staff[s] = "demote"
    /\ role' = "fundi_pending"
    /\ staff' = [staff EXCEPT ![s] = "idle"]
    /\ Undecided /\ UNCHANGED <<active, online, scores, call>>

DemotionFails(s) ==
    /\ staff[s] = "demote"
    /\ staff' = [staff EXCEPT ![s] = "idle"]
    /\ crossed' = TRUE
    /\ UNCHANGED <<approval, role, active, online, scores, call, stale, late>>

setUserStatus ==
    /\ active' = ~ active
    /\ Undecided /\ UNCHANGED <<role, online, scores, call, staff>>

-----------------------------------------------------------------------------
(* goOnline and location look at the approval, and then set online. *)

requireApprovedFundi(c) ==
    /\ approval = "approved" /\ role = "fundi" /\ active
    /\ Goes(c, "idle", "online")
    /\ Undecided /\ UNCHANGED <<role, active, online, scores, staff>>

goOnline(c) ==
    /\ Goes(c, "online", "idle")
    /\ online' = TRUE
    /\ late' = (late \/ c \in stale)
    /\ stale' = stale \ {c}
    /\ UNCHANGED <<approval, role, active, scores, staff, crossed>>

goOffline ==
    /\ approval = "approved" /\ role = "fundi" /\ active
    /\ online' = FALSE
    /\ Undecided /\ UNCHANGED <<role, active, scores, call, staff>>

-----------------------------------------------------------------------------
Next ==
    \/ approveFundi \/ requestFundiReupload \/ suspendFundi \/ setUserStatus \/ goOffline
    \/ \E s \in Staff : rejectFundi(s) \/ Demote(s) \/ DemotionFails(s)
    \/ \E c \in Calls :
          \/ registerFundi(c) \/ createFundiRegistration(c) \/ runIdentityVerification(c)
          \/ completeLivenessSession(c) \/ ReadScores(c) \/ tryAutoApprove(c)
          \/ requireApprovedFundi(c) \/ goOnline(c)

Spec == Init /\ [][Next]_vars

-----------------------------------------------------------------------------
(* The two rows that say whether a fundi may work agree once the requests   *)
(* are over: an approved fundi has the role it takes to go online, and a    *)
(* rejected one does not; unless a decision came in between the two         *)
(* statements of a rejection, or the second failed                          *)
(* (adminController.js:684-693).                                            *)
RoleFollowsApproval ==
    Demoting = {} /\ ~ crossed =>
        /\ approval = "approved" => role = "fundi"
        /\ approval \in {"none", "rejected"} => role # "fundi"

(* A suspended fundi is offline, however requests to go online, location    *)
(* updates, the automatic approval and decisions interleave; unless such a  *)
(* request was past its check when the decision came                        *)
(* (fundiController.js:340-346).                                            *)
SuspendedIsOffline == approval = "suspended" /\ online => late
=============================================================================
