------------------------ MODULE CompanyVerification ------------------------
(***************************************************************************)
(* The documents a company uploads and the decision on them                *)
(* (companyVerificationController.js).                                     *)
(*                                                                         *)
(* A step is one statement on the database; requests interleave between    *)
(* statements.                                                             *)
(***************************************************************************)
EXTENDS Naturals

CONSTANTS
    Types,          \* document types
    Required,       \* those verification_requirements asks for
    MaxDocuments,   \* bound: rows of verification_documents
    Members,        \* requests of the company handled at a time
    Staff,          \* decisions handled at a time
    None

Documents == 1 .. MaxDocuments

VARIABLES
    company,       \* company_profiles.status
    verification,  \* company_profiles.verification_status
    documents,     \* verification_documents of the company, type and status
    member,        \* where each request of the company is
    staff,         \* where each decision is
    vetted         \* history: document types the staff verified once

vars == <<company, verification, documents, member, staff, vetted>>

Idle == [pc |-> "idle", on |-> None]
At(pc, on) == [pc |-> pc, on |-> on]

Init ==
    /\ company = "approved" /\ verification = "not_submitted"
    /\ documents = [d \in Documents |-> [type |-> None, status |-> "none"]]
    /\ member = [m \in Members |-> Idle]
    /\ staff = [s \in Staff |-> "idle"]
    /\ vetted = {}

-----------------------------------------------------------------------------
(* The staff suspend a company, and reactivate it. *)
adminCompanyAction ==
    /\ company' \in {"approved", "suspended"} \ {company}
    /\ UNCHANGED <<verification, documents, member, staff, vetted>>

Rows(t) == {d \in Documents : documents[d].type = t}

FindDocument(m) ==
    /\ member[m] = Idle
    /\ \E t \in Types, d \in Documents \cup {None} :
          /\ IF Rows(t) = {} THEN d = None ELSE d \in Rows(t)
          /\ member' = [member EXCEPT ![m] = At("store", [type |-> t, row |-> d])]
    /\ UNCHANGED <<company, verification, documents, staff, vetted>>

(* The row found is written over; without one a row is added. *)
uploadCompanyDocument(m) ==
    /\ member[m].pc = "store"
    /\ \E d \in Documents :
          /\ IF member[m].on.row # None
             THEN d = member[m].on.row
             ELSE documents[d].status = "none" /\ \A e \in 1 .. d - 1 : documents[e].status # "none"
          /\ documents' = [documents EXCEPT ![d] = [type |-> member[m].on.type, status |-> "pending"]]
    /\ member' = [member EXCEPT ![m] = Idle]
    /\ UNCHANGED <<company, verification, staff, vetted>>

(* submitForVerification looks at the company, then at its documents, and   *)
(* moves first the company and then the documents.                          *)
SubmitOpens(m) ==
    /\ company # "suspended" /\ verification # "verified"
    /\ member[m] = Idle
    /\ member' = [member EXCEPT ![m] = At("check", None)]
    /\ UNCHANGED <<company, verification, documents, staff, vetted>>

Missing == {t \in Required : \A d \in Rows(t) : documents[d].status = "rejected"}

SubmitChecks(m) ==
    /\ member[m].pc = "check"
    /\ member' = [member EXCEPT ![m] = IF Missing = {} THEN At("submit", None) ELSE Idle]
    /\ UNCHANGED <<company, verification, documents, staff, vetted>>

submitForVerification(m) ==
    /\ member[m].pc = "submit"
    /\ verification' = "under_review"
    /\ member' = [member EXCEPT ![m] = At("mark", None)]
    /\ UNCHANGED <<company, documents, staff, vetted>>

MarkDocuments(m) ==
    /\ member[m].pc = "mark"
    /\ documents' = [d \in Documents |->
                        IF documents[d].status \in {"pending", "reupload_requested"}
                        THEN [documents[d] EXCEPT !.status = "under_review"] ELSE documents[d]]
    /\ member' = [member EXCEPT ![m] = Idle]
    /\ UNCHANGED <<company, verification, staff, vetted>>

adminReviewDocument ==
    /\ \E d \in Documents, status \in {"verified", "rejected", "reupload_requested"} :
          /\ documents[d].status # "none"
          /\ documents' = [documents EXCEPT ![d].status = status]
          /\ vetted' = IF status = "verified" THEN vetted \cup {documents[d].type} ELSE vetted
    /\ UNCHANGED <<company, verification, member, staff>>

(* Mutant: a document that was submitted suffices. *)
Submitted(t) == \E d \in Rows(t) : documents[d].status \in {"verified", "under_review"}

Verified(t) == \E d \in Rows(t) : documents[d].status = "verified"

(* adminVerifyCompany reads the documents, then writes the decision. *)
CheckDocuments(s) ==
    /\ staff[s] = "idle"
    /\ \A t \in Required : Verified(t)
    /\ staff' = [staff EXCEPT ![s] = "verify"]
    /\ UNCHANGED <<company, verification, documents, member, vetted>>

adminVerifyCompany(s) ==
    /\ \/ staff[s] = "verify" /\ verification' = "verified"
       \/ staff[s] = "idle" /\ verification' = "rejected"
    /\ staff' = [staff EXCEPT ![s] = "idle"]
    /\ UNCHANGED <<company, documents, member, vetted>>

-----------------------------------------------------------------------------
Next ==
    \/ adminCompanyAction \/ adminReviewDocument
    \/ \E s \in Staff : CheckDocuments(s) \/ adminVerifyCompany(s)
    \/ \E m \in Members :
          \/ FindDocument(m) \/ uploadCompanyDocument(m)
          \/ SubmitOpens(m) \/ SubmitChecks(m) \/ submitForVerification(m) \/ MarkDocuments(m)

Spec == Init /\ [][Next]_vars

-----------------------------------------------------------------------------
(* "A company is VERIFIED only after an admin has reviewed the required     *)
(* documents" (companyVerificationController.js:6-7), whatever is uploaded, *)
(* submitted and decided between the reading and the decision.              *)
VerifiedAfterReview == verification = "verified" => Required \subseteq vetted
=============================================================================
