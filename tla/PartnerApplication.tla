------------------------- MODULE PartnerApplication -------------------------
(***************************************************************************)
(* The partner application of a company and the company that its approval  *)
(* creates (companyController.js).                                         *)
(*                                                                         *)
(* A step is one statement on the database; reviews interleave between     *)
(* statements, and one may fail there and do no more.                      *)
(***************************************************************************)
EXTENDS Naturals, FiniteSets

CONSTANTS
    MaxCompanies,   \* bound: rows of company_profiles
    Staff           \* reviews handled at a time

Companies == 1 .. MaxCompanies

VARIABLES
    application,   \* status of the application
    companies,     \* status of each company made from it
    staff,         \* where each review is
    crossed,       \* history: two reviews were under way at a time
    broken         \* history: a review failed half-way, or the staff reactivated a company

vars == <<application, companies, staff, crossed, broken>>

APPLICATION_STATUSES ==
    {"draft", "submitted", "reviewing", "more_info_required",
     "approved", "rejected", "suspended", "archived"}

Init ==
    /\ application = "none"
    /\ companies = [c \in Companies |-> "none"]
    /\ staff = [s \in Staff |-> "idle"]
    /\ crossed = FALSE /\ broken = FALSE

Reviewing == {s \in Staff : staff[s] # "idle"}

-----------------------------------------------------------------------------
createPartnerApplication ==
    /\ application = "none"
    /\ application' = "submitted"
    /\ UNCHANGED <<companies, staff, broken>>

submitPartnerApplication ==
    /\ application = "draft"
    /\ application' = "submitted"
    /\ UNCHANGED <<companies, staff, broken>>

(* Mutant: a suspension stops at the application. *)
reviewOfApplication(s) ==
    /\ application # "none" /\ staff[s] = "idle"
    /\ \E status \in APPLICATION_STATUSES :
          /\ application' = status
          /\ staff' = [staff EXCEPT ![s] = IF status = "approved" THEN "find" ELSE "idle"]
    /\ UNCHANGED <<companies, broken>>

(* Any status, whatever the present one; two of them have a sequel. *)
reviewPartnerApplication(s) ==
    /\ application # "none" /\ staff[s] = "idle"
    /\ \E status \in APPLICATION_STATUSES :
          /\ application' = status
          /\ staff' = [staff EXCEPT ![s] = CASE status = "approved" -> "find"
                                             [] status = "suspended" -> "suspend"
                                             [] OTHER -> "idle"]
    /\ UNCHANGED <<companies, broken>>

(* Mutant: a suspended company does not count. *)
FindOpenCompany(s) ==
    /\ staff[s] = "find"
    /\ staff' = [staff EXCEPT ![s] = IF \A c \in Companies : companies[c] \in {"none", "suspended"}
                                     THEN "insert" ELSE "idle"]
    /\ UNCHANGED <<application, companies, broken>>

FindCompany(s) ==
    /\ staff[s] = "find"
    /\ staff' = [staff EXCEPT ![s] = IF \A c \in Companies : companies[c] = "none"
                                     THEN "insert" ELSE "idle"]
    /\ UNCHANGED <<application, companies, broken>>

ProvisionCompany(s) ==
    /\ staff[s] = "insert"
    /\ \E c \in Companies :
          /\ companies[c] = "none" /\ \A b \in 1 .. c - 1 : companies[b] # "none"
          /\ companies' = [companies EXCEPT ![c] = "approved"]
    /\ staff' = [staff EXCEPT ![s] = "idle"]
    /\ UNCHANGED <<application, broken>>

SuspendCompanies(s) ==
    /\ staff[s] = "suspend"
    /\ companies' = [c \in Companies |-> IF companies[c] = "none" THEN "none" ELSE "suspended"]
    /\ staff' = [staff EXCEPT ![s] = "idle"]
    /\ UNCHANGED <<application, broken>>

adminCompanyAction ==
    /\ \E c \in Companies, status \in {"suspended", "approved", "rejected"} :
          /\ companies[c] # "none"
          /\ companies' = [companies EXCEPT ![c] = status]
          /\ broken' = (broken \/ status = "approved")
    /\ UNCHANGED <<application, staff>>

(* The next statement of a review fails, or the process stops. *)
ReviewFails(s) ==
    /\ s \in Reviewing
    /\ staff' = [staff EXCEPT ![s] = "idle"]
    /\ broken' = TRUE
    /\ UNCHANGED <<application, companies>>

-----------------------------------------------------------------------------
Step ==
    \/ createPartnerApplication \/ submitPartnerApplication \/ adminCompanyAction
    \/ \E s \in Staff :
          \/ reviewPartnerApplication(s) \/ FindCompany(s) \/ ProvisionCompany(s)
          \/ SuspendCompanies(s) \/ ReviewFails(s)

Next == Step /\ crossed' = (crossed \/ Cardinality(Reviewing') > 1)

Spec == Init /\ [][Next]_vars

-----------------------------------------------------------------------------
(* "idempotent company provisioning" (companyController.js:211): however    *)
(* often an application is approved, suspended and approved again, by       *)
(* requests that fail half-way and are repeated, it makes one company;      *)
(* unless two reviews overlapped, for no index forbids a second row.        *)
OneCompany ==
    crossed \/ Cardinality({c \in Companies : companies[c] # "none"}) <= 1

(* The company of a suspended application is closed, unless reviews         *)
(* overlapped or failed, or the staff reactivated it on its own.            *)
SuspendedIsClosed ==
    application = "suspended" /\ Reviewing = {} /\ ~ crossed /\ ~ broken
        => \A c \in Companies : companies[c] # "approved"
=============================================================================
