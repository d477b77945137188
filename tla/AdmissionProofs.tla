---------------------------- MODULE AdmissionProofs ----------------------------
(***************************************************************************)
(* Who is admitted to the platform: companies that apply, companies that   *)
(* have their documents verified, and fundis.  Theorems about the modules  *)
(* PartnerApplication, CompanyVerification and FundiAccess, for any number *)
(* of companies, documents and requests, and of decisions of the staff at  *)
(* a time.                                                                 *)
(*                                                                         *)
(* The modules are instantiated under the names of their own variables;    *)
(* they share no state, only the names staff and crossed.                  *)
(***************************************************************************)
EXTENDS FiniteSetTheorems, TLAPS

CONSTANTS MaxCompanies, Staff, Types, Required, MaxDocuments, Members, Calls, None

VARIABLES
    staff, crossed,                                         \* of more than one module
    application, companies, broken,                         \* PartnerApplication
    company, verification, documents, member, vetted,       \* CompanyVerification
    approval, role, active, online, scores, call, stale, late   \* FundiAccess

Partner == INSTANCE PartnerApplication

Vetting == INSTANCE CompanyVerification

Fundi == INSTANCE FundiAccess

-----------------------------------------------------------------------------
(* Partner applications *)

Made == {c \in Partner!Companies : companies[c] # "none"}

PartnerTyped ==
    /\ companies \in [Partner!Companies -> {"none", "approved", "suspended", "rejected"}]
    /\ staff \in [Staff -> {"idle", "find", "insert", "suspend"}]

(* Of reviews that never overlapped: one is under way at most, the one that *)
(* is about to insert found no company, and there is one company at most.   *)
OneAtATime ==
    /\ \A s, t \in Partner!Reviewing : s = t
    /\ \A s \in Staff : staff[s] = "insert" => Made = {}
    /\ \A c, d \in Made : c = d

(* The review that provisions a company has not been overtaken by a         *)
(* suspension, and a suspension that is written is carried out or about to  *)
(* be, unless something failed.                                             *)
SuspensionGoesOn ==
    /\ \A s \in Staff : staff[s] \in {"find", "insert"} => application # "suspended"
    /\ application = "suspended" /\ ~ broken =>
           \/ \E s \in Staff : staff[s] = "suspend"
           \/ \A c \in Partner!Companies : companies[c] # "approved"

Orderly == OneAtATime /\ SuspensionGoesOn

PartnerInv == PartnerTyped /\ (crossed \/ Orderly)

-----------------------------------------------------------------------------
(* The module counts with its own instance of FiniteSets. *)
LEMMA PartnerCounts == \A S : Partner!Cardinality(S) = Cardinality(S)
BY DEF Cardinality, Partner!Cardinality

(* crossed is raised by the step after which two reviews are under way. *)
LEMMA FewReviews ==
    ASSUME IsFiniteSet(Staff), Partner!Next, ~ crossed'
    PROVE  ~ crossed /\ \A s, t \in Partner!Reviewing' : s = t
<1>1. ~ crossed /\ ~ (Cardinality(Partner!Reviewing') > 1)
  BY PartnerCounts DEF Partner!Next
<1>2. Partner!Reviewing' \subseteq Staff
  BY DEF Partner!Reviewing
<1>3. IsFiniteSet(Partner!Reviewing')
  BY <1>2, FS_Subset
<1>4. ASSUME NEW s \in Partner!Reviewing', NEW t \in Partner!Reviewing', s # t
      PROVE  FALSE
  <2>1. Cardinality({s, t}) = 2
    <3>1. IsFiniteSet({s}) /\ Cardinality({s}) = 1
      BY FS_Singleton
    <3>2. Cardinality({s} \cup {t}) = Cardinality({s}) + 1
      BY <1>4, <3>1, FS_AddElement
    <3>3. {s} \cup {t} = {s, t}
      OBVIOUS
    <3> QED BY <3>1, <3>2, <3>3
  <2>2. {s, t} \subseteq Partner!Reviewing'
    OBVIOUS
  <2>3. /\ Cardinality({s, t}) <= Cardinality(Partner!Reviewing')
        /\ Cardinality(Partner!Reviewing') \in Nat
    BY <1>3, <2>2, FS_Subset, FS_CardinalityType
  <2> QED BY <1>1, <2>1, <2>3
<1> QED BY <1>1, <1>4

LEMMA InitPartner == Partner!Init => PartnerInv
BY DEF Partner!Init, PartnerInv, PartnerTyped, Orderly, OneAtATime, SuspensionGoesOn,
       Partner!Reviewing, Made

LEMMA StepKeepsPartner ==
    ASSUME IsFiniteSet(Staff), PartnerInv, Partner!Next
    PROVE  PartnerInv'
<1> USE DEF PartnerInv
<1>1. ASSUME ~ crossed'
      PROVE  Orderly /\ \A s, t \in Partner!Reviewing' : s = t
  BY <1>1, FewReviews
<1>2. CASE Partner!createPartnerApplication \/ Partner!submitPartnerApplication
  <2>1. UNCHANGED <<companies, staff, broken>> /\ application' = "submitted"
    BY <1>2 DEF Partner!createPartnerApplication, Partner!submitPartnerApplication
  <2>2. PartnerTyped'
    BY <2>1 DEF PartnerTyped
  <2>3. Orderly => Orderly'
    BY <2>1 DEF Orderly, OneAtATime, SuspensionGoesOn, Partner!Reviewing, Made
  <2> QED BY <1>1, <2>2, <2>3
<1>3. CASE Partner!adminCompanyAction
  <2>1. PICK c \in Partner!Companies, status \in {"suspended", "approved", "rejected"} :
            /\ companies[c] # "none"
            /\ companies' = [companies EXCEPT ![c] = status]
            /\ broken' = (broken \/ status = "approved")
    BY <1>3 DEF Partner!adminCompanyAction
  <2>2. application' = application /\ staff' = staff
    BY <1>3 DEF Partner!adminCompanyAction
  <2>3. PartnerTyped'
    BY <2>1, <2>2 DEF PartnerTyped
  <2>4. Made' = Made /\ Partner!Reviewing' = Partner!Reviewing
    BY <2>1, <2>2 DEF Made, PartnerTyped, Partner!Reviewing
  <2>5. Orderly => OneAtATime'
    BY <2>2, <2>4 DEF Orderly, OneAtATime
  <2>6. \A d \in Partner!Companies :
            companies'[d] = "approved" => companies[d] = "approved" \/ broken'
    BY <2>1 DEF PartnerTyped
  <2>7. Orderly => SuspensionGoesOn'
    BY <2>1, <2>2, <2>6 DEF Orderly, SuspensionGoesOn
  <2> QED BY <1>1, <2>3, <2>5, <2>7 DEF Orderly
<1>4. ASSUME NEW s \in Staff, Partner!reviewPartnerApplication(s)
      PROVE  PartnerInv'
  <2>1. PICK status \in Partner!APPLICATION_STATUSES, to \in {"idle", "find", "suspend"} :
            /\ application' = status
            /\ staff' = [staff EXCEPT ![s] = to]
            /\ status = "suspended" <=> to = "suspend"
    BY <1>4 DEF Partner!reviewPartnerApplication
  <2>2. staff[s] = "idle" /\ companies' = companies /\ broken' = broken /\ Made' = Made
    BY <1>4 DEF Partner!reviewPartnerApplication, Made
  <2>3. PartnerTyped'
    BY <2>1, <2>2 DEF PartnerTyped
  <2>4. ASSUME ~ crossed' PROVE OneAtATime'
    BY <1>1, <2>1, <2>2, <2>4 DEF Orderly, OneAtATime, PartnerTyped
  <2>5. ASSUME ~ crossed' PROVE SuspensionGoesOn'
    <3>1. CASE to = "suspend"
      <4>1. staff'[s] = "suspend" /\ s \in Partner!Reviewing'
        BY <2>1, <3>1 DEF PartnerTyped, Partner!Reviewing
      <4>2. \A t \in Staff : staff'[t] \in {"find", "insert"} => t \in Partner!Reviewing'
        BY DEF Partner!Reviewing
      <4> QED BY <1>1, <2>5, <4>1, <4>2 DEF SuspensionGoesOn
    <3>2. CASE to # "suspend"
      BY <2>1, <3>2 DEF SuspensionGoesOn
    <3> QED BY <3>1, <3>2
  <2> QED BY <2>3, <2>4, <2>5 DEF Orderly
<1>5. ASSUME NEW s \in Staff, Partner!FindCompany(s)
      PROVE  PartnerInv'
  <2>1. PICK to \in {"insert", "idle"} :
            /\ staff' = [staff EXCEPT ![s] = to]
            /\ to = "insert" => \A c \in Partner!Companies : companies[c] = "none"
    BY <1>5 DEF Partner!FindCompany
  <2>2. staff[s] = "find" /\ UNCHANGED <<application, companies, broken>> /\ Made' = Made
    BY <1>5 DEF Partner!FindCompany, Made
  <2>3. PartnerTyped'
    BY <2>1, <2>2 DEF PartnerTyped
  <2>4. ASSUME ~ crossed' PROVE OneAtATime'
    <3>1. to = "insert" => Made = {}
      BY <2>1 DEF Made
    <3> QED BY <1>1, <2>1, <2>2, <2>4, <3>1 DEF Orderly, OneAtATime, PartnerTyped
  <2>5. Orderly => SuspensionGoesOn'
    BY <2>1, <2>2 DEF Orderly, SuspensionGoesOn, PartnerTyped
  <2> QED BY <1>1, <2>3, <2>4, <2>5 DEF Orderly
<1>6. ASSUME NEW s \in Staff, Partner!ProvisionCompany(s)
      PROVE  PartnerInv'
  <2>1. PICK c \in Partner!Companies : companies' = [companies EXCEPT ![c] = "approved"]
    BY <1>6 DEF Partner!ProvisionCompany
  <2>2. /\ staff[s] = "insert" /\ staff' = [staff EXCEPT ![s] = "idle"]
        /\ UNCHANGED <<application, broken>>
    BY <1>6 DEF Partner!ProvisionCompany
  <2>3. PartnerTyped'
    BY <2>1, <2>2 DEF PartnerTyped
  <2>4. ASSUME ~ crossed' PROVE OneAtATime'
    <3>1. Made = {} /\ \A s1, t \in Partner!Reviewing : s1 = t
      BY <1>1, <2>2, <2>4 DEF Orderly, OneAtATime
    <3>2. Made' \subseteq {c}
      BY <2>1, <3>1 DEF Made, PartnerTyped
    <3>3. Partner!Reviewing' = {}
      BY <2>2, <3>1 DEF Partner!Reviewing, PartnerTyped
    <3> QED BY <3>2, <3>3 DEF OneAtATime, Partner!Reviewing
  <2>5. Orderly => SuspensionGoesOn'
    BY <2>2 DEF Orderly, SuspensionGoesOn, PartnerTyped
  <2> QED BY <1>1, <2>3, <2>4, <2>5 DEF Orderly
<1>7. ASSUME NEW s \in Staff, Partner!SuspendCompanies(s)
      PROVE  PartnerInv'
  <2>1. /\ companies' = [c \in Partner!Companies |->
                           IF companies[c] = "none" THEN "none" ELSE "suspended"]
        /\ staff' = [staff EXCEPT ![s] = "idle"]
        /\ UNCHANGED <<application, broken>>
    BY <1>7 DEF Partner!SuspendCompanies
  <2>2. PartnerTyped' /\ Made' = Made /\ Partner!Reviewing' \subseteq Partner!Reviewing
    BY <2>1 DEF PartnerTyped, Made, Partner!Reviewing
  <2>3. Orderly => OneAtATime'
    BY <2>1, <2>2 DEF Orderly, OneAtATime, PartnerTyped
  <2>4. Orderly => SuspensionGoesOn'
    BY <2>1 DEF Orderly, SuspensionGoesOn, PartnerTyped
  <2> QED BY <1>1, <2>2, <2>3, <2>4 DEF Orderly
<1>8. ASSUME NEW s \in Staff, Partner!ReviewFails(s)
      PROVE  PartnerInv'
  <2>1. /\ staff' = [staff EXCEPT ![s] = "idle"] /\ broken' = TRUE
        /\ UNCHANGED <<application, companies>>
    BY <1>8 DEF Partner!ReviewFails
  <2>2. PartnerTyped' /\ Made' = Made /\ Partner!Reviewing' \subseteq Partner!Reviewing
    BY <2>1 DEF PartnerTyped, Made, Partner!Reviewing
  <2>3. Orderly => OneAtATime' /\ SuspensionGoesOn'
    BY <2>1, <2>2 DEF Orderly, OneAtATime, SuspensionGoesOn, PartnerTyped
  <2> QED BY <1>1, <2>2, <2>3 DEF Orderly
<1> QED BY <1>2, <1>3, <1>4, <1>5, <1>6, <1>7, <1>8 DEF Partner!Next, Partner!Step

LEMMA NextPartner ==
    ASSUME IsFiniteSet(Staff)
    PROVE  PartnerInv /\ [Partner!Next]_(Partner!vars) => PartnerInv'
<1>1. PartnerInv /\ UNCHANGED Partner!vars => PartnerInv'
  BY DEF Partner!vars, PartnerInv, PartnerTyped, Orderly, OneAtATime, SuspensionGoesOn,
         Partner!Reviewing, Made
<1> QED BY <1>1, StepKeepsPartner

LEMMA MadeOnce == PartnerInv => Partner!OneCompany
<1> SUFFICES ASSUME PartnerInv, ~ crossed PROVE Cardinality(Made) <= 1
  BY PartnerCounts DEF Partner!OneCompany, Made
<1>1. \A c, d \in Made : c = d
  BY DEF PartnerInv, Orderly, OneAtATime
<1>2. CASE Made = {}
  BY <1>2, FS_EmptySet
<1>3. ASSUME NEW c \in Made PROVE Cardinality(Made) <= 1
  <2>1. Made = {c}
    BY <1>1
  <2> QED BY <2>1, FS_Singleton
<1> QED BY <1>2, <1>3

LEMMA ClosedBySuspension == PartnerInv => Partner!SuspendedIsClosed
BY DEF PartnerInv, Orderly, SuspensionGoesOn, Partner!SuspendedIsClosed, Partner!Reviewing

-----------------------------------------------------------------------------
(* Reviews one after the other make one company, however often they repeat, *)
(* fail half-way and alternate with the staff's own decisions on the        *)
(* company (companyController.js:211).                                      *)
THEOREM CompanyIsMadeOnce ==
    ASSUME IsFiniteSet(Staff)
    PROVE  Partner!Spec => []Partner!OneCompany
BY InitPartner, NextPartner, MadeOnce, PTL DEF Partner!Spec

(* The company of a suspended application is closed, whatever reviews came  *)
(* before (companyController.js:243).                                       *)
THEOREM SuspensionCloses ==
    ASSUME IsFiniteSet(Staff)
    PROVE  Partner!Spec => []Partner!SuspendedIsClosed
BY InitPartner, NextPartner, ClosedBySuspension, PTL DEF Partner!Spec

-----------------------------------------------------------------------------
(* Verification of companies *)

VettingTyped ==
    /\ DOMAIN documents = Vetting!Documents
    /\ \A d \in Vetting!Documents : DOMAIN documents[d] = {"type", "status"}
    /\ staff \in [Staff -> {"idle", "verify"}]

(* A document that is verified was verified as what it is, and a decision   *)
(* to verify was reached when all required ones were.                       *)
ReviewsHold ==
    /\ \A d \in Vetting!Documents : documents[d].status = "verified" => documents[d].type \in vetted
    /\ \A s \in Staff : staff[s] = "verify" => Required \subseteq vetted

VettingInv == VettingTyped /\ ReviewsHold /\ Vetting!VerifiedAfterReview

-----------------------------------------------------------------------------
LEMMA InitVetting == Vetting!Init => VettingInv
BY DEF Vetting!Init, VettingInv, VettingTyped, ReviewsHold, Vetting!VerifiedAfterReview

LEMMA MemberKeepsVetting ==
    ASSUME VettingInv, NEW m \in Members,
           \/ Vetting!FindDocument(m) \/ Vetting!uploadCompanyDocument(m)
           \/ Vetting!SubmitOpens(m) \/ Vetting!SubmitChecks(m)
           \/ Vetting!submitForVerification(m) \/ Vetting!MarkDocuments(m)
    PROVE  VettingInv'
<1> USE DEF VettingInv
<1>1. CASE \/ Vetting!FindDocument(m) \/ Vetting!SubmitOpens(m) \/ Vetting!SubmitChecks(m)
           \/ Vetting!submitForVerification(m)
  <2>1. /\ UNCHANGED <<documents, staff, vetted>>
        /\ verification' = verification \/ verification' = "under_review"
    BY <1>1 DEF Vetting!FindDocument, Vetting!SubmitOpens, Vetting!SubmitChecks,
                Vetting!submitForVerification
  <2> QED BY <2>1 DEF VettingTyped, ReviewsHold, Vetting!VerifiedAfterReview
<1>2. CASE Vetting!uploadCompanyDocument(m)
  <2>1. PICK d \in Vetting!Documents :
            documents' =
                [documents EXCEPT ![d] = [type |-> member[m].on.type, status |-> "pending"]]
    BY <1>2 DEF Vetting!uploadCompanyDocument
  <2>2. UNCHANGED <<verification, staff, vetted>>
    BY <1>2 DEF Vetting!uploadCompanyDocument
  <2> QED BY <2>1, <2>2 DEF VettingTyped, ReviewsHold, Vetting!VerifiedAfterReview
<1>3. CASE Vetting!MarkDocuments(m)
  <2>1. /\ documents' = [d \in Vetting!Documents |->
                            IF documents[d].status \in {"pending", "reupload_requested"}
                            THEN [documents[d] EXCEPT !.status = "under_review"] ELSE documents[d]]
        /\ UNCHANGED <<verification, staff, vetted>>
    BY <1>3 DEF Vetting!MarkDocuments
  <2>2. VettingTyped'
    BY <2>1 DEF VettingTyped
  <2>3. ReviewsHold' /\ Vetting!VerifiedAfterReview'
    BY <2>1 DEF VettingTyped, ReviewsHold, Vetting!VerifiedAfterReview
  <2> QED BY <2>2, <2>3
<1> QED BY <1>1, <1>2, <1>3

LEMMA StaffKeepsVetting ==
    ASSUME VettingInv,
           \/ Vetting!adminCompanyAction \/ Vetting!adminReviewDocument
           \/ \E s \in Staff : Vetting!CheckDocuments(s) \/ Vetting!adminVerifyCompany(s)
    PROVE  VettingInv'
<1> USE DEF VettingInv
<1>1. CASE Vetting!adminCompanyAction
  BY <1>1 DEF Vetting!adminCompanyAction, VettingTyped, ReviewsHold, Vetting!VerifiedAfterReview
<1>2. CASE Vetting!adminReviewDocument
  <2>1. PICK d \in Vetting!Documents, status \in {"verified", "rejected", "reupload_requested"} :
            /\ documents' = [documents EXCEPT ![d].status = status]
            /\ vetted' = IF status = "verified" THEN vetted \cup {documents[d].type} ELSE vetted
    BY <1>2 DEF Vetting!adminReviewDocument
  <2>2. UNCHANGED <<verification, staff>>
    BY <1>2 DEF Vetting!adminReviewDocument
  <2>3. VettingTyped'
    BY <2>1, <2>2 DEF VettingTyped
  <2>4. documents'[d].type = documents[d].type /\ documents'[d].status = status
    BY <2>1 DEF VettingTyped
  <2>5. \A e \in Vetting!Documents : e # d => documents'[e] = documents[e]
    BY <2>1 DEF VettingTyped
  <2>6. vetted \subseteq vetted'
    BY <2>1
  <2>7. ReviewsHold' /\ Vetting!VerifiedAfterReview'
    BY <2>1, <2>2, <2>4, <2>5, <2>6 DEF ReviewsHold, Vetting!VerifiedAfterReview
  <2> QED BY <2>3, <2>7
<1>3. ASSUME NEW s \in Staff, Vetting!CheckDocuments(s)
      PROVE  VettingInv'
  <2>1. /\ \A t \in Required : \E d \in Vetting!Rows(t) : documents[d].status = "verified"
        /\ staff' = [staff EXCEPT ![s] = "verify"]
        /\ UNCHANGED <<verification, documents, vetted>>
    BY <1>3 DEF Vetting!CheckDocuments, Vetting!Verified
  <2>2. Required \subseteq vetted
    BY <2>1 DEF Vetting!Rows, ReviewsHold
  <2> QED BY <2>1, <2>2 DEF VettingTyped, ReviewsHold, Vetting!VerifiedAfterReview
<1>4. ASSUME NEW s \in Staff, Vetting!adminVerifyCompany(s)
      PROVE  VettingInv'
  <2>1. /\ staff[s] = "verify" \/ verification' = "rejected"
        /\ staff' = [staff EXCEPT ![s] = "idle"]
        /\ UNCHANGED <<documents, vetted>>
    BY <1>4 DEF Vetting!adminVerifyCompany
  <2> QED BY <2>1 DEF VettingTyped, ReviewsHold, Vetting!VerifiedAfterReview
<1> QED BY <1>1, <1>2, <1>3, <1>4

LEMMA NextVetting == VettingInv /\ [Vetting!Next]_(Vetting!vars) => VettingInv'
<1> SUFFICES ASSUME VettingInv, [Vetting!Next]_(Vetting!vars) PROVE VettingInv'
  OBVIOUS
<1>1. CASE UNCHANGED Vetting!vars
  BY <1>1 DEF Vetting!vars, VettingInv, VettingTyped, ReviewsHold, Vetting!VerifiedAfterReview
<1>2. CASE Vetting!Next
  BY <1>2, MemberKeepsVetting, StaffKeepsVetting DEF Vetting!Next
<1> QED BY <1>1, <1>2

-----------------------------------------------------------------------------
(* A company is verified only once the staff accepted each document that is *)
(* required, whatever is uploaded, submitted and decided at the same time   *)
(* (companyVerificationController.js:6-7).                                  *)
THEOREM VerifiedOnlyAfterReview == Vetting!Spec => []Vetting!VerifiedAfterReview
<1>1. VettingInv => Vetting!VerifiedAfterReview
  BY DEF VettingInv
<1> QED BY <1>1, InitVetting, NextVetting, PTL DEF Vetting!Spec

-----------------------------------------------------------------------------
(* Fundis *)

CallPlaces == {"idle", "register", "identity", "auto", "approve", "online"}

FundiTyped ==
    /\ call \in [Calls -> CallPlaces]
    /\ staff \in [Staff -> {"idle", "demote"}]
    /\ crossed \in BOOLEAN /\ late \in BOOLEAN

(* While a rejection has yet to change the role and nothing crossed it, the *)
(* fundi is rejected; otherwise role and approval agree.                    *)
RoleAgrees ==
    ~ crossed =>
        IF Fundi!Demoting = {}
        THEN /\ approval = "approved" => role = "fundi"
             /\ approval \in {"none", "rejected"} => role # "fundi"
        ELSE approval = "rejected"

(* A request that is past its check and not out of date was right. *)
ChecksHold == \A c \in Calls : call[c] = "online" /\ c \notin stale => approval = "approved"

AccessInv == FundiTyped /\ RoleAgrees /\ ChecksHold /\ Fundi!SuspendedIsOffline

-----------------------------------------------------------------------------
LEMMA InitAccess == Fundi!Init => AccessInv
<1> SUFFICES ASSUME Fundi!Init PROVE AccessInv
  OBVIOUS
<1>1. FundiTyped
  BY DEF Fundi!Init, FundiTyped, CallPlaces
<1>2. RoleAgrees
  BY DEF Fundi!Init, RoleAgrees, Fundi!Demoting
<1>3. ChecksHold /\ Fundi!SuspendedIsOffline
  BY DEF Fundi!Init, ChecksHold, Fundi!SuspendedIsOffline
<1> QED BY <1>1, <1>2, <1>3 DEF AccessInv

(* A decision keeps the checks: those it overtakes are out of date. *)
LEMMA DecisionKeepsChecks ==
    ASSUME FundiTyped, ChecksHold, NEW status, Fundi!Decide(status),
           \A c \in Calls : call'[c] = "online" => call[c] = "online"
    PROVE  ChecksHold'
BY DEF Fundi!Decide, ChecksHold

(* A request that moves on to anything but going online keeps the checks. *)
LEMMA StepOfRequest ==
    ASSUME FundiTyped, NEW c \in Calls, NEW from, NEW to \in CallPlaces, Fundi!Goes(c, from, to)
    PROVE  /\ call' \in [Calls -> CallPlaces]
           /\ to # "online" => \A d \in Calls : call'[d] = "online" => call[d] = "online"
           /\ \A d \in Calls : d # c => call'[d] = call[d]
BY DEF Fundi!Goes, FundiTyped

LEMMA RequestKeepsAccess ==
    ASSUME AccessInv, NEW c \in Calls,
           \/ Fundi!registerFundi(c) \/ Fundi!createFundiRegistration(c)
           \/ Fundi!runIdentityVerification(c)
           \/ Fundi!completeLivenessSession(c) \/ Fundi!ReadScores(c) \/ Fundi!tryAutoApprove(c)
           \/ Fundi!requireApprovedFundi(c) \/ Fundi!goOnline(c)
    PROVE  AccessInv'
<1> USE DEF AccessInv
<1>1. staff' = staff /\ Fundi!Demoting' = Fundi!Demoting
  BY DEF Fundi!registerFundi, Fundi!createFundiRegistration, Fundi!runIdentityVerification,
         Fundi!Demoting,
         Fundi!completeLivenessSession, Fundi!ReadScores, Fundi!tryAutoApprove,
         Fundi!requireApprovedFundi, Fundi!goOnline
<1>2. CASE Fundi!createFundiRegistration(c)
  <2>1. Fundi!Goes(c, "register", "identity") /\ Fundi!Decide("pending")
    BY <1>2 DEF Fundi!createFundiRegistration
  <2>2. FundiTyped'
    BY <1>1, <2>1, StepOfRequest DEF FundiTyped, CallPlaces, Fundi!Decide
  <2>3. ChecksHold'
    BY <2>1, StepOfRequest, DecisionKeepsChecks DEF CallPlaces
  <2>4. RoleAgrees'
    BY <1>1, <2>1 DEF Fundi!Decide, RoleAgrees, FundiTyped
  <2>5. Fundi!SuspendedIsOffline'
    BY <2>1 DEF Fundi!Decide, Fundi!SuspendedIsOffline
  <2> QED BY <2>2, <2>3, <2>4, <2>5
<1>3. CASE Fundi!tryAutoApprove(c)
  <2>1. Fundi!Goes(c, "approve", "idle") /\ Fundi!Decide("approved") /\ role' = "fundi"
    BY <1>3 DEF Fundi!tryAutoApprove
  <2>2. FundiTyped'
    BY <1>1, <2>1, StepOfRequest DEF FundiTyped, CallPlaces, Fundi!Decide
  <2>3. ChecksHold'
    BY <2>1, StepOfRequest, DecisionKeepsChecks DEF CallPlaces
  <2>4. RoleAgrees'
    BY <1>1, <2>1 DEF Fundi!Decide, RoleAgrees, FundiTyped
  <2>5. Fundi!SuspendedIsOffline'
    BY <2>1 DEF Fundi!Decide, Fundi!SuspendedIsOffline
  <2> QED BY <2>2, <2>3, <2>4, <2>5
<1>4. CASE Fundi!goOnline(c)
  <2>1. /\ Fundi!Goes(c, "online", "idle") /\ online' = TRUE
        /\ late' = (late \/ c \in stale) /\ stale' = stale \ {c}
        /\ UNCHANGED <<approval, role, crossed>>
    BY <1>4 DEF Fundi!goOnline
  <2>2. FundiTyped'
    BY <1>1, <2>1, StepOfRequest DEF FundiTyped, CallPlaces
  <2>3. ChecksHold'
    BY <2>1, StepOfRequest DEF ChecksHold, CallPlaces, FundiTyped, Fundi!Goes
  <2>4. RoleAgrees'
    BY <1>1, <2>1 DEF RoleAgrees
  <2>5. approval = "suspended" => c \in stale
    BY <2>1 DEF ChecksHold, Fundi!Goes
  <2>6. Fundi!SuspendedIsOffline'
    BY <2>1, <2>5 DEF Fundi!SuspendedIsOffline
  <2> QED BY <2>2, <2>3, <2>4, <2>6
<1>5. CASE \/ Fundi!registerFundi(c) \/ Fundi!runIdentityVerification(c)
           \/ Fundi!completeLivenessSession(c)
           \/ Fundi!ReadScores(c) \/ Fundi!requireApprovedFundi(c)
  <2>1. Fundi!Undecided /\ UNCHANGED <<role, online>>
    BY <1>5 DEF Fundi!registerFundi, Fundi!runIdentityVerification,
                Fundi!completeLivenessSession, Fundi!ReadScores,
                Fundi!requireApprovedFundi
  <2>2. PICK from, to \in CallPlaces :
            Fundi!Goes(c, from, to) /\ (to = "online" => approval = "approved")
    <3>1. CASE Fundi!registerFundi(c)
      BY <3>1 DEF Fundi!registerFundi, CallPlaces
    <3>2. CASE Fundi!runIdentityVerification(c)
      BY <3>2 DEF Fundi!runIdentityVerification, CallPlaces
    <3>3. CASE Fundi!completeLivenessSession(c)
      BY <3>3 DEF Fundi!completeLivenessSession, CallPlaces
    <3>4. CASE Fundi!ReadScores(c)
      BY <3>4 DEF Fundi!ReadScores, CallPlaces
    <3>5. CASE Fundi!requireApprovedFundi(c)
      BY <3>5 DEF Fundi!requireApprovedFundi, CallPlaces
    <3> QED BY <1>5, <3>1, <3>2, <3>3, <3>4, <3>5
  <2>3. FundiTyped'
    BY <1>1, <2>1, <2>2, StepOfRequest DEF FundiTyped, Fundi!Undecided
  <2>4. ChecksHold'
    BY <2>1, <2>2 DEF Fundi!Goes, FundiTyped, Fundi!Undecided, ChecksHold
  <2>5. RoleAgrees' /\ Fundi!SuspendedIsOffline'
    BY <1>1, <2>1 DEF Fundi!Undecided, RoleAgrees, Fundi!SuspendedIsOffline
  <2> QED BY <2>3, <2>4, <2>5
<1> QED BY <1>2, <1>3, <1>4, <1>5

LEMMA StaffKeepsAccess ==
    ASSUME AccessInv,
           \/ Fundi!approveFundi \/ Fundi!requestFundiReupload \/ Fundi!suspendFundi
           \/ Fundi!setUserStatus \/ Fundi!goOffline
           \/ \E s \in Staff : Fundi!rejectFundi(s) \/ Fundi!Demote(s) \/ Fundi!DemotionFails(s)
    PROVE  AccessInv'
<1> USE DEF AccessInv
<1>1. call' = call
  BY DEF Fundi!approveFundi, Fundi!requestFundiReupload, Fundi!suspendFundi,
         Fundi!setUserStatus, Fundi!goOffline,
         Fundi!rejectFundi, Fundi!Demote, Fundi!DemotionFails
<1>2. CASE Fundi!approveFundi \/ Fundi!requestFundiReupload \/ Fundi!suspendFundi
  <2>1. /\ staff' = staff /\ Fundi!Demoting' = Fundi!Demoting
        /\ \E status \in {"approved", "pending", "suspended"} :
              /\ Fundi!Decide(status)
              /\ status = "approved" => role' = "fundi"
              /\ status = "suspended" => online' = FALSE
    BY <1>2 DEF Fundi!approveFundi, Fundi!requestFundiReupload, Fundi!suspendFundi,
                Fundi!Demoting
  <2>2. FundiTyped'
    BY <1>1, <2>1 DEF FundiTyped, Fundi!Decide
  <2>3. ChecksHold'
    BY <1>1, <2>1, DecisionKeepsChecks
  <2>4. RoleAgrees'
    BY <2>1 DEF Fundi!Decide, RoleAgrees, FundiTyped
  <2>5. Fundi!SuspendedIsOffline'
    BY <2>1 DEF Fundi!Decide, Fundi!SuspendedIsOffline
  <2> QED BY <2>2, <2>3, <2>4, <2>5
<1>3. CASE Fundi!setUserStatus \/ Fundi!goOffline
  <2>1. /\ staff' = staff /\ Fundi!Demoting' = Fundi!Demoting /\ Fundi!Undecided /\ role' = role
        /\ online' = online \/ online' = FALSE
    BY <1>3 DEF Fundi!setUserStatus, Fundi!goOffline, Fundi!Demoting
  <2>2. FundiTyped' /\ ChecksHold' /\ RoleAgrees'
    BY <1>1, <2>1 DEF FundiTyped, Fundi!Undecided, ChecksHold, RoleAgrees
  <2>3. Fundi!SuspendedIsOffline'
    BY <2>1 DEF Fundi!Undecided, Fundi!SuspendedIsOffline
  <2> QED BY <2>2, <2>3
<1>4. ASSUME NEW s \in Staff, Fundi!rejectFundi(s)
      PROVE  AccessInv'
  <2>1. /\ Fundi!Decide("rejected") /\ UNCHANGED <<role, online>>
        /\ staff' = [staff EXCEPT ![s] = "demote"]
    BY <1>4 DEF Fundi!rejectFundi
  <2>2. FundiTyped'
    BY <1>1, <2>1 DEF FundiTyped, Fundi!Decide
  <2>3. ChecksHold'
    BY <1>1, <2>1, DecisionKeepsChecks
  <2>4. s \in Fundi!Demoting'
    BY <2>1 DEF Fundi!Demoting, FundiTyped
  <2>5. RoleAgrees'
    BY <2>1, <2>4 DEF Fundi!Decide, RoleAgrees
  <2>6. Fundi!SuspendedIsOffline'
    BY <2>1 DEF Fundi!Decide, Fundi!SuspendedIsOffline
  <2> QED BY <2>2, <2>3, <2>5, <2>6
<1>5. ASSUME NEW s \in Staff, Fundi!Demote(s) \/ Fundi!DemotionFails(s)
      PROVE  AccessInv'
  <2>1. /\ staff[s] = "demote" /\ staff' = [staff EXCEPT ![s] = "idle"]
        /\ UNCHANGED <<approval, online, stale, late>>
        /\ (crossed' = crossed /\ role' = "fundi_pending") \/ crossed' = TRUE
    BY <1>5 DEF Fundi!Demote, Fundi!DemotionFails, Fundi!Undecided
  <2>2. FundiTyped' /\ ChecksHold' /\ Fundi!SuspendedIsOffline'
    BY <1>1, <2>1 DEF FundiTyped, ChecksHold, Fundi!SuspendedIsOffline
  <2>3. s \in Fundi!Demoting
    BY <2>1 DEF Fundi!Demoting
  <2>4. RoleAgrees'
    BY <2>1, <2>3 DEF RoleAgrees, FundiTyped
  <2> QED BY <2>2, <2>4
<1> QED BY <1>2, <1>3, <1>4, <1>5

LEMMA NextAccess == AccessInv /\ [Fundi!Next]_(Fundi!vars) => AccessInv'
<1> SUFFICES ASSUME AccessInv, [Fundi!Next]_(Fundi!vars) PROVE AccessInv'
  OBVIOUS
<1>1. CASE UNCHANGED Fundi!vars
  BY <1>1 DEF Fundi!vars, AccessInv, FundiTyped, RoleAgrees, Fundi!Demoting, ChecksHold,
              Fundi!SuspendedIsOffline
<1>2. CASE Fundi!Next
  BY <1>2, RequestKeepsAccess, StaffKeepsAccess DEF Fundi!Next
<1> QED BY <1>1, <1>2

LEMMA AccessIsRight ==
    AccessInv => Fundi!RoleFollowsApproval /\ Fundi!SuspendedIsOffline
BY DEF AccessInv, RoleAgrees, Fundi!RoleFollowsApproval

-----------------------------------------------------------------------------
(* Role and approval agree, however many requests, automatic approvals and  *)
(* decisions interleave (adminController.js:684-693).                       *)
THEOREM RoleAlwaysFollows == Fundi!Spec => []Fundi!RoleFollowsApproval
BY InitAccess, NextAccess, AccessIsRight, PTL DEF Fundi!Spec

(* A suspended fundi is offline, unless a request that had passed its check *)
(* before the decision went on after it (fundiController.js:340-346).       *)
THEOREM SuspendedStaysOffline == Fundi!Spec => []Fundi!SuspendedIsOffline
BY InitAccess, NextAccess, AccessIsRight, PTL DEF Fundi!Spec
=============================================================================
