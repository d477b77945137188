---------------------------- MODULE PlatformProofs ----------------------------
(***************************************************************************)
(* Theorems about the specification that is checked: the safety properties *)
(* of Platform, for every value of its constants.                          *)
(*                                                                         *)
(* What is inductive in a part of the platform is inductive in its scene:  *)
(* a step of Platform keeps the scene, and in it is a step of the part or  *)
(* a step that leaves its variables alone.                                 *)
(***************************************************************************)
EXTENDS Platform, TLAPS

PlatformInv ==
    /\ scene = "withdrawals" => Payouts!WithdrawalsInv
    /\ scene = "wallets" => Payouts!WalletsInv
    /\ scene = "connection" => Services!ConnectionInv
    /\ scene = "page" => Services!PageInv
    /\ scene = "plans" => Services!PlansInv
    /\ scene = "partner" => Admission!PartnerInv
    /\ scene = "vetting" => Admission!VettingInv
    /\ scene = "fundi" => Admission!AccessInv
    /\ scene = "app" => Sessions!SessionInv
    /\ scene = "site" => Sessions!SiteInv

(* The assumption on the constants, in the words of the parts. *)
LEMMA FiniteParts ==
    /\ Admission!IsFiniteSet(Staff) /\ Services!IsFiniteSet(Requests) /\ MaxPools \in Nat
    /\ None \notin Services!Connection!Pools /\ None \notin Nat
    /\ Requests \cap Services!Connection!Pools = {}
    /\ Amounts \subseteq Nat
    /\ MaxSettlements \in Nat /\ MaxPayouts \in Nat /\ MaxRequests \in Nat /\ MaxDebts \in Nat
<1>1. \A S : Admission!IsFiniteSet(S) <=> IsFiniteSet(S)
  BY DEF IsFiniteSet, Admission!IsFiniteSet
<1>2. \A S : Services!IsFiniteSet(S) <=> IsFiniteSet(S)
  BY DEF IsFiniteSet, Services!IsFiniteSet
<1> QED
  BY <1>1, <1>2, Finite DEF Services!Connection!Pools

LEMMA InitPlatform == Init => PlatformInv
<1>1. scene = "withdrawals" /\ Init => Payouts!WithdrawalsInv
  BY Payouts!InitWithdrawals DEF Init
<1>2. scene = "wallets" /\ Init => Payouts!WalletsInv
  BY FiniteParts, Payouts!InitWallets DEF Init
<1>3. scene = "connection" /\ Init => Services!ConnectionInv
  BY FiniteParts, Services!InitConnection DEF Init
<1>4. scene = "page" /\ Init => Services!PageInv
  BY Services!InitPage DEF Init
<1>5. scene = "plans" /\ Init => Services!PlansInv
  BY Services!InitPlans DEF Init
<1>6. scene = "partner" /\ Init => Admission!PartnerInv
  BY Admission!InitPartner DEF Init
<1>7. scene = "vetting" /\ Init => Admission!VettingInv
  BY Admission!InitVetting DEF Init
<1>8. scene = "fundi" /\ Init => Admission!AccessInv
  BY Admission!InitAccess DEF Init
<1>9. scene = "app" /\ Init => Sessions!SessionInv
  BY Sessions!InitSession DEF Init
<1>10. scene = "site" /\ Init => Sessions!SiteInv
  BY Sessions!InitSite DEF Init
<1> QED
  BY <1>1, <1>2, <1>3, <1>4, <1>5, <1>6, <1>7, <1>8, <1>9, <1>10 DEF PlatformInv

(* A step keeps the scene, and is one of its module. *)
LEMMA StepOfScene ==
    ASSUME [Next]_all
    PROVE  /\ scene' = scene
           /\ scene = "withdrawals" => [Payouts!Withdrawals!Next]_(Payouts!Withdrawals!vars)
           /\ scene = "wallets" => [Payouts!Wallets!Next]_(Payouts!Wallets!vars)
           /\ scene = "connection" => [Services!Connection!Next]_(Services!Connection!vars)
           /\ scene = "page" => [Services!Page!Next]_(Services!Page!vars)
           /\ scene = "plans" => [Services!Plans!Next]_(Services!Plans!vars)
           /\ scene = "partner" => [Admission!Partner!Next]_(Admission!Partner!vars)
           /\ scene = "vetting" => [Admission!Vetting!Next]_(Admission!Vetting!vars)
           /\ scene = "fundi" => [Admission!Fundi!Next]_(Admission!Fundi!vars)
           /\ scene = "app" => [Sessions!App!Next]_(Sessions!App!vars)
           /\ scene = "site" => [Sessions!Site!Next]_(Sessions!Site!vars)
<1>1. CASE Next
  BY <1>1 DEF Next, In
<1>2. CASE UNCHANGED all
  <2>1. scene' = scene /\ UNCHANGED cells
    BY <1>2 DEF all
  <2> QED
    BY <2>1 DEF cells, Payouts!Withdrawals!vars, Payouts!Wallets!vars,
                Services!Connection!vars, Services!Connection!state, Services!Page!vars,
                Services!Plans!vars, Admission!Partner!vars, Admission!Vetting!vars,
                Admission!Fundi!vars, Sessions!App!vars, Sessions!Site!vars
<1> QED
  BY <1>1, <1>2

LEMMA NextPlatform == PlatformInv /\ [Next]_all => PlatformInv'
<1> SUFFICES ASSUME PlatformInv, [Next]_all PROVE PlatformInv'
  OBVIOUS
<1>1. scene = "withdrawals" => Payouts!WithdrawalsInv'
  BY FiniteParts, StepOfScene, Payouts!NextWithdrawals DEF PlatformInv
<1>2. scene = "wallets" => Payouts!WalletsInv'
  BY FiniteParts, StepOfScene, Payouts!NextWallets DEF PlatformInv
<1>3. scene = "connection" => Services!ConnectionInv'
  BY FiniteParts, StepOfScene, Services!NextConnection DEF PlatformInv
<1>4. scene = "page" => Services!PageInv'
  BY StepOfScene, Services!NextPage DEF PlatformInv
<1>5. scene = "plans" => Services!PlansInv'
  BY StepOfScene, Services!NextPlans DEF PlatformInv
<1>6. scene = "partner" => Admission!PartnerInv'
  BY FiniteParts, StepOfScene, Admission!NextPartner DEF PlatformInv
<1>7. scene = "vetting" => Admission!VettingInv'
  BY StepOfScene, Admission!NextVetting DEF PlatformInv
<1>8. scene = "fundi" => Admission!AccessInv'
  BY StepOfScene, Admission!NextAccess DEF PlatformInv
<1>9. scene = "app" => Sessions!SessionInv'
  BY FiniteParts, StepOfScene, Sessions!NextSession DEF PlatformInv
<1>10. scene = "site" => Sessions!SiteInv'
  BY StepOfScene, Sessions!NextSite DEF PlatformInv
<1>11. scene' = scene
  BY StepOfScene
<1> QED
  BY <1>1, <1>2, <1>3, <1>4, <1>5, <1>6, <1>7, <1>8, <1>9, <1>10, <1>11 DEF PlatformInv

LEMMA PlatformHolds == Spec => []PlatformInv
BY InitPlatform, NextPlatform, PTL DEF Spec

-----------------------------------------------------------------------------
(* What a company was paid is what its settlements say, whatever is refunded *)
(* between the reading and the commit of a completion, unless completions   *)
(* overlapped (companyPayoutService.js:121-150).                            *)
THEOREM CompaniesSettledInFull == Spec => []SettledInFull
<1>1. PlatformInv => SettledInFull
  BY Payouts!WithdrawalsAreRight DEF PlatformInv, SettledInFull
<1> QED
  BY <1>1, PlatformHolds, PTL

(* Withdrawals asked for at a time never get more than a company earned     *)
(* (companyPayoutService.js:44-46).                                         *)
THEOREM CompaniesNeverOverdraw == Spec => []CompanyNeverOverdrawn
<1>1. PlatformInv => CompanyNeverOverdrawn
  BY Payouts!WithdrawalsAreRight DEF PlatformInv, CompanyNeverOverdrawn
<1> QED
  BY <1>1, PlatformHolds, PTL

(* Payouts asked for at a time, and releases in between, never get more than *)
(* was released to a fundi (payoutController.js:44-46).                     *)
THEOREM FundisNeverOverdraw == Spec => []FundiNeverOverdrawn
<1>1. PlatformInv => FundiNeverOverdrawn
  BY DEF PlatformInv, FundiNeverOverdrawn, Payouts!WalletsInv
<1> QED
  BY <1>1, PlatformHolds, PTL

(* What payouts withhold is taken from debts, once, whichever debts are added *)
(* between the checks of a request and its commit (fraudService.js:311-351). *)
THEOREM WhatIsWithheldIsBooked == Spec => []WithheldIsBooked
<1>1. PlatformInv => WithheldIsBooked
  BY DEF PlatformInv, WithheldIsBooked, Payouts!WalletsInv
<1> QED
  BY <1>1, PlatformHolds, PTL

(* A freeze stops the payouts whose checks came before it                   *)
(* (payoutController.js:78).                                                *)
THEOREM NothingPaidWhileFrozen == Spec => NoPayoutWhileFrozen
<1>1. PlatformInv /\ [Next]_all => (scene = "wallets" => Payouts!Wallets!FrozenAsksNothing)
  BY StepOfScene, Payouts!FrozenStepsAskNothing DEF PlatformInv
<1> QED
  BY <1>1, PlatformHolds, PTL DEF Spec, NoPayoutWhileFrozen

(* A pool that was lost is made again by the next call (db.js:169-170).     *)
THEOREM PoolsReconnect == Spec => []Reconnects
<1>1. PlatformInv => Reconnects
  BY Services!ConnectionIsRight DEF PlatformInv, Reconnects
<1> QED
  BY <1>1, PlatformHolds, PTL

(* The page of a chat shows what is stored, once (InAppChat.tsx:73-112,     *)
(* 200-211).                                                                *)
THEOREM PagesAgree == Spec => []PageAgrees
<1>1. PlatformInv => PageAgrees
  BY Services!PageIsRight DEF PlatformInv, PageAgrees
<1> QED
  BY <1>1, PlatformHolds, PTL

(* A subscription that was paid for is active (paymentController.js:211).   *)
THEOREM PayersAreEntitled == Spec => []PaidIsEntitled
<1>1. PlatformInv => PaidIsEntitled
  BY Services!PlansAreRight DEF PlatformInv, PaidIsEntitled
<1> QED
  BY <1>1, PlatformHolds, PTL

(* An application that is approved again and again makes one company        *)
(* (companyController.js:211).                                              *)
THEOREM OneCompanyIsMade == Spec => []OneCompany
<1>1. PlatformInv => OneCompany
  BY Admission!MadeOnce DEF PlatformInv, OneCompany
<1> QED
  BY <1>1, PlatformHolds, PTL

(* The company of a suspended application is closed                         *)
(* (companyController.js:243).                                              *)
THEOREM SuspendedCompaniesClose == Spec => []SuspendedIsClosed
<1>1. PlatformInv => SuspendedIsClosed
  BY Admission!ClosedBySuspension DEF PlatformInv, SuspendedIsClosed
<1> QED
  BY <1>1, PlatformHolds, PTL

(* A company is verified only once the staff accepted each required document *)
(* (companyVerificationController.js:6-7).                                  *)
THEOREM CompaniesVerifiedAfterReview == Spec => []VerifiedAfterReview
<1>1. PlatformInv => VerifiedAfterReview
  BY DEF PlatformInv, VerifiedAfterReview, Admission!VettingInv
<1> QED
  BY <1>1, PlatformHolds, PTL

(* The role of a fundi's account agrees with the decision on the fundi      *)
(* (adminController.js:684-693).                                            *)
THEOREM RolesFollowApproval == Spec => []RoleFollowsApproval
<1>1. PlatformInv => RoleFollowsApproval
  BY Admission!AccessIsRight DEF PlatformInv, RoleFollowsApproval
<1> QED
  BY <1>1, PlatformHolds, PTL

(* A suspended fundi is not offered work (fundiController.js:340-346).      *)
THEOREM SuspendedFundisStayOffline == Spec => []SuspendedIsOffline
<1>1. PlatformInv => SuspendedIsOffline
  BY Admission!AccessIsRight DEF PlatformInv, SuspendedIsOffline
<1> QED
  BY <1>1, PlatformHolds, PTL

(* The app does not end a session by refreshing it twice                    *)
(* (apiClient.ts:134-139).                                                  *)
THEOREM SessionsEndForCause == Spec => []SessionEndsForCause
<1>1. PlatformInv => SessionEndsForCause
  BY Sessions!SessionIsRight DEF PlatformInv, SessionEndsForCause
<1> QED
  BY <1>1, PlatformHolds, PTL

(* The app holds the one token that the server accepts (apiClient.ts:175-177, *)
(* authController.js:291-325).                                              *)
THEOREM SessionsStayInAgreement == Spec => []SessionsAgree
<1>1. PlatformInv => SessionsAgree
  BY Sessions!SessionIsRight DEF PlatformInv, SessionsAgree
<1> QED
  BY <1>1, PlatformHolds, PTL

(* A read survives the expiry of the token (api.ts:135).                    *)
THEOREM ReadsGetServed == Spec => []ReadsAreServed
<1>1. PlatformInv => ReadsAreServed
  BY Sessions!SiteIsRight DEF PlatformInv, ReadsAreServed
<1> QED
  BY <1>1, PlatformHolds, PTL

(* The retries of the page run a handler once (api.ts:113-132).             *)
THEOREM HandlersRunOnce == Spec => []RunsOnce
<1>1. PlatformInv => RunsOnce
  BY Sessions!SiteIsRight DEF PlatformInv, RunsOnce
<1> QED
  BY <1>1, PlatformHolds, PTL

(* Refreshes at a time leave the page signed in (authController.js:300-312). *)
THEOREM PagesStaySignedIn == Spec => []CookiesStayGood
<1>1. PlatformInv => CookiesStayGood
  BY Sessions!SiteIsRight DEF PlatformInv, CookiesStayGood
<1> QED
  BY <1>1, PlatformHolds, PTL
=============================================================================
