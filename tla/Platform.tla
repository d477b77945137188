------------------------------ MODULE Platform ------------------------------
(***************************************************************************)
(* The parts of the platform beside the booking, its escrow and the queue. *)
(*                                                                         *)
(* No model of these parts shares state with another, so that one run      *)
(* takes them one at a time: the initial state chooses the scene, and the  *)
(* steps of that scene's module follow.  The cells c1, c2, ... hold the    *)
(* variables of the scene's module.                                        *)
(*                                                                         *)
(* Most of the modules come through the module of the theorems about them, *)
(* so that PlatformProofs can cite those theorems of the very definitions  *)
(* that are checked here.                                                  *)
(***************************************************************************)
EXTENDS Naturals, FiniteSets

CONSTANTS
    None,
    MaxCompanies, Staff,                    \* partner applications
    Types, Required, MaxDocuments, Members, \* companies' documents
    Calls,                                  \* requests of a fundi, calls of an app or a page
    MaxIssued, MaxFaults,                   \* sessions
    Subs,                                   \* subscriptions
    Own, Others,                            \* messages of a chat
    Requests, MaxPools,                     \* the connection pool
    Amounts, Askers,                        \* money, and payouts asked for at a time
    MaxSettlements, MaxPayouts, Clerks,     \* payouts of a company
    MaxEarned, MaxRequests, MaxDebts, Admins    \* payouts of a fundi

(* Tables and sets of requests are finite, sums of money are numbers, and a *)
(* pool is none of the requests.                                            *)
ASSUME Finite ==
    /\ IsFiniteSet(Staff)
    /\ IsFiniteSet(Requests) /\ MaxPools \in Nat
    /\ Requests \cap (1 .. MaxPools) = {} /\ None \notin Nat
    /\ Amounts \subseteq Nat
    /\ MaxSettlements \in Nat /\ MaxPayouts \in Nat /\ MaxRequests \in Nat /\ MaxDebts \in Nat

VARIABLES scene, c1, c2, c3, c4, c5, c6, c7, c8, c9, c10, c11, c12

Payouts == INSTANCE PayoutProofs WITH
    payouts <- c2, asker <- c3,
    settlements <- c1, clerk <- c4, overlap <- c5,
    earned <- c1, debts <- c4, frozen <- c5, suspect <- c6, admin <- c7

Services == INSTANCE ServiceProofs WITH
    status <- c1, checkout <- c2, ask <- c3, prompt <- c4, told <- c5, cancelled <- c6,
    lost <- c7,
    open <- c1, log <- c2, post <- c3, room <- c4, channel <- c5, page <- c6, missed <- c7,
    pool <- c1, initPromise <- c2, lastError <- c3, pools <- c4, inits <- c5, task <- c6,
    up <- c7, overlap <- c8

Admission == INSTANCE AdmissionProofs WITH
    staff <- c3, crossed <- c4,
    application <- c1, companies <- c2, broken <- c5,
    company <- c1, verification <- c2, documents <- c4, member <- c5, vetted <- c6,
    approval <- c1, role <- c2, active <- c5, online <- c6, scores <- c7, call <- c8,
    stale <- c9, late <- c10

Sessions == INSTANCE SessionProofs WITH
    issued <- c1, live <- c2, fresh <- c3, call <- c5, faults <- c8,
    page <- c4, crossed <- c6, denied <- c7,
    held <- c4, flight <- c6, leaving <- c7, revoked <- c9, left <- c10, raced <- c11,
    ended <- c12

Panel == INSTANCE PaymentPanel WITH
    MaxAsks <- 2, MaxPayments <- 2, MaxPolls <- 1, MaxEvents <- 1,
    payments <- c1, asks <- c2, channel <- c3, room <- c4, panel <- c5, poll <- c6,
    watch <- c7

Window == INSTANCE Maintenance WITH
    schedule <- c1, window <- c2, flag <- c3, activated <- c4, check <- c5,
    own <- c6

Screen == INSTANCE ChatScreen WITH
    MaxMessages <- 3,
    stored <- c1, on <- c2, ears <- c3, answers <- c4, shown <- c5

-----------------------------------------------------------------------------
cells == <<c1, c2, c3, c4, c5, c6, c7, c8, c9, c10, c11, c12>>

all == <<scene, cells>>

(* The cells from the nth on are not used. *)
Spare12 == c12 = None
Spare11 == c11 = None /\ Spare12
Spare9 == c9 = None /\ c10 = None /\ Spare11
Spare8 == c8 = None /\ Spare9
Spare7 == c7 = None /\ Spare8
Spare6 == c6 = None /\ Spare7

Init ==
    \/ scene = "withdrawals" /\ Payouts!Withdrawals!Init /\ Spare6
    \/ scene = "wallets" /\ Payouts!Wallets!Init /\ Spare8
    \/ scene = "connection" /\ Services!Connection!Init /\ Spare9
    \/ scene = "partner" /\ Admission!Partner!Init /\ Spare6
    \/ scene = "vetting" /\ Admission!Vetting!Init /\ Spare7
    \/ scene = "fundi" /\ Admission!Fundi!Init /\ Spare11
    \/ scene = "app" /\ Sessions!App!Init
    \/ scene = "site" /\ Sessions!Site!Init /\ Spare9
    \/ scene = "panel" /\ Panel!Init /\ Spare8
    \/ scene = "window" /\ Window!Init /\ Spare7
    \/ scene = "page" /\ Services!Page!Init /\ Spare8
    \/ scene = "screen" /\ Screen!Init /\ Spare6
    \/ scene = "plans" /\ Services!Plans!Init /\ Spare8

In(name, A) == scene = name /\ A /\ UNCHANGED scene

Next ==
    \/ In("withdrawals", Payouts!Withdrawals!Next) /\ UNCHANGED <<c6, c7, c8, c9, c10, c11, c12>>
    \/ In("wallets", Payouts!Wallets!Next) /\ UNCHANGED <<c8, c9, c10, c11, c12>>
    \/ In("connection", Services!Connection!Next) /\ UNCHANGED <<c9, c10, c11, c12>>
    \/ In("partner", Admission!Partner!Next) /\ UNCHANGED <<c6, c7, c8, c9, c10, c11, c12>>
    \/ In("vetting", Admission!Vetting!Next) /\ UNCHANGED <<c7, c8, c9, c10, c11, c12>>
    \/ In("fundi", Admission!Fundi!Next) /\ UNCHANGED <<c11, c12>>
    \/ In("app", Sessions!App!Next)
    \/ In("site", Sessions!Site!Next) /\ UNCHANGED <<c9, c10, c11, c12>>
    \/ In("panel", Panel!Next) /\ UNCHANGED <<c8, c9, c10, c11, c12>>
    \/ In("window", Window!Next) /\ UNCHANGED <<c7, c8, c9, c10, c11, c12>>
    \/ In("page", Services!Page!Next) /\ UNCHANGED <<c8, c9, c10, c11, c12>>
    \/ In("screen", Screen!Next) /\ UNCHANGED <<c6, c7, c8, c9, c10, c11, c12>>
    \/ In("plans", Services!Plans!Next) /\ UNCHANGED <<c8, c9, c10, c11, c12>>

(* The fairness of each module, for its scene: only one scene's part of     *)
(* these actions can ever be taken, so that each may be stated in one       *)
(* formula with those of the others.                                        *)
InPanel(A) == In("panel", A) /\ UNCHANGED <<c8, c9, c10, c11, c12>>
InWindow(A) == In("window", A) /\ UNCHANGED <<c7, c8, c9, c10, c11, c12>>
InScreen(A) == In("screen", A) /\ UNCHANGED <<c6, c7, c8, c9, c10, c11, c12>>

Ticks ==
    \/ InPanel(Panel!PollTick)
    \/ InWindow(Window!ReadNote(TRUE))
    \/ InScreen(Screen!Poll)

Comes ==
    \/ InWindow(Window!ReadFlag)
    \/ InScreen(Screen!LoadsAll)

Fairness ==
    /\ WF_all(Ticks) /\ SF_all(Comes)
    /\ SF_all(InWindow(Window!ReadNote(FALSE))) /\ SF_all(InWindow(Window!SwitchFlag))

Spec == Init /\ [][Next]_all /\ Fairness

-----------------------------------------------------------------------------
(* The settlements a company is paid for add up to what it was paid,         *)
(* unless completions overlapped (companyPayoutService.js:121-150).          *)
SettledInFull == scene = "withdrawals" => Payouts!Withdrawals!SettledInFull

(* Withdrawals asked for at a time never get more than a company earned      *)
(* (companyPayoutService.js:44-46).                                          *)
CompanyNeverOverdrawn == scene = "withdrawals" => Payouts!Withdrawals!NeverOverdrawn

(* Payouts asked for at a time never get more than was released to a fundi   *)
(* (payoutController.js:44-46).                                              *)
FundiNeverOverdrawn == scene = "wallets" => Payouts!Wallets!NeverOverdrawn

(* What payouts withhold is taken from debts, once                           *)
(* (fraudService.js:311-351).                                                *)
WithheldIsBooked == scene = "wallets" => Payouts!Wallets!WithheldIsBooked

(* A freeze stops the payouts whose checks came before it                    *)
(* (payoutController.js:78).                                                 *)
NoPayoutWhileFrozen == [][scene = "wallets" => Payouts!Wallets!FrozenAsksNothing]_all

(* A pool that was lost is made again by the next call (db.js:169-170). *)
Reconnects == scene = "connection" => Services!Connection!Reconnects

(* An application that is approved again and again makes one company         *)
(* (companyController.js:211).                                               *)
OneCompany == scene = "partner" => Admission!Partner!OneCompany

(* The company of a suspended application is closed                          *)
(* (companyController.js:243).                                               *)
SuspendedIsClosed == scene = "partner" => Admission!Partner!SuspendedIsClosed

(* A company is verified only once the staff accepted each required          *)
(* document (companyVerificationController.js:6-7).                          *)
VerifiedAfterReview == scene = "vetting" => Admission!Vetting!VerifiedAfterReview

(* The role of a fundi's account agrees with the decision on the fundi       *)
(* (adminController.js:684-693).                                             *)
RoleFollowsApproval == scene = "fundi" => Admission!Fundi!RoleFollowsApproval

(* A suspended fundi is not offered work (fundiController.js:340-346). *)
SuspendedIsOffline == scene = "fundi" => Admission!Fundi!SuspendedIsOffline

(* The app does not end a session by refreshing it twice                     *)
(* (apiClient.ts:134-139).                                                   *)
SessionEndsForCause == scene = "app" => Sessions!App!SessionEndsForCause

(* The app holds the one token that the server accepts                       *)
(* (apiClient.ts:175-177, authController.js:291-325).                        *)
SessionsAgree == scene = "app" => Sessions!App!SessionsAgree

(* A read survives the expiry of the token (api.ts:135). *)
ReadsAreServed == scene = "site" => Sessions!Site!ReadsAreServed

(* The retries of the page run a handler once (api.ts:113-132). *)
RunsOnce == scene = "site" => Sessions!Site!RunsOnce

(* Refreshes at a time leave the page signed in                              *)
(* (authController.js:300-312).                                              *)
CookiesStayGood == scene = "site" => Sessions!Site!CookiesStayGood

(* The customer does not wait for a payment for good                         *)
(* (FundiTracker.tsx:471-498, 523-528).                                      *)
WaitingEnds == (scene = "panel" /\ Panel!Waiting) ~> (scene = "panel" /\ ~Panel!Waiting)

(* The page of a chat shows what is stored, once                             *)
(* (InAppChat.tsx:73-112, 200-211).                                         *)
PageAgrees == scene = "page" => Services!Page!PageAgrees

(* The chat screen of an app comes to show all messages and stays so         *)
(* (JobChatScreen.tsx:38-63).                                                *)
ShowsAllInTheEnd == <>[](scene = "screen" => Screen!CaughtUp)

(* A subscription that was paid for is active                                *)
(* (paymentController.js:211).                                               *)
PaidIsEntitled == scene = "plans" => Services!Plans!PaidIsEntitled

(* Maintenance that a check began ends after its window                      *)
(* (scheduledMaintenanceService.js:105-158).                                 *)
MaintenanceEnds == (scene = "window" /\ Window!Overdue) ~> (scene = "window" /\ Window!Over)
=============================================================================
