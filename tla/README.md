# PataFundi: TLA+ specifications

PataFundi is a marketplace for home services: customers book a professional (a
*fundi*) or a service company, agree on a price, confirm the work with a code and pay
into escrow over M-Pesa. The backend (`backend/`, Express over PostgreSQL) keeps all the
state; the web and mobile clients send requests and listen to events. These modules
specify the parts where order, concurrency and failure decide whether the system is
correct: the life of a booking with its quotes, the money of a booking, the queue of
background work, the payouts, the approval of companies and fundis, the sessions of the
clients, and what the clients show of payments and messages.

## 1. The system

Paths without a directory are in `backend/src/`.

| Component | State | Operations | Interacts with |
|---|---|---|---|
| Job state machine, `services/jobStateMachine.js` | the table `JOB_TRANSITIONS`, `JOB_STATUS_ACTORS` | `assertTransitionAllowed`, `checkActor`, `transitionJob` | every handler of a booking; guarded UPDATE of `jobs` |
| Booking lifecycle, `controllers/jobController.js` | `jobs`: status, professional, estimate, completion code, confirmation | create, patch, accept, cancel, check-in, complete, resend code, confirm | state machine; `releaseJobEscrow` after a confirmation |
| Quotes, `services/quoteService.js` | `quotes`, a unique index on live quotes | create, view, decide, ask, expire | state machine (`offered`, `booking_confirmed`, `matching`) |
| Company dispatch, `controllers/companyController.js` | company, technician of a booking | claim, accept, reject, quote, assign, unassign | state machine; two UPDATEs that bypass it |
| Background loops, `server.js`, `queueWorker.js` | none of their own | activate dated bookings, requeue offers, expire requests and quotes | state machine, in competition with requests |
| Customer payments, `controllers/paymentController.js` | `payments`, `processed_webhook_callbacks`, holds | `stkPush`, `webhook` | M-Pesa; `jobs.payment_status` |
| Settlement, `services/settlementService.js` | `escrow_transactions`, wallet, `payouts`, `company_settlements` | `releaseJobEscrow` | called by confirmation and by administrators |
| Refunds, `services/refundReversalService.js`, `controllers/refundController.js` | `refund_requests`, payments | ask, review, reject, approve; reversal | wallet, settlements |
| Disputes, `controllers/disputeController.js` | `disputes` | open, resolve | freezes and unfreezes payments |
| Company payouts, `services/companyPayoutService.js` | `company_settlements`, `payouts` | withdraw, complete, settle in order of age | releases and refunds add and cancel settlements |
| Fundi payouts, `controllers/payoutController.js`, `services/fraudService.js` | `payouts`, `commission_debts`, the freeze | request, complete, withhold, flag, freeze | releases add balance |
| Queue worker, `queueWorker.js` | `job_queue` | enqueue, claim, run, complete, reschedule, retry by the staff | notifications of every part |
| Database pool, `db.js` | `pool`, `initPromise`, `lastError` | create, probe, replace, drain | every statement of every part |
| Partner application, `controllers/companyController.js` | `partner_applications`, `company_profiles` | create, submit, review, provision, suspend | company dispatch |
| Company verification, `controllers/companyVerificationController.js` | `verification_documents`, `verification_status` | upload, submit, review, verify | partner application |
| Fundi access, `services/fundiRegistrationService.js`, `controllers/adminController.js`, `controllers/fundiController.js` | `fundis.approval_status`, `users.role`, `online` | register, check, approve, reject, suspend, go online | who is offered bookings |
| Sessions, `controllers/authController.js`, `middleware/auth.js`, `packages/shared/src/apiClient.ts`, `frontend/src/lib/api.ts` | refresh tokens; tokens and cookies of the clients | sign in, refresh, retry, sign out, force out | every request |
| Payment panel, `frontend/.../FundiTracker.tsx`, `frontend/src/services/realtime.ts` | what the customer sees of the payment | ask, poll, watch, hear | payments, socket rooms |
| Chat, `controllers/chatController.js`, `InAppChat.tsx`, `JobChatScreen.tsx`, `ChatScreen.tsx` | `chat_messages`; the list each client shows | list, post, hear, poll | socket rooms |
| Subscriptions, `routes.js`, `controllers/paymentController.js` | `subscriptions` | activate, pay, cancel | M-Pesa |
| Scheduled maintenance, `services/scheduledMaintenanceService.js` | `maintenance_mode`, the scheduler's note | check, switch, note | the staff switch the same flag |

The components that are not modelled are in section 7 and in `PROJECT.json`.

What is hard in this code:

* **Interleaving.** A handler awaits at every statement, and outside `transaction()`
  every statement commits by itself. "Read, check, write" is therefore three steps with
  anything in between; what holds it together is the condition in the last UPDATE
  (`and status = :from`), a unique index, a row lock, or nothing.
* **Two ways to write a status.** `transitionJob` follows the table; `acceptJob`,
  `assignTechnician`, `unassignTechnician` and a branch of `confirmCompletion` write
  with conditions of their own.
* **Partial failure.** A request that fails halfway leaves its earlier statements done
  (quote decided, booking not moved; application approved, company not made).
* **Row locks in different orders** between callbacks, releases, disputes and reversals.
* **An unreliable payment provider**: callbacks repeated, late, lost, early, or for a
  prompt that was replaced.
* **Processes that stop** with a row of the queue in hand, and a database that suspends
  under the pool.
* **Clients that overlap their own requests**: tokens refreshed by several calls at once,
  answers that come after newer ones, events lost with the connection.
* **Liveness by timers**: offers, quotes, dated bookings, queue rows, the maintenance
  flag and the screens only move because a timer comes round, and a timer may lose
  every race it enters.

## 2. Modules

| Module | Models | Lines of the code |
|---|---|---|
| `JobStateMachine` | the table, the quote-phase guard, who may drive what | `jobStateMachine.js` |
| `Booking` | one booking and its quotes under every endpoint and loop | `jobController.js`, `quoteService.js`, `companyController.js`, `server.js` |
| `BookingPromise` | abstract: open, booked, work, over | – |
| `EscrowLedger` | the payments, escrow, disputes, refunds and payout of one booking | `paymentController.js`, `settlementService.js`, `refund*.js`, `disputeController.js`, `payoutController.js` |
| `EscrowPromise` | abstract: where the money of each payment is | – |
| `JobQueue` | the table of background work and the processes that work on it | `queueWorker.js`, `enterpriseService3.js` |
| `CompanyPayouts` | settlements and withdrawals of a company, with amounts | `companyPayoutService.js` |
| `FundiPayouts` | balance, payouts, debts and freeze of a fundi, with amounts | `payoutController.js`, `fraudService.js`, `adminController.js` |
| `Database` | the connection pool between awaits | `db.js` |
| `PartnerApplication` | an application and the companies made from it | `companyController.js` |
| `CompanyVerification` | documents, submissions and decisions | `companyVerificationController.js` |
| `FundiAccess` | whether a fundi may work | `fundiRegistrationService.js`, `identityVerificationService.js`, `livenessVerificationService.js`, `adminController.js`, `fundiController.js` |
| `MobileSession` | tokens of the apps and of the server | `apiClient.ts`, `authController.js` |
| `WebSession` | a call of the page, its retries, cookies and CSRF token | `api.ts`, `auth.js`, `authController.js` |
| `PaymentPanel` | what the tracking page says of the payment | `FundiTracker.tsx`, `realtime.ts` |
| `Maintenance` | the maintenance window, flag and note | `scheduledMaintenanceService.js` |
| `Chat` | messages, and the chat of the site | `chatController.js`, `InAppChat.tsx` |
| `ChatScreen` | the chat screen of the apps | `JobChatScreen.tsx`, `ChatScreen.tsx` |
| `Subscriptions` | requests, prompts, callbacks and cancellations | `routes.js`, `paymentController.js` |
| `Platform` | the thirteen modules from `CompanyPayouts` on, a scene each | – |
| `MCBooking`, `MCEscrow`, `MCJobQueue` | instances for TLC | – |
| `BookingProofs`, `EscrowProofs`, `JobQueueProofs`, `PlatformProofs` | theorems about the modules they are named after | – |
| `PayoutProofs` | theorems about `CompanyPayouts` and `FundiPayouts` | – |
| `AdmissionProofs` | theorems about `PartnerApplication`, `CompanyVerification` and `FundiAccess` | – |
| `SessionProofs` | theorems about `MobileSession` and `WebSession` | – |
| `ServiceProofs` | theorems about `Database`, `Chat` and `Subscriptions` | – |

`Booking` EXTENDS `JobStateMachine` and implements `BookingPromise`; `EscrowLedger`
implements `EscrowPromise`. The two detailed modules meet in `jobs`: `EscrowLedger` sees
of the status only what the money paths ask of it (completed, refused, any other) and
lets it move as freely as `Booking` does (`MoveJob`), so what it shows holds whatever the
booking does. `CompanyPayouts` and `FundiPayouts` take up what `EscrowLedger` releases,
over several bookings and with amounts: a release is their input. `PayoutProofs`,
`AdmissionProofs`, `SessionProofs` and `ServiceProofs` instantiate the modules they are
about (`Payouts!Withdrawals` is `CompanyPayouts`, `Payouts!Wallets` `FundiPayouts`, and so
on), and `Platform` takes its scenes from them, so that what is checked and what is proved
are the same definitions.

### How state and actions correspond to the code

A variable is a table, a column of one row, or a variable of the process or the client,
and has its name. An action is a statement on the database with the checks that precede
it or, in the clients and in `Database`, a stretch from one `await` to the next. A
handler that is one guarded UPDATE is one action (`AcceptJob`, `AssignTechnician`); the
others are a chain, of which a slot remembers where it is (`pc`) and what it has read:

    decideQuote:  DecideQuote (read job) -> FindLiveQuote (expire, pick)
                  -> WriteDecision (by id) -> Transition (guarded UPDATE)

In `Booking`, `Ask` is `transitionJob` up to its UPDATE and `Transition` the UPDATE, with
the columns that ride along (`extraSet`, operator `Moved`) and the continuation of the
caller (`AfterTransition`). `Fail` ends a slot at any statement: an error, a lost
connection, a process that stops. Outside a transaction what was written stays; in
`EscrowLedger` a transaction writes at its last action only, so `Fail` is its rollback.

In `EscrowLedger` a transaction is one action per row lock it waits for. Which locks are
held is read off the `pc` of the slots (`JobLocked`, `RowLocked`, `RefundLocked`): a
release holds the job while it waits for the payment, a callback and a reversal hold the
payment while they wait for the job. Two that wait for each other are a deadlock, which
PostgreSQL ends by aborting one: `Fail`. The payout modules take a step where a
transaction reads what it decides by and one where it commits.

In `JobQueue` a worker is at one statement of its loop; `Crash` and `stopQueueWorker` let
go of the row as the code does, that is without writing it. In `Database` what is ready
to go on after an await goes on before the next event, as in Node. A statement that fails in
`JobQueue` may have been done all the same, its answer lost. In the client modules
a request in flight, an answer on its way and the order in which they come in are states;
a session has a number that stands for its access and its refresh token, and the server's
refresh is its three statements (`refresh`, `RevokeUsed`, `ReplaceUsed`). In
`PaymentPanel` an answer that was asked for may come at any time after, more than once
(another question asked meanwhile has the same answer) or never.

Abstractions. Time: a quote, an offer, a token or a delay may be past its time at any
moment. Prices are members of `Amounts`, and a booking may be made without an estimate
(`None`: no pricing and no figure of the customer's, `jobController.js:282`); in `EscrowLedger` amounts are not modelled. One
company, of which every member has a dispatch role. Timeline rows, notifications, audit
and accounting rows are left out: nothing reads them back. A code is right or wrong by
free choice, and must have been issued. `cancelQuote` is not an action because nothing
calls it. The dev simulator and Stripe write what a callback writes, in one transaction.

**History variables** are written and never read by an action. `booked` and `approved` in
`Booking` record which acceptance moved the booking and which prices the customer named or
approved, `None` among them for one who named none. `hit` in `JobQueue` marks the rows whose last run was killed or
had a statement fail, and `own` in `Maintenance` the maintenance that a check began and was
not cut short in. In the other modules they name the circumstance in which the code does not keep a
property, so that the property can say what holds otherwise: `overlap` (completions of a
company's payouts overlapped; calls on the pool overlapped), `crossed` and `broken` (two
decisions interleaved, one failed halfway), `stale` and `late` (a check was overtaken),
`raced` (a refresh was in flight during a logout), `faults`, `missed` (an event was lost
or a list came late), `lost` (an answer to the storing of a checkout id). Each
of these exceptions is a real behaviour of the code and is described in section 5.

## 3. Runs

| Run | Shows |
|---|---|
| `booking_life` | with two concurrent requests of a company member and an administrator (who may do all a customer or a fundi may), for a booking with or without an estimate, PATCH to any of the 24 statuses, and failures: `TypeOK`; `StatusFollowsEdges`, the status only takes edges of the table or the two of the company portal; `KeepsPromise`, the booking implements `BookingPromise` |
| `booking_quotes` | two quotes, two requests: `OneLiveQuote` although questions and decisions write by id |
| `booking_lapses` | `OfferLapses`, `QuoteLapses`, `DatedJobActivates` under the fairness of the loops |
| `booking_providers` | with only providers calling: `NoUnilateralOutcome`, `AwaitsCustomer` |
| `escrow_ledger` | `TypeOK` (the wallet never goes below zero); `EscrowIsFunded`, a hold exists exactly for what a processed, paid prompt of that payment paid; `PaidOncePerRelease`; `KeepsPromise`, the ledger implements `EscrowPromise`: no release without a confirmation or during a dispute, refunded money never comes back |
| `queue_worker` | two processes, a row with a handler and one without: `NoDoubleProcessing`, `AttemptsBounded`, `OnlyFaultsAbandon`; `SettledIsFinal`, a row that ended changes only by a retry of the staff or by the process that holds it after a lost answer or an earlier retry; and `EveryRowSettles` under fairness |
| `platform` | thirteen scenes, below |
| `booking_decision`, `booking_self_complete`, `booking_price`, `escrow_refunded_once`, `escrow_collected_once` | expected violations, section 5 |

`platform` takes thirteen modules that share no modelled state. `Platform` instantiates
each, over cells that hold the variables of the scene; the initial state chooses the
scene, and only the steps of its module follow, so the state space is the sum of theirs
(846 thousand states), not the product. The bounds are in `Platform.cfg`, except those of
`PaymentPanel` and `ChatScreen`, which are at their instances.

| Scene | Module | Properties | Bounds |
|---|---|---|---|
| withdrawals | `CompanyPayouts` | `SettledInFull`, `CompanyNeverOverdrawn` | 3 settlements and 3 payouts of 1 or 2, two withdrawals and two completions at once |
| wallets | `FundiPayouts` | `FundiNeverOverdrawn`, `WithheldIsBooked`, `NoPayoutWhileFrozen` | 3 units earned, 2 payouts, 2 debts, two requests and an administrator |
| connection | `Database` | `Reconnects` | 3 calls at once, 3 pools |
| partner | `PartnerApplication` | `OneCompany`, `SuspendedIsClosed` | 2 companies, two reviews at once |
| vetting | `CompanyVerification` | `VerifiedAfterReview` | one type, 2 rows of documents, two members and two of the staff at once |
| fundi | `FundiAccess` | `RoleFollowsApproval`, `SuspendedIsOffline` | two requests and two decisions at once |
| app | `MobileSession` | `SessionEndsForCause`, `SessionsAgree` | two calls, 3 sessions, a fault |
| site | `WebSession` | `ReadsAreServed`, `RunsOnce`, `CookiesStayGood` | two calls, 3 sessions, a fault |
| panel | `PaymentPanel` | `WaitingEnds` | 2 payments, two presses, a poll before the panel gives up, one event under way |
| window | `Maintenance` | `MaintenanceEnds` | none |
| page | `Chat` | `PageAgrees` | a message of the page and one of another |
| screen | `ChatScreen` | `ShowsAllInTheEnd` | 3 messages |
| plans | `Subscriptions` | `PaidIsEntitled` | 2 subscriptions |

**Bounds.** Slots: two requests, or one and a pass, are what a lost update or a check
made stale needs; the theorems have no such bound. `booking_life` has no quotes and
`booking_quotes` has two: one that is decided or expired while a request still holds it,
and its successor. `PatchTargets` is every status in `booking_life` and
`booking_providers`; in `booking_quotes` and `booking_lapses` it is what leads in and out
of the quote phase. `Callers` is restricted where the run is about one side; in
`booking_life` the administrator stands for the customer and for the fundi, whose calls it
may all make, and `booking_providers` has the fundi. Amounts are one value except in `booking_price`, where
two are needed to differ; a booking without an estimate begins in `booking_life` and `booking_price` (the constant
`Estimates`); in the other booking runs the estimate decides nothing they check, and is one price. A company's quote is begun
only while a quote row is left, and a model without quote rows (`booking_life`, `booking_price`) decides none.
Two payments and two prompts are needed for "newest payment",
for a replaced checkout id and for a reversal that hits another payment; one refund
request (`MaxRefundRequests`) is decided while a direct refund competes with it. `queue_worker` has the code's
`MAX_RETRIES` of 3, one retry by the staff and two faults, so that a row can be in two hands
and be left behind, and a lost answer and a crash can follow each other (632 thousand
states); a tick takes 2 rows (10 in the code), enough for a next row in the
same tick. In `platform` two amounts make a deduction partial, three settlements
let one payout pay more than one, three sessions let a token be replaced twice, and two
payments let an answer be about an older one. `MaxEvents` bounds the events on their way.
Requests, quotes and prompts are symmetric where no liveness is checked.

**Deadlock** is not checked: a booking that is over with nobody calling, an empty queue
whose processes were stopped, and a scene at its bounds really stop.

**Fairness.** In `booking_lapses` (`FairSpec`): the loops are `setInterval` timers that
run as long as the server does (`server.js:465,521`, `queueWorker.js:118`), so a pass
that finds a row due does start it. Strong fairness of the start of a pass states that a
timer that comes round infinitely often is not always unlucky in what it finds; weak
fairness of the statements after it states that a started pass goes on. No request is
fair: no user has to do anything. Failures are excluded in this run (`MayFail = FALSE`);
the code retries at the next tick, so finitely many change nothing.

In `queue_worker`: weak fairness of each worker's next statement and of the end of a
delay; a process that was stopped is started again by the platform, a part of
`Work`. That a handler ends is an assumption: the code gives it no time limit.

In `platform`: `PaymentPanel` has weak fairness of the panel's own timer only, a
`setInterval` of the page; no request need be answered and no event arrive. `ChatScreen`
has it of the five-second timer, and strong fairness of an answer with the whole list:
requests that are made again and again are answered again and again. `Maintenance` has
strong fairness of the minute timer and of the statements of its check, which staff and
failures may interrupt but not forever. `Platform` merges the conditions of the three
scenes into `Ticks` and `Comes`, which is the same: only one scene's part of them can ever
be taken. Users, staff and faults are never fair.

## 4. Proofs

Every safety property of every passing run is a theorem. Each component has one inductive
invariant (initial states satisfy it, every step keeps it, it implies the properties), and
a lemma per action or group of actions. None bounds the number of people, requests, rows,
sessions or faults.

`BookingProofs` (from `PeopleAssumption` and `SlotsAssumption`, both evaluated by TLC):

* `TypeCorrect`: `Spec => []TypeOK`. `TypeOK` says of the price that a booking is without
  one only if none was ever named: no handler writes it back to null. It is inductive
  because it also says what a slot holds at each statement (`Prepared`): an edge that was
  in the table when it was checked, a row of quotes that exists, a price. Without it the guarded UPDATE could
  write anything, and none of the theorems below could be proved.
* `QuotesAreExclusive`: `Spec => []OneLiveQuote`. `NextLiveStep` shows that a step adds
  a live quote only if there is no other: the insertion and the question meet the index.
* `StatusMovesAlongEdges`: `Spec => StatusFollowsEdges`. The edge was checked against an
  old row; the condition of the UPDATE makes the old row the present one.
* `ProvidersDecideNothing`, `CompletionAwaitsCustomer`: if neither the customer nor an
  administrator calls (`ProvidersAlone`), no outcome that is the customer's is reached and a
  completion that was asked for stays as it is. The invariant has a set of statuses within
  the providers' reach (`ProviderReach`) and says that no slot holds a write prepared to
  leave it, or made for a booking that awaits its customer (`NotTheCustomers`); a write
  prepared before completion was asked for is stopped by the guarded UPDATE.
* `BookingKeepsPromise`: `Spec => KeepsPromise`, the refinement. `EdgesFollowStages`
  reads off the table how each edge moves between the stages, `TransitionKeepsPromise`
  and `DispatchKeepsPromise` map the steps that write the row, every other step stutters.

`EscrowProofs` (from `LedgerAssumption`): `LedgerTyped`, `EscrowFunded`,
`ProviderPaidOnce` and the refinement `LedgerKeepsPromise`. `LedgerInv` adds to the
properties what the code relies on without saying so: payments, holds and entries agree
row by row (`RowsAgree`), a processed prompt is traced to the payment that stored it
(`CheckoutsTraced`), what a transaction has read of a row it locked is still true
(`TasksHold`), and no row has two holders (`LocksExclude`).

`JobQueueProofs` (from `JobQueueAssumption`): `QueueInvariant`, and from it `QueueTyped`,
`ProcessedByOne`, `AttemptsAreBounded`, `RowsAreNotAbandoned`, `SettledRowsStay`. The
bound on attempts is not inductive, for a retry resets the count while an older run, with
an older count, may put the row back: `CallsPaidFor` is a budget, in which every call
still to come (of the row by its count, of each run in hand by its own) is paid for by a
retry. The invariant says of the lost answers that a row is completed while a process holds
it only if a fault has hit it or the staff retried it.

`PayoutProofs` (amounts are numbers, tables are finite) is about sums over tables. Its
first part proves the laws of the sum of the community modules (`SumFunctionOnSet`), which
is defined by recursion on finite sets: `SumUnfold` and `SumExists` turn the definition
into an equation, `SumIsAdded` gives the sum of a set with one more member, and from it
come the sum of a union, of a part, of a changed row, and of two tables together
(`SumOfUnion`, `SumOfPart`, `SumChanges`, `SumsAdd`). The induction is stated with sets
instead of predicates: `CountUp` says that a set that holds zero and successors holds all
numbers (from the well-founded order of the library), `GrowUp` the same of the subsets of a
finite set. Then:

* `PaidIsSettled`, `WithdrawalsAreEarned`, from `WithdrawalsInv`: a withdrawal that passed
  its check is still covered by what was earned when it is recorded (`StaysCovered`), because
  the lock on the company's row keeps other requests out and a completion moves as much from
  the pending settlements as from the requested payouts; and, as long as completions do not
  overlap, the settlements that one has read add up to its payout and are still pending, or
  were cancelled by a refund since (`OneCompletes`). That a refund may take a settlement
  from under a withdrawal is why the property counts cancelled settlements as earned.
* `PayoutsAreEarned`, `WithholdingIsBooked`, `FreezeHoldsPayouts`, from `WalletsInv`: what
  the checks of a request found stays so until it is recorded (`ChecksStand`: the amount is
  covered, nothing is frozen, there are debts for what is withheld), and what `TakenFrom` takes of the debts, the oldest first, adds up to what the payout records as
  taken (`DeductionTakes`, by induction over the debts in their order).

`AdmissionProofs`: `CompanyIsMadeOnce`, `SuspensionCloses` (for a finite `Staff`):
`FewReviews` turns the history variable into "at most one review is under way", and
`Orderly` says what that review may still do. `VerifiedOnlyAfterReview`: a verified
document was verified as what it is, and a decision to verify was reached when all
required ones were. `RoleAlwaysFollows`, `SuspendedStaysOffline`: an uncrossed rejection
on its way means "rejected" (`RoleAgrees`), and a request past its check, and not out of
date, is of an approved fundi (`ChecksHold`).

`SessionProofs`: `EndsOnlyForCause`, `AppAndServerAgree`: `OneFlight` (one refresh at a
time, and the call that began it waits) is what the shared promise of `apiClient.ts`
gives; `Unharmed` and `TokensAgree` follow the token through the three statements of the
refresh and through the logout.
`ReadsSurviveExpiry`, `RetriesRunOnce`, `RefreshesLeaveGoodCookies` are about the page,
whose calls refresh each for itself. `SiteInv` says how often the handler ran at each point
of a call (`RunsSoFar`), that a session on its way to the page is good and can be refreshed
away by nobody but the call it was granted to (`GrantsAreGood`), that good cookies are in
the browser or about to arrive (`CookiesComeGood`), and that a refresh that is alone
presents the cookies the page holds (`AloneIsCurrent`).

`ServiceProofs`: `PaidStaysEntitled`: until a checkout id is stored the callback cannot
reach the row, and after that only a lost answer can make the request fail it.
`PageShowsAll`: each stored message that the page does not show is on its way, in a list,
an event or an answer (`AllCome`), and none is stored twice. `NextCallReconnects` (for
finitely many calls): `FewBusy` turns the history variable into "one probe or clean-up at a
time", and then a probe is one of the pool in use, a failed one has left its error, and a
backend without a pool knows that it has to make one (`OneByOne`).

`PlatformProofs` carries these over to `Platform`: `StepOfScene` says that a step keeps
the scene and is in it a step of the scene's module or leaves its variables alone, so that
`PlatformInv`, the invariant of each module in its scene, is inductive. It has a theorem
for each of the eighteen safety properties of the run `platform`, for every value of the
constants that satisfies `Finite`: staff, calls and tables are finite, money is counted in
numbers, a pool is not named like a call, and `None` is not a number. The code has no more to offer:
there are finitely many of each, and `money()` (`companyPayoutService.js:13`) rounds to
hundredths, which are numbers when the hundredth is the unit.

Model-checked only, because fairness is out of the prover's reach: the liveness properties
`OfferLapses`, `QuoteLapses`, `DatedJobActivates`, `EveryRowSettles`, `WaitingEnds`,
`ShowsAllInTheEnd` and `MaintenanceEnds`. `PaymentPanel`, `Maintenance` and `ChatScreen`
have no other properties, and so no theorem.

## 5. What the code does

Against what its comments say, shown by a run each:

* `booking_decision`: the acceptance of a quote is written before the booking moves; if
  the booking was cancelled, requeued or assigned in between, the customer gets a 409 and
  the quote stays accepted (`quoteService.js:204-215`, against its comment at 176).
* `booking_self_complete`: PATCH to `completed` from `in_progress` by the assigned
  provider (`jobStateMachine.js:56`), against `jobController.js:793-795`.
* `booking_price`: `acceptJob` overwrites the estimate and then compares the price with
  it, so a revised quote is never made (`jobController.js:566-609`).
* `escrow_refunded_once`: a payment refunded by a dispute still counts as completed and
  the reversal refunds it again (`disputeController.js:174`,
  `refundReversalService.js:7,32`).
* `escrow_collected_once`: two payments requested before either is paid are both
  collected (`paymentController.js:72-74`).

Met while modelling, and kept in the models where they are modelled; no property of a
passing run denies them, the history variables of section 2 mark most:

*Bookings and money.*
`cancelJob` sweeps the live quotes after it cancels, and a quote made in between survives
(`jobController.js:668`). An offer that is requeued keeps its quote live for 72 hours
(`server.js:477`). `createQuote` inserts before the transition that may refuse
(`quoteService.js:104`) and does not look again at the company (`companyController.js:943`).
`rejectCompanyJob` leaves `fundi_id` and the technician (`companyController.js:921`).
Work redone after a dispute keeps its old confirmation (`jobStateMachine.js:67`).
`resendCompletionCode` writes without a condition (`jobController.js:865`). The
release is refused in `customer_confirmed_completion` (`jobController.js:959`). The
release pays the present final price, not what was collected (`settlementService.js:41`).
A callback before its checkout id is stored gets a 404 (`paymentController.js:156`). Two
wrong codes at once count as one (`fraudService.js:475`). A dispute
is resolved on the newest held payment, and a refund of a part of it ends the whole hold
(`disputeController.js:163-178`). An administrator's freeze marks the booking frozen even
when no payment was left to freeze (`payoutController.js:173-178`). Two requests for a
refund at once both find none open (`refundController.js:43-63`).

*Payouts.*
When completions of a company's payouts overlap, both read the same pending settlements,
so that less is marked paid than was paid (`companyPayoutService.js:125`). The balance of a
fundi counts company jobs whose technician the fundi is (`payoutController.js:22-24`). A
deduction that covers a debt in part leaves the debt pending with its full amount
(`fraudService.js:332`); two runs of the check flag the same row twice
(`fraudService.js:231-246`); two freezes at once lose one's flags (`adminController.js:723-728`).

*Queue and database.*
A process that stops leaves its row running for good (`queueWorker.js:35`). A retry of a
running row puts it in two hands (`enterpriseService3.js:418`). When the update to
`completed` is done but its answer is lost, the catch puts the completed row back to
`pending` or `failed` (`queueWorker.js:63-84`), and the handler may run again. The health
check destroys the pool on any error, also one of a pool that already ends (`db.js:267`).
Two calls that replace the
pool overlap in `destroyPool` (`db.js:115`), and a ROLLBACK that fails keeps a dead pool
(`db.js:222`).

*Companies and fundis.*
Two reviews at once make two companies; approving again does not lift a suspension of the
company, and rejecting or archiving leaves it live (`companyController.js:212`). Two
uploads of a type at once insert two rows, against "One document per type"
(`companyVerificationController.js:90`); a decision by id applies to the file uploaded
since (`:296`); a verified company stays verified when it uploads anew. The
notice of an approval is never sent, for `approveFundi` names a variable that is out of
scope there (`adminController.js:652`). The automatic approval ignores
the status, a suspension included (`identityVerificationService.js:195`), registration
sets `pending` whatever the status, and a location update sets a fundi online who has
just gone offline (`fundiController.js:372`).

*Clients.*
A POST sent again after a refresh carries the old CSRF token and is refused
(`api.ts:137-141`); a POST whose answer was lost runs twice; a lost answer to a refresh leaves
cookies that are good for nothing (`authController.js:300-312`). A refresh in flight
during a logout signs the app in again (`apiClient.ts:176-177`), and sessions revoked
between the revocation and the new session of a refresh come back with it
(`authController.js:310-311`). A late refusal or failed
event replaces "confirmed" on the payment panel; its poll gives up after 30 questions, and
says so, but a payment that arrives later need not be shown: the watch asks with the token
the page was opened with, which is good for 15 minutes and never renewed
(`realtime.ts:70-73,197-214`, `auth.js:14,104`), it only sees the newest payment, and
polling is not resumed and the room not joined again after a reconnection
(`realtime.ts:149`). The panel offers another attempt while the first prompt is open
(`FundiTracker.tsx:1042`), and `api.ts` repeats a request without an idempotency key, so
that several payments of a booking are open at a time; `stkPush` looks only at
`jobs.payment_status`, which other handlers overwrite (`paymentController.js:72`). The apps post `{ text }` (`apiClient.ts:219`)
where the server reads `body` (`chatController.js:58`), so that each of their messages is
refused. A list that comes late wipes messages that came as events
(`InAppChat.tsx:77`); a second press of the button posts twice; a message may be stored
after the booking was cancelled (`chatController.js:62`); `markRead` marks messages the
reader never got (`:110`).

*Subscriptions and maintenance.*
"An already-active period keeps running until expires_at" (`routes.js:703-707`), but a
cancelled row is not active for `/subscriptions/status`. A callback before the checkout id
is stored finds no row; a lost answer marks a paid row failed; a row cancelled while its
prompt was open takes the money without an entitlement (`routes.js:651-667`). A check that
is cut short between flag and note leaves maintenance on for good, as does a schedule that
is switched off during its window, and a schedule that cannot be read is replaced by the
default one (`scheduledMaintenanceService.js:36-52,132`). While the note is set,
maintenance that the staff switched on themselves is switched off outside the window,
against "manual toggles take precedence" (`:99-103`); `MaintenanceEnds` is about the
maintenance of the scheduler's own and does not ask for that.

## 6. Plan

Done: bookings and the ledger with their promises and proofs; the queue with its proofs;
payouts; the approval of companies and fundis; sessions; payment panel, chat,
subscriptions, maintenance and the pool; proofs of all their safety properties. What
could follow:

1. The lockout after wrong codes and chargebacks, as small modules of concurrent calls.
2. Amounts in `EscrowLedger`, so that the release of a final price that differs from the
   payment can be stated.
3. Registration with one-time codes and second factors, beside the sessions.

## 7. Not modelled

Most of the repository's lines are views: pages, forms, screens, styles, translations
and the reports of the administration. Their requests are the free choices of the models
and they keep no state that another part relies on; what they do keep (tokens, payment
panel, chat) is modelled. Beyond them:

* Finance calculations, pricing, geographical matching, trust scores: rational or
  floating-point arithmetic without state, or with state only for a ranking; their results
  are free choices in the models.
* Chargebacks: a record and its decision that no other row follows.
* Roles and permissions: configuration, used as predicates on the caller.
* One-time code lockout, data retention, the passes that look for patterns of fraud.
* Content, support, AI assistance, storage, mail, SMS and push: input and output over
  tables that no modelled decision reads.
* Development-only code (embedded database, payment simulator, demo data) and deployment.
