---------------------------- MODULE EscrowLedger ----------------------------
(***************************************************************************)
(* The money of one booking: the payments asked of the customer over       *)
(* M-Pesa, their escrow, the release to the provider, disputes, refunds    *)
(* and the payout.                                                         *)
(*                                                                         *)
(* A request occupies a slot; task[s] is the statement it runs next and    *)
(* what it has read.  A database transaction is one action per row lock it *)
(* waits for, and writes at its last one; which locks it holds is read off *)
(* its pc (JobLocked, RowLocked).  A transaction whose locks and reads are *)
(* all taken at its last statement is one action.                          *)
(*                                                                         *)
(* Amounts are not modelled: a payment is for the price, a refund through  *)
(* executeRefundReversal is in full.  The columns nothing reads back       *)
(* (jobs.escrow_status, escrow_accounts, the accounting rows) are left out.*)
(***************************************************************************)
EXTENDS Integers, FiniteSets

CONSTANTS
    Requests,       \* slots for HTTP requests in progress
    MaxPayments,    \* bound: payments of the booking
    Pushes,         \* bound: the checkout request ids Daraja hands out
    MaxRefundRequests,  \* bound: rows of refund_requests
    None

ASSUME LedgerAssumption ==
    /\ MaxPayments \in Nat /\ MaxRefundRequests \in Nat
    /\ None \notin Pushes /\ None \notin Nat

(* Rows in the order of created_at *)
Payments == 1 .. MaxPayments
RefundRequests == 1 .. MaxRefundRequests

VARIABLES
    job,        \* what the money paths read and write of the row of jobs
    payments,   \* rows of payments, status "none" when not inserted
    pushes,     \* external: the prompts on the customer's phone
    processed,  \* processed_webhook_callbacks
    entries,    \* per payment: rows of escrow_transactions and reversals
    disputed,   \* the booking has an open dispute
    provider,   \* the wallet, the payout and the settlement of the booking
    refunds,    \* rows of refund_requests
    task        \* what each request is in the middle of

vars == <<job, payments, pushes, processed, entries, disputed, provider, refunds, task>>

money == <<job, payments, entries, disputed, provider>>

Idle == [pc |-> "idle", payment |-> None, push |-> None, refund |-> None,
         confirming |-> FALSE, credited |-> FALSE, owed |-> FALSE]

(* jobs.status as the money paths see it: "completed", "refused" (cancelled *)
(* or failed) or any other, "open".                                         *)
Init ==
    /\ \E company \in BOOLEAN :
          job = [stage |-> "open", confirmed |-> FALSE, pay |-> "pending", company |-> company]
    /\ payments = [p \in Payments |-> [status |-> "none", escrow |-> "pending", checkout |-> None]]
    /\ pushes = [u \in Pushes |-> [result |-> "none", payment |-> None]]
    /\ processed = {}
    /\ entries = [p \in Payments |-> [hold |-> 0, release |-> 0, refund |-> 0, reversal |-> 0]]
    /\ disputed = FALSE
    /\ provider = [credits |-> 0, balance |-> 0, payout |-> "none", settlement |-> "none"]
    /\ refunds = [r \in RefundRequests |-> [status |-> "none", payment |-> None]]
    /\ task = [s \in Requests |-> Idle]

-----------------------------------------------------------------------------
At(s, pc) == task[s].pc = pc
Become(s, t) == task' = [task EXCEPT ![s] = t]
Finish(s) == Become(s, Idle)

(* Row locks: a release holds the row of jobs, a callback and a reversal    *)
(* the row of payments they found, an approval also the refund request and  *)
(* the payment it names.                                                    *)
JobLocked == \E s \in Requests : At(s, "escrow")
RefundLocked(r) == \E s \in Requests : At(s, "reverse") /\ task[s].refund = r
RowLocked(p) ==
    \/ \E s \in Requests : task[s].pc \in {"settle", "reverse"} /\ task[s].payment = p
    \/ \E r \in RefundRequests : RefundLocked(r) /\ refunds[r].payment = p

Held == {p \in Payments : payments[p].escrow = "held"}
Completed == {p \in Payments : payments[p].status = "completed"}
InEscrow == {p \in Payments : payments[p].escrow \in {"held", "frozen"}}

(* order by created_at desc limit 1 *)
Newest(p, rows) == p \in rows /\ \A q \in rows : q <= p

(* A check that throws, a failed statement, a deadlock victim or a stopped  *)
(* process: the transaction in progress is rolled back.                     *)
Fail(s) ==
    /\ ~ At(s, "idle")
    /\ Finish(s)
    /\ UNCHANGED <<money, pushes, processed, refunds>>

-----------------------------------------------------------------------------
(* paymentController.stkPush: insert the payment, ask Daraja to prompt the  *)
(* customer, store the checkout id.  A repeated idempotency key skips the   *)
(* insert and its checks, whatever has become of the payment.  Bound: the   *)
(* endpoint is called while there are checkout ids left.                    *)
PromptsLeft == \E u \in Pushes : pushes[u].result = "none"

CreatePayment(s) ==
    /\ At(s, "idle")
    /\ PromptsLeft
    /\ ~ JobLocked
    /\ job.stage # "refused"
    /\ job.pay \notin {"escrow_held", "payout_processing", "payout_completed"}
    /\ \E p \in Payments :
          /\ payments[p].status = "none"
          /\ \A q \in Payments : q < p => payments[q].status # "none"
          /\ payments' = [payments EXCEPT ![p].status = "pending"]
          /\ Become(s, [Idle EXCEPT !.pc = "push", !.payment = p])
    /\ UNCHANGED <<job, entries, disputed, provider, pushes, processed, refunds>>

RepeatPayment(s) ==
    /\ At(s, "idle")
    /\ PromptsLeft
    /\ \E p \in Payments :
          /\ payments[p].status # "none"
          /\ Become(s, [Idle EXCEPT !.pc = "push", !.payment = p])
    /\ UNCHANGED <<money, pushes, processed, refunds>>

(* initiateStkPush, answered with a fresh checkout id *)
PushPrompt(s) ==
    /\ At(s, "push")
    /\ \E u \in Pushes :
          /\ pushes[u].result = "none"
          /\ pushes' = [pushes EXCEPT ![u] = [result |-> "asked", payment |-> task[s].payment]]
          /\ Become(s, [task[s] EXCEPT !.pc = "store", !.push = u])
    /\ UNCHANGED <<money, processed, refunds>>

StoreCheckout(s) ==
    /\ At(s, "store")
    /\ ~ RowLocked(task[s].payment)
    /\ payments' = [payments EXCEPT ![task[s].payment].checkout = task[s].push]
    /\ Finish(s)
    /\ UNCHANGED <<job, entries, disputed, provider, pushes, processed, refunds>>

(* External: the customer answers the prompt. *)
AnswerPrompt(u) ==
    /\ pushes[u].result = "asked"
    /\ \E result \in {"paid", "declined"} : pushes' = [pushes EXCEPT ![u].result = result]
    /\ UNCHANGED <<money, processed, refunds, task>>

-----------------------------------------------------------------------------
(* paymentController.webhook.  Daraja reports an answered prompt at any     *)
(* time, never, or several times, at once or much later.                    *)
ReceiveCallback(s) ==
    /\ At(s, "idle")
    /\ \E u \in Pushes :
          /\ pushes[u].result \in {"paid", "declined"}
          /\ u \notin processed
          /\ Become(s, [Idle EXCEPT !.pc = "callback", !.push = u])
    /\ UNCHANGED <<money, pushes, processed, refunds>>

(* Mutant: a callback confirms whatever payment it finds. *)
PendingOrNot(p) == payments[p].status # "none"

Pending(p) == payments[p].status = "pending"

(* select ... where checkout_request_id = :u for update *)
FindPayment(s) ==
    /\ At(s, "callback")
    /\ \/ \E p \in Payments :
            /\ payments[p].checkout = task[s].push
            /\ ~ RowLocked(p)
            /\ IF Pending(p) THEN Become(s, [task[s] EXCEPT !.pc = "settle", !.payment = p])
               ELSE Finish(s)
       \/ /\ \A p \in Payments : payments[p].checkout # task[s].push       \* 404
          /\ Finish(s)
    /\ UNCHANGED <<money, pushes, processed, refunds>>

(* Mutant: the result code of the callback is not looked at. *)
SettlePaidAnyResult(s) ==
    LET p == task[s].payment
    IN  /\ At(s, "settle")
        /\ ~ JobLocked
        /\ payments' = [payments EXCEPT ![p].status = "completed", ![p].escrow = "held"]
        /\ entries' = [entries EXCEPT ![p].hold = IF @ = 0 THEN 1 ELSE @]
        /\ job' = [job EXCEPT !.pay = "escrow_held"]
        /\ processed' = processed \cup {task[s].push}
        /\ Finish(s)
        /\ UNCHANGED <<disputed, provider, pushes, refunds>>

SettlePaid(s) ==
    LET p == task[s].payment
    IN  /\ At(s, "settle")
        /\ pushes[task[s].push].result = "paid"
        /\ ~ JobLocked
        /\ payments' = [payments EXCEPT ![p].status = "completed", ![p].escrow = "held"]
        /\ entries' = [entries EXCEPT ![p].hold = IF @ = 0 THEN 1 ELSE @]
        /\ job' = [job EXCEPT !.pay = "escrow_held"]
        /\ processed' = processed \cup {task[s].push}
        /\ Finish(s)
        /\ UNCHANGED <<disputed, provider, pushes, refunds>>

(* A declined prompt is not recorded as processed. *)
SettleDeclined(s) ==
    /\ At(s, "settle")
    /\ pushes[task[s].push].result = "declined"
    /\ payments' = [payments EXCEPT ![task[s].payment].status = "failed"]
    /\ Finish(s)
    /\ UNCHANGED <<job, entries, disputed, provider, pushes, processed, refunds>>

-----------------------------------------------------------------------------
(* The job.  Module Booking has how its status really moves. *)
MoveJob ==
    /\ ~ JobLocked
    /\ job.stage # "refused"
    /\ \E stage \in {"open", "completed", "refused"} : job' = [job EXCEPT !.stage = stage]
    /\ UNCHANGED <<payments, entries, disputed, provider, pushes, processed, refunds, task>>

(* confirmCompletion overwrites payment_status and goes on to the release. *)
ConfirmCompletion(s) ==
    /\ At(s, "idle")
    /\ ~ JobLocked
    /\ ~ job.confirmed /\ job.stage # "refused"
    /\ job' = [job EXCEPT !.confirmed = TRUE, !.pay = "customer_confirmed"]
    /\ Become(s, [Idle EXCEPT !.pc = "release", !.confirming = TRUE])
    /\ UNCHANGED <<payments, entries, disputed, provider, pushes, processed, refunds>>

(* Mutant: a dispute is trusted to have frozen the escrow, not looked for. *)
LockJobUndisputed(s) ==
    /\ At(s, "release") \/ At(s, "idle")
    /\ ~ JobLocked
    /\ job.stage = "completed" /\ job.confirmed
    /\ Become(s, [task[s] EXCEPT !.pc = "escrow"])
    /\ UNCHANGED <<money, pushes, processed, refunds>>

(* releaseJobEscrow up to the lock of the payment, for confirmCompletion or *)
(* for an administrator (payoutController.releaseEscrow).                   *)
LockJob(s) ==
    /\ At(s, "release") \/ At(s, "idle")
    /\ ~ JobLocked
    /\ job.stage = "completed" /\ job.confirmed /\ ~ disputed
    /\ Become(s, [task[s] EXCEPT !.pc = "escrow"])
    /\ UNCHANGED <<money, pushes, processed, refunds>>

(* After a release by confirmCompletion the request tries to complete the job. *)
AfterRelease(s) ==
    Become(s, IF task[s].confirming THEN [Idle EXCEPT !.pc = "finalize"] ELSE Idle)

Released(p) ==
    /\ payments' = [payments EXCEPT ![p].status = "completed", ![p].escrow = "released"]
    /\ entries' = [entries EXCEPT ![p].release = IF @ = 0 THEN 1 ELSE @]
    /\ job' = [job EXCEPT !.pay = "payout_processing"]
    /\ provider' =
         IF job.company
         THEN [provider EXCEPT !.settlement = IF @ = "none" THEN "pending" ELSE @]
         ELSE [provider EXCEPT !.credits = @ + 1, !.balance = @ + 1,
                               !.payout = IF @ = "none" THEN "processing" ELSE @]

ReleaseEscrow(s) ==
    /\ At(s, "escrow")
    /\ \/ \E p \in Held : Newest(p, Held) /\ ~ RowLocked(p) /\ Released(p)
       \/ Held = {} /\ UNCHANGED <<job, payments, entries, provider>>
    /\ AfterRelease(s)
    /\ UNCHANGED <<disputed, pushes, processed, refunds>>

(* the closing transition of confirmCompletion, rarely possible *)
Finalize(s) ==
    /\ At(s, "finalize")
    /\ ~ JobLocked
    /\ job.stage = "open"
    /\ job' = [job EXCEPT !.stage = "completed", !.pay = "payout_completed"]
    /\ Finish(s)
    /\ UNCHANGED <<payments, entries, disputed, provider, pushes, processed, refunds>>

-----------------------------------------------------------------------------
(* disputeController, freezeEscrow *)

Frozen(rows) ==
    [p \in Payments |-> IF p \in rows THEN [payments[p] EXCEPT !.escrow = "frozen"]
                                     ELSE payments[p]]

(* createDispute takes the lock of the job first. *)
OpenDispute ==
    /\ ~ JobLocked
    /\ \A p \in Held : ~ RowLocked(p)
    /\ ~ disputed
    /\ disputed' = TRUE
    /\ payments' = Frozen(Held)
    /\ UNCHANGED <<job, entries, provider, pushes, processed, refunds, task>>

(* resolveDispute settles the newest payment in escrow only. *)
ResolveDispute ==
    /\ disputed
    /\ disputed' = FALSE
    /\ \/ \E p \in InEscrow :
            /\ Newest(p, InEscrow) /\ ~ RowLocked(p) /\ ~ JobLocked
            /\ \/ /\ payments' = [payments EXCEPT ![p].escrow = "refunded"]
                  /\ entries' = [entries EXCEPT ![p].refund = @ + 1]
                  /\ job' = [job EXCEPT !.pay = "failed"]
               \/ /\ payments' = [payments EXCEPT ![p].escrow = "held"]
                  /\ UNCHANGED <<entries, job>>
       \/ InEscrow = {} /\ UNCHANGED <<payments, entries, job>>
    /\ UNCHANGED <<provider, pushes, processed, refunds, task>>

FreezeEscrow ==
    /\ Held # {}
    /\ \A p \in Held : ~ RowLocked(p)
    /\ payments' = Frozen(Held)
    /\ UNCHANGED <<job, entries, disputed, provider, pushes, processed, refunds, task>>

-----------------------------------------------------------------------------
(* refundController, refundReversalService *)

Undecided == {"requested", "under_review"}

Asked == {r \in RefundRequests : refunds[r].status # "none"}

(* createRefundRequest: two reads, of the newest completed payment and of   *)
(* the newest request, then an insert that nothing guards                   *)
AskRefund(s) ==
    /\ At(s, "idle")
    /\ \A r \in Asked : Newest(r, Asked) => refunds[r].status = "rejected"
    /\ \E p \in Completed :
          /\ Newest(p, Completed)
          /\ Become(s, [Idle EXCEPT !.pc = "insert", !.payment = p])
    /\ UNCHANGED <<money, pushes, processed, refunds>>

InsertRefundRequest(s) ==
    /\ At(s, "insert")
    /\ \E r \in RefundRequests :
          /\ r \notin Asked /\ \A q \in RefundRequests : q < r => q \in Asked
          /\ refunds' = [refunds EXCEPT ![r] = [status |-> "requested", payment |-> task[s].payment]]
    /\ Finish(s)
    /\ UNCHANGED <<money, pushes, processed>>

ReviewOrReject ==
    /\ \E r \in RefundRequests, status \in {"under_review", "rejected"} :
          /\ refunds[r].status \in Undecided
          /\ ~ RefundLocked(r)
          /\ refunds' = [refunds EXCEPT ![r].status = status]
    /\ UNCHANGED <<money, pushes, processed, task>>

(* executeRefundReversal locks the newest completed payment, whichever one  *)
(* the request named, and reads whether the provider was credited for the   *)
(* booking and is owed a settlement.                                        *)
LockNewest(s, r) ==
    \E p \in Completed :
       /\ Newest(p, Completed)
       /\ ~ RowLocked(p)
       /\ Become(s, [Idle EXCEPT !.pc = "reverse", !.payment = p, !.refund = r,
                                 !.credited = provider.credits > 0,
                                 !.owed = provider.settlement = "pending"])

ApproveRefund(s) ==
    /\ At(s, "idle")
    /\ \E r \in RefundRequests :
          /\ refunds[r].status \in Undecided
          /\ ~ RefundLocked(r)
          /\ refunds[r].payment \in Completed
          /\ ~ RowLocked(refunds[r].payment)
          /\ LockNewest(s, r)
    /\ UNCHANGED <<money, pushes, processed, refunds>>

ProcessRefund(s) ==
    /\ At(s, "idle")
    /\ LockNewest(s, None)
    /\ UNCHANGED <<money, pushes, processed, refunds>>

(* Mutant: the wallet is debited without greatest(0, ...). *)
ReverseUnclamped(s) ==
    LET t == task[s]
    IN  /\ At(s, "reverse")
        /\ ~ JobLocked
        /\ payments' = [payments EXCEPT ![t.payment].status = "refunded",
                                        ![t.payment].escrow = "refunded"]
        /\ entries' = [entries EXCEPT ![t.payment].reversal = @ + 1]
        /\ job' = [job EXCEPT !.pay = "refunded"]
        /\ provider' = [provider EXCEPT
                          !.balance = IF t.credited THEN @ - 1 ELSE @,
                          !.settlement = IF t.owed THEN "cancelled" ELSE @]
        /\ refunds' = IF t.refund = None THEN refunds
                      ELSE [refunds EXCEPT ![t.refund].status = "completed"]
        /\ Finish(s)
        /\ UNCHANGED <<disputed, pushes, processed>>

Reverse(s) ==
    LET t == task[s]
    IN  /\ At(s, "reverse")
        /\ ~ JobLocked
        /\ payments' = [payments EXCEPT ![t.payment].status = "refunded",
                                        ![t.payment].escrow = "refunded"]
        /\ entries' = [entries EXCEPT ![t.payment].reversal = @ + 1]
        /\ job' = [job EXCEPT !.pay = "refunded"]
        /\ provider' = [provider EXCEPT
                          !.balance = IF t.credited /\ @ > 0 THEN @ - 1 ELSE @,
                          !.settlement = IF t.owed THEN "cancelled" ELSE @]
        /\ refunds' = IF t.refund = None THEN refunds
                      ELSE [refunds EXCEPT ![t.refund].status = "completed"]
        /\ Finish(s)
        /\ UNCHANGED <<disputed, pushes, processed>>

-----------------------------------------------------------------------------
(* completePayout: the fundi's payout, or the company's, whose settlements  *)
(* are read without a lock (markSettlementsPaid).                           *)
CompletePayout ==
    /\ provider.payout = "processing"
    /\ ~ JobLocked
    /\ provider' = [provider EXCEPT !.payout = "completed"]
    /\ job' = [job EXCEPT !.pay = "payout_completed"]
    /\ UNCHANGED <<payments, entries, disputed, pushes, processed, refunds, task>>

ReadSettlement(s) ==
    /\ At(s, "idle")
    /\ provider.settlement = "pending"
    /\ Become(s, [Idle EXCEPT !.pc = "payCompany"])
    /\ UNCHANGED <<money, pushes, processed, refunds>>

PaySettlement(s) ==
    /\ At(s, "payCompany")
    /\ ~ \E q \in Requests : At(q, "reverse") /\ task[q].owed
    /\ provider' = [provider EXCEPT !.settlement = "paid"]
    /\ Finish(s)
    /\ UNCHANGED <<job, payments, entries, disputed, pushes, processed, refunds>>

-----------------------------------------------------------------------------
PayIn(s) ==
    \/ CreatePayment(s) \/ RepeatPayment(s) \/ PushPrompt(s) \/ StoreCheckout(s)
    \/ ReceiveCallback(s) \/ FindPayment(s) \/ SettlePaid(s) \/ SettleDeclined(s)

PayOut(s) ==
    \/ ConfirmCompletion(s) \/ LockJob(s) \/ ReleaseEscrow(s) \/ Finalize(s)
    \/ ReadSettlement(s) \/ PaySettlement(s)

PayBack(s) ==
    \/ AskRefund(s) \/ InsertRefundRequest(s)
    \/ ApproveRefund(s) \/ ProcessRefund(s) \/ Reverse(s)

Next ==
    \/ \E s \in Requests : PayIn(s) \/ PayOut(s) \/ PayBack(s) \/ Fail(s)
    \/ \E u \in Pushes : AnswerPrompt(u)
    \/ MoveJob \/ OpenDispute \/ ResolveDispute \/ FreezeEscrow
    \/ ReviewOrReject \/ CompletePayout

Spec == Init /\ [][Next]_vars

-----------------------------------------------------------------------------
(* Properties *)

Steps == {"idle", "push", "store", "callback", "settle", "release", "escrow", "finalize",
          "insert", "reverse", "payCompany"}

Jobs ==
    [stage : {"open", "completed", "refused"}, confirmed : BOOLEAN, company : BOOLEAN,
     pay : {"pending", "escrow_held", "customer_confirmed", "payout_processing",
            "payout_completed", "failed", "refunded"}]

Rows ==
    [status : {"none", "pending", "completed", "failed", "refunded"},
     escrow : {"pending", "held", "frozen", "released", "refunded"},
     checkout : Pushes \cup {None}]

Prompts ==
    [result : {"none", "asked", "paid", "declined"}, payment : Payments \cup {None}]

Accounts ==
    [credits : Nat, balance : Nat, payout : {"none", "processing", "completed"},
     settlement : {"none", "pending", "paid", "cancelled"}]

Tasks ==
    [pc : Steps, payment : Payments \cup {None}, push : Pushes \cup {None},
     refund : RefundRequests \cup {None}, confirming : BOOLEAN, credited : BOOLEAN,
     owed : BOOLEAN]

(* The rows have the shape the code gives them: in particular the wallet    *)
(* never goes below zero, whatever is reversed.                             *)
TypeOK ==
    /\ job \in Jobs
    /\ payments \in [Payments -> Rows]
    /\ pushes \in [Pushes -> Prompts]
    /\ processed \subseteq Pushes
    /\ entries \in [Payments -> [hold : {0, 1}, release : {0, 1}, refund : Nat, reversal : {0, 1}]]
    /\ disputed \in BOOLEAN
    /\ provider \in Accounts
    /\ refunds \in [RefundRequests ->
                     [status : {"none", "requested", "under_review", "rejected", "completed"},
                      payment : Payments \cup {None}]]
    /\ task \in [Requests -> Tasks]

(* No money is in escrow that the customer did not pay: however callbacks   *)
(* are repeated, delayed or crossed with other prompts for the same         *)
(* payment, a payment that was ever completed has its hold and a prompt of  *)
(* its own that the customer paid (webhook; "Completed payments must each   *)
(* have exactly one escrow hold", paymentController.js:654).                *)
EscrowIsFunded ==
    \A p \in Payments :
        /\ entries[p].hold = IF payments[p].status \in {"completed", "refunded"} THEN 1 ELSE 0
        /\ entries[p].hold = 1 =>
              \E u \in processed : pushes[u].result = "paid" /\ pushes[u].payment = p

(* The provider is paid once for each payment released, even when the       *)
(* release that follows the customer's confirmation and an administrator's  *)
(* meet (releaseJobEscrow: "Idempotent").                                   *)
PaidOncePerRelease ==
    LET released == {p \in Payments : entries[p].release = 1}
    IN  IF job.company
        THEN provider.credits = 0 /\ (provider.settlement = "none" <=> released = {})
        ELSE provider.credits = Cardinality(released) /\ provider.settlement = "none"

(* Where the money of a payment is. *)
Place(p) ==
    CASE payments[p].status = "none" -> "none"
      [] payments[p].status = "pending" -> "asked"
      [] payments[p].status = "failed" -> "failed"
      [] payments[p].escrow \in {"held", "frozen"} -> "escrow"
      [] payments[p].escrow = "released" -> "provider"
      [] OTHER -> "customer"

Promise == INSTANCE EscrowPromise WITH
    place <- [p \in Payments |-> Place(p)], confirmed <- job.confirmed

(* The ledger keeps the promise: money leaves escrow for the provider only  *)
(* after the confirmation and never while a dispute is open, although the   *)
(* release checks both before it has the payment; what was refunded never   *)
(* comes back.                                                              *)
KeepsPromise == Promise!Spec

(* refundReversalService.js:7: "Lock the completed payment row (FOR UPDATE  *)
(* - no double refunds)."                                                   *)
RefundedOnce == \A p \in Payments : entries[p].refund + entries[p].reversal <= 1

(* paymentController.js:72-74, "This job has already been paid": the        *)
(* booking's price is not collected twice.                                  *)
CollectedOnce ==
    \A p, q \in Payments : {Place(p), Place(q)} \subseteq {"escrow", "provider"} => p = q
=============================================================================
