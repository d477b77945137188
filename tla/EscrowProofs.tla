---------------------------- MODULE EscrowProofs ----------------------------
(***************************************************************************)
(* Proofs about EscrowLedger, for any number of requests, payments,        *)
(* prompts and refund requests: the types of the rows, that escrow is      *)
(* funded, that a release pays once, and that the ledger implements        *)
(* EscrowPromise.                                                          *)
(***************************************************************************)
EXTENDS EscrowLedger, FiniteSetTheorems, TLAPS

(* Parts of the inductive invariant.                                        *)

(* The two status columns of a payment and its entries go together. *)
RowsAgree ==
    \A p \in Payments :
        /\ payments[p].escrow = "pending" <=> payments[p].status \in {"none", "pending", "failed"}
        /\ payments[p].status = "refunded" => payments[p].escrow = "refunded"
        /\ entries[p].reversal = IF payments[p].status = "refunded" THEN 1 ELSE 0
        /\ payments[p].escrow \in {"pending", "held", "frozen"} => entries[p].release = 0

(* A checkout id stored on a payment is one that was handed out for it. *)
PromptOf(u, p) == pushes[u].result # "none" /\ pushes[u].payment = p

CheckoutsTraced ==
    \A p \in Payments : payments[p].checkout # None => PromptOf(payments[p].checkout, p)

(* What a request has read is still so when it needs it. *)
ReadsHold(s) ==
    LET t == task[s]
    IN  /\ t.pc \in {"push", "store", "settle", "reverse", "insert"} => t.payment \in Payments
        /\ t.pc \in {"store", "callback", "settle"} => t.push \in Pushes
        /\ t.pc \in {"store", "settle"} => PromptOf(t.push, t.payment)
        /\ t.pc = "settle" => payments[t.payment].status = "pending"
        /\ t.pc = "reverse" => payments[t.payment].status = "completed"
        /\ t.pc = "escrow" => job.stage = "completed" /\ job.confirmed /\ ~ disputed
        /\ t.owed \/ t.pc = "payCompany" => provider.settlement # "none"

TasksHold == \A s \in Requests : ReadsHold(s)

(* A payment is locked by one request at a time. *)
HasRow(s) == task[s].pc \in {"settle", "reverse"}

LocksExclude ==
    \A s, q \in Requests : HasRow(s) /\ HasRow(q) /\ s # q => task[s].payment # task[q].payment

LedgerInv ==
    /\ TypeOK
    /\ RowsAgree
    /\ EscrowIsFunded
    /\ CheckoutsTraced
    /\ TasksHold
    /\ LocksExclude
    /\ PaidOncePerRelease

USE LedgerAssumption DEF Payments

-----------------------------------------------------------------------------
(* Which steps write what *)

(* The steps that write payments or entries are these. *)
LEMMA PaymentWriters ==
    ASSUME [Next]_vars
    PROVE  \/ UNCHANGED <<payments, entries>>
           \/ \E s \in Requests :
                 \/ CreatePayment(s) \/ StoreCheckout(s) \/ SettlePaid(s) \/ SettleDeclined(s)
                 \/ ReleaseEscrow(s) \/ Reverse(s)
           \/ OpenDispute \/ ResolveDispute \/ FreezeEscrow
BY DEF Next, vars, money, PayIn, PayOut, PayBack, Fail, RepeatPayment, PushPrompt, AnswerPrompt,
       ReceiveCallback, FindPayment, MoveJob, ConfirmCompletion, LockJob, Finalize,
       AskRefund, InsertRefundRequest, ReviewOrReject, ApproveRefund, ProcessRefund,
       CompletePayout, ReadSettlement, PaySettlement

(* The columns of job that decide who is paid, and what the provider has,   *)
(* are written by these.                                                    *)
LEMMA ProviderWriters ==
    ASSUME [Next]_vars
    PROVE  \/ UNCHANGED <<provider, entries, job>>
           \/ UNCHANGED <<provider, job>> /\ \E s \in Requests : CreatePayment(s) \/ StoreCheckout(s)
                                                      \/ SettleDeclined(s)
           \/ \E s \in Requests :
                 \/ SettlePaid(s) \/ ConfirmCompletion(s) \/ ReleaseEscrow(s) \/ Finalize(s)
                 \/ Reverse(s) \/ PaySettlement(s)
           \/ MoveJob \/ OpenDispute \/ ResolveDispute \/ FreezeEscrow \/ CompletePayout
BY DEF Next, vars, money, PayIn, PayOut, PayBack, Fail, RepeatPayment, PushPrompt, AnswerPrompt,
       ReceiveCallback, FindPayment, LockJob, AskRefund, InsertRefundRequest, ReviewOrReject,
       ApproveRefund, ProcessRefund, ReadSettlement, CreatePayment, StoreCheckout, SettleDeclined

(* And the remaining rows by these. *)
LEMMA OtherWriters ==
    ASSUME [Next]_vars
    PROVE  /\ UNCHANGED pushes \/ (\E s \in Requests : PushPrompt(s)) \/ (\E u \in Pushes : AnswerPrompt(u))
           /\ UNCHANGED processed \/ (\E s \in Requests : SettlePaid(s))
           /\ UNCHANGED disputed \/ OpenDispute \/ ResolveDispute
           /\ UNCHANGED refunds \/ (\E s \in Requests : InsertRefundRequest(s) \/ Reverse(s)) \/ ReviewOrReject
<1> USE DEF money
<1>1. CASE UNCHANGED vars
  BY <1>1 DEF vars
<1>2. ASSUME NEW s \in Requests, PayIn(s)
      PROVE  /\ UNCHANGED pushes \/ PushPrompt(s)
             /\ UNCHANGED processed \/ SettlePaid(s)
             /\ UNCHANGED <<disputed, refunds>>
  BY <1>2 DEF PayIn, CreatePayment, RepeatPayment, PushPrompt, StoreCheckout, ReceiveCallback,
              FindPayment, SettlePaid, SettleDeclined
<1>3. ASSUME NEW s \in Requests, PayOut(s) \/ Fail(s)
      PROVE  UNCHANGED <<pushes, processed, disputed, refunds>>
  BY <1>3 DEF PayOut, Fail, ConfirmCompletion, LockJob, ReleaseEscrow, Finalize, ReadSettlement,
              PaySettlement
<1>4. ASSUME NEW s \in Requests, PayBack(s)
      PROVE  /\ UNCHANGED <<pushes, processed, disputed>>
             /\ UNCHANGED refunds \/ InsertRefundRequest(s) \/ Reverse(s)
  BY <1>4 DEF PayBack, AskRefund, InsertRefundRequest, ApproveRefund, ProcessRefund, Reverse
<1>5. ASSUME NEW u \in Pushes, AnswerPrompt(u) PROVE UNCHANGED <<processed, disputed, refunds>>
  BY <1>5 DEF AnswerPrompt
<1>6. CASE MoveJob \/ FreezeEscrow \/ CompletePayout
  BY <1>6 DEF MoveJob, FreezeEscrow, CompletePayout
<1>7. CASE OpenDispute \/ ResolveDispute
  BY <1>7 DEF OpenDispute, ResolveDispute
<1>8. CASE ReviewOrReject
  BY <1>8 DEF ReviewOrReject
<1> QED BY <1>1, <1>2, <1>3, <1>4, <1>5, <1>6, <1>7, <1>8 DEF Next

(* A step is one of these, or leaves the payments and the job alone. *)
LEMMA StepKinds ==
    ASSUME [Next]_vars
    PROVE  \/ UNCHANGED <<payments, disputed, job>>
           \/ \E s \in Requests :
                 \/ CreatePayment(s) \/ StoreCheckout(s) \/ SettlePaid(s) \/ SettleDeclined(s)
                 \/ ReleaseEscrow(s) \/ Reverse(s) \/ ConfirmCompletion(s)
                 \/ Finalize(s) \/ PaySettlement(s)
           \/ MoveJob \/ CompletePayout \/ OpenDispute \/ FreezeEscrow \/ ResolveDispute
BY DEF Next, vars, money, PayIn, PayOut, PayBack, Fail, RepeatPayment, PushPrompt, AnswerPrompt,
       ReceiveCallback, FindPayment, LockJob, AskRefund, InsertRefundRequest, ReviewOrReject,
       ApproveRefund, ProcessRefund, ReadSettlement

-----------------------------------------------------------------------------
(* Types *)

Refunds ==
    [RefundRequests -> [status : {"none", "requested", "under_review", "rejected", "completed"},
                        payment : Payments \cup {None}]]
Entry == [hold : {0, 1}, release : {0, 1}, refund : Nat, reversal : {0, 1}]

LEMMA BecomeKeepsTypes ==
    ASSUME task \in [Requests -> Tasks], NEW s \in Requests, NEW t \in Tasks, Become(s, t)
    PROVE  task' \in [Requests -> Tasks]
BY DEF Become

LEMMA IdleType == Idle \in Tasks
BY DEF Idle, Tasks, Steps

LEMMA FoundType ==
    ASSUME NEW t \in Tasks, NEW p \in Payments
    PROVE  [t EXCEPT !.pc = "settle", !.payment = p] \in Tasks
<1> HIDE DEF Payments
<1> QED BY DEF Tasks, Steps

LEMMA StepTypes ==
    ASSUME NEW t \in Tasks
    PROVE  /\ \A u \in Pushes : [t EXCEPT !.pc = "store", !.push = u] \in Tasks
           /\ [t EXCEPT !.pc = "escrow"] \in Tasks
<1> HIDE DEF Payments
<1> QED BY DEF Tasks, Steps

LEMMA FinishKeepsTypes ==
    ASSUME task \in [Requests -> Tasks], NEW s \in Requests, Finish(s)
    PROVE  task' \in [Requests -> Tasks]
BY BecomeKeepsTypes, IdleType DEF Finish

(* A column of a row is overwritten. *)
LEMMA RowTypes ==
    ASSUME NEW row \in Rows
    PROVE  /\ \A c \in {"pending", "completed", "failed", "refunded"} :
                  [row EXCEPT !.status = c] \in Rows
           /\ \A c \in {"held", "frozen", "refunded"} : [row EXCEPT !.escrow = c] \in Rows
           /\ \A u \in Pushes \cup {None} : [row EXCEPT !.checkout = u] \in Rows
           /\ \A c \in {"held", "released", "refunded"}, d \in {"completed", "refunded"} :
                  [row EXCEPT !.status = d, !.escrow = c] \in Rows
BY DEF Rows

LEMMA EntryTypes ==
    ASSUME NEW e \in Entry
    PROVE  /\ [e EXCEPT !.hold = IF @ = 0 THEN 1 ELSE @] \in Entry
           /\ [e EXCEPT !.release = IF @ = 0 THEN 1 ELSE @] \in Entry
           /\ [e EXCEPT !.refund = @ + 1] \in Entry
           /\ e.reversal = 0 => [e EXCEPT !.reversal = @ + 1] \in Entry
BY DEF Entry

LEMMA AccountTypes ==
    ASSUME NEW a \in Accounts
    PROVE  /\ \A x \in {"none", "pending", "paid", "cancelled"} : [a EXCEPT !.settlement = x] \in Accounts
           /\ [a EXCEPT !.payout = "completed"] \in Accounts
           /\ \A n, m \in Nat, x \in {"none", "processing", "completed"} :
                 [a EXCEPT !.credits = n, !.balance = m, !.payout = x] \in Accounts
           /\ \A n \in Nat, x \in {"none", "pending", "paid", "cancelled"} :
                 [a EXCEPT !.balance = n, !.settlement = x] \in Accounts
BY DEF Accounts

LEMMA UpdateType ==
    ASSUME NEW D, NEW R, NEW f \in [D -> R], NEW x \in D, NEW v \in R
    PROVE  [f EXCEPT ![x] = v] \in [D -> R]
OBVIOUS

LEMMA TypeStep ==
    ASSUME LedgerInv, [Next]_vars
    PROVE  TypeOK'
<1> USE DEF LedgerInv, TypeOK, money
<1>1. task' \in [Requests -> Tasks]
  <2>0. ASSUME NEW s \in Requests, Finish(s) PROVE task' \in [Requests -> Tasks]
    BY <2>0, FinishKeepsTypes
  <2>1. CASE UNCHANGED vars
    BY <2>1 DEF vars
  <2>2. ASSUME NEW s \in Requests, PayIn(s) PROVE task' \in [Requests -> Tasks]
    <3>1. CASE CreatePayment(s)
      <4>1. PICK p \in Payments : Become(s, [Idle EXCEPT !.pc = "push", !.payment = p])
        BY <3>1 DEF CreatePayment
      <4>2. [Idle EXCEPT !.pc = "push", !.payment = p] \in Tasks
        BY DEF Idle, Tasks, Steps
      <4> QED BY <4>1, <4>2, BecomeKeepsTypes
    <3>2. CASE RepeatPayment(s)
      <4>1. PICK p \in Payments : Become(s, [Idle EXCEPT !.pc = "push", !.payment = p])
        BY <3>2 DEF RepeatPayment
      <4>2. [Idle EXCEPT !.pc = "push", !.payment = p] \in Tasks
        BY DEF Idle, Tasks, Steps
      <4> QED BY <4>1, <4>2, BecomeKeepsTypes
    <3>3. CASE PushPrompt(s)
      <4>1. PICK u \in Pushes : Become(s, [task[s] EXCEPT !.pc = "store", !.push = u])
        BY <3>3 DEF PushPrompt
      <4>2. task[s] \in Tasks
        OBVIOUS
      <4> QED BY <4>1, <4>2, StepTypes, BecomeKeepsTypes
    <3>4. CASE ReceiveCallback(s)
      <4>1. PICK u \in Pushes : Become(s, [Idle EXCEPT !.pc = "callback", !.push = u])
        BY <3>4 DEF ReceiveCallback
      <4>2. [Idle EXCEPT !.pc = "callback", !.push = u] \in Tasks
        BY DEF Idle, Tasks, Steps
      <4> QED BY <4>1, <4>2, BecomeKeepsTypes
    <3>5. CASE FindPayment(s)
      <4>1. \/ Finish(s)
            \/ \E p \in Payments : Become(s, [task[s] EXCEPT !.pc = "settle", !.payment = p])
        BY <3>5 DEF FindPayment
      <4>2. task[s] \in Tasks
        OBVIOUS
      <4> QED BY <2>0, <4>1, <4>2, FoundType, BecomeKeepsTypes
    <3>6. CASE StoreCheckout(s) \/ SettlePaid(s) \/ SettleDeclined(s)
      BY <2>0, <3>6 DEF StoreCheckout, SettlePaid, SettleDeclined
    <3> QED BY <2>2, <3>1, <3>2, <3>3, <3>4, <3>5, <3>6 DEF PayIn
  <2>3. ASSUME NEW s \in Requests, PayOut(s) PROVE task' \in [Requests -> Tasks]
    <3>1. CASE ConfirmCompletion(s)
      <4>1. [Idle EXCEPT !.pc = "release", !.confirming = TRUE] \in Tasks
        BY DEF Idle, Tasks, Steps
      <4> QED BY <3>1, <4>1, BecomeKeepsTypes DEF ConfirmCompletion
    <3>2. CASE LockJob(s)
      <4>1. task[s] \in Tasks
        OBVIOUS
      <4> QED BY <3>2, <4>1, StepTypes, BecomeKeepsTypes DEF LockJob
    <3>3. CASE ReleaseEscrow(s)
      <4>1. [Idle EXCEPT !.pc = "finalize"] \in Tasks
        BY DEF Idle, Tasks, Steps
      <4> QED BY <3>3, <4>1, IdleType, BecomeKeepsTypes DEF ReleaseEscrow, AfterRelease
    <3>4. CASE ReadSettlement(s)
      <4>1. [Idle EXCEPT !.pc = "payCompany"] \in Tasks
        BY DEF Idle, Tasks, Steps
      <4> QED BY <3>4, <4>1, BecomeKeepsTypes DEF ReadSettlement
    <3>5. CASE Finalize(s) \/ PaySettlement(s)
      BY <2>0, <3>5 DEF Finalize, PaySettlement
    <3> QED BY <2>3, <3>1, <3>2, <3>3, <3>4, <3>5 DEF PayOut
  <2>4. ASSUME NEW s \in Requests, PayBack(s) PROVE task' \in [Requests -> Tasks]
    <3>1. CASE AskRefund(s)
      <4>1. PICK p \in Payments : Become(s, [Idle EXCEPT !.pc = "insert", !.payment = p])
        BY <3>1 DEF AskRefund, Completed
      <4>2. [Idle EXCEPT !.pc = "insert", !.payment = p] \in Tasks
        BY DEF Idle, Tasks, Steps
      <4> QED BY <4>1, <4>2, BecomeKeepsTypes
    <3>2. ASSUME NEW r \in RefundRequests \cup {None}, LockNewest(s, r)
          PROVE  task' \in [Requests -> Tasks]
      <4>1. PICK p \in Payments :
               Become(s, [Idle EXCEPT !.pc = "reverse", !.payment = p, !.refund = r,
                                      !.credited = provider.credits > 0,
                                      !.owed = provider.settlement = "pending"])
        BY <3>2 DEF LockNewest, Completed
      <4>2. (provider.credits > 0) \in BOOLEAN /\ (provider.settlement = "pending") \in BOOLEAN
        OBVIOUS
      <4>3. \A a, b \in BOOLEAN : [Idle EXCEPT !.pc = "reverse", !.payment = p, !.refund = r,
                                      !.credited = a, !.owed = b] \in Tasks
        BY DEF Idle, Tasks, Steps
      <4> QED BY <4>1, <4>2, <4>3, BecomeKeepsTypes
    <3>3. CASE ApproveRefund(s) \/ ProcessRefund(s)
      BY <3>2, <3>3 DEF ApproveRefund, ProcessRefund
    <3>4. CASE InsertRefundRequest(s) \/ Reverse(s)
      BY <2>0, <3>4 DEF InsertRefundRequest, Reverse
    <3> QED BY <2>4, <3>1, <3>3, <3>4 DEF PayBack
  <2>5. ASSUME NEW s \in Requests, Fail(s) PROVE task' \in [Requests -> Tasks]
    BY <2>0, <2>5 DEF Fail
  <2>6. CASE UNCHANGED task
    BY <2>6
  <2> QED
    BY <2>1, <2>2, <2>3, <2>4, <2>5, <2>6
    DEF Next, AnswerPrompt, MoveJob, OpenDispute, ResolveDispute, FreezeEscrow, ReviewOrReject,
        CompletePayout
<1>2. job' \in Jobs
  <2>1. CASE UNCHANGED job
    BY <2>1
  <2>2. ASSUME NEW s \in Requests,
               \/ SettlePaid(s) \/ ConfirmCompletion(s) \/ Finalize(s) \/ Reverse(s)
        PROVE  job' \in Jobs
    BY <2>2 DEF SettlePaid, ConfirmCompletion, Finalize, Reverse, Jobs
  <2>3. ASSUME NEW s \in Requests, ReleaseEscrow(s) PROVE job' \in Jobs
    BY <2>3 DEF ReleaseEscrow, Released, Jobs
  <2>4. CASE MoveJob \/ CompletePayout
    BY <2>4 DEF MoveJob, CompletePayout, Jobs
  <2>5. CASE ResolveDispute
    BY <2>5 DEF ResolveDispute, Jobs
  <2>6. CASE OpenDispute \/ FreezeEscrow
    BY <2>6 DEF OpenDispute, FreezeEscrow
  <2>7. ASSUME NEW s \in Requests, PaySettlement(s) PROVE job' \in Jobs
    BY <2>7 DEF PaySettlement
  <2> QED BY <2>1, <2>2, <2>3, <2>4, <2>5, <2>6, <2>7, ProviderWriters
<1>3. payments' \in [Payments -> Rows]
  <2> HIDE DEF Payments
  <2>1. CASE UNCHANGED payments
    BY <2>1
  <2>2. ASSUME NEW s \in Requests, CreatePayment(s) PROVE payments' \in [Payments -> Rows]
    <3>1. PICK p \in Payments : payments' = [payments EXCEPT ![p].status = "pending"]
      BY <2>2 DEF CreatePayment
    <3>2. [payments[p] EXCEPT !.status = "pending"] \in Rows
      BY RowTypes
    <3> QED BY <3>1, <3>2, UpdateType
  <2>3. ASSUME NEW s \in Requests, StoreCheckout(s) PROVE payments' \in [Payments -> Rows]
    <3>1. task[s].payment \in Payments /\ task[s].push \in Pushes
      BY <2>3 DEF StoreCheckout, At, TasksHold, ReadsHold
    <3>2. [payments[task[s].payment] EXCEPT !.checkout = task[s].push] \in Rows
      BY <3>1, RowTypes
    <3> QED BY <2>3, <3>1, <3>2, UpdateType DEF StoreCheckout
  <2>4. ASSUME NEW s \in Requests, SettlePaid(s) \/ SettleDeclined(s) \/ Reverse(s)
        PROVE  payments' \in [Payments -> Rows]
    <3> DEFINE p == task[s].payment
    <3>1. p \in Payments
      BY <2>4 DEF SettlePaid, SettleDeclined, Reverse, At, TasksHold, ReadsHold
    <3>2. /\ [payments[p] EXCEPT !.status = "failed"] \in Rows
          /\ [payments[p] EXCEPT !.status = "completed", !.escrow = "held"] \in Rows
          /\ [payments[p] EXCEPT !.status = "refunded", !.escrow = "refunded"] \in Rows
      BY <3>1, RowTypes
    <3>3. CASE SettlePaid(s)
      <4>1. payments' = [payments EXCEPT ![p] = [payments[p] EXCEPT !.status = "completed", !.escrow = "held"]]
        BY <3>1, <3>3 DEF SettlePaid
      <4> HIDE DEF p
      <4> QED BY <3>1, <3>2, <4>1, UpdateType
    <3>4. CASE SettleDeclined(s)
      BY <3>1, <3>2, <3>4, UpdateType DEF SettleDeclined
    <3>5. CASE Reverse(s)
      <4>1. payments' = [payments EXCEPT ![p] = [payments[p] EXCEPT !.status = "refunded", !.escrow = "refunded"]]
        BY <3>1, <3>5 DEF Reverse
      <4> HIDE DEF p
      <4> QED BY <3>1, <3>2, <4>1, UpdateType
    <3> QED BY <2>4, <3>3, <3>4, <3>5
  <2>5. ASSUME NEW s \in Requests, ReleaseEscrow(s) PROVE payments' \in [Payments -> Rows]
    <3>1. ASSUME NEW p \in Payments, Released(p) PROVE payments' \in [Payments -> Rows]
      <4>1. [payments[p] EXCEPT !.status = "completed", !.escrow = "released"] \in Rows
        BY RowTypes
      <4>2. payments' = [payments EXCEPT ![p] = [payments[p] EXCEPT !.status = "completed", !.escrow = "released"]]
        BY <3>1 DEF Released
      <4> QED BY <4>1, <4>2, UpdateType
    <3> QED BY <2>5, <3>1 DEF ReleaseEscrow, Held
  <2>6. CASE ResolveDispute
    <3>1. ASSUME NEW p \in Payments, NEW c \in {"refunded", "held"},
                 payments' = [payments EXCEPT ![p].escrow = c]
          PROVE  payments' \in [Payments -> Rows]
      <4>1. [payments[p] EXCEPT !.escrow = c] \in Rows
        BY RowTypes
      <4> QED BY <3>1, <4>1, UpdateType
    <3> QED BY <2>6, <3>1 DEF ResolveDispute, InEscrow
  <2>7. CASE OpenDispute \/ FreezeEscrow
    <3>1. payments' = Frozen(Held)
      BY <2>7 DEF OpenDispute, FreezeEscrow
    <3>2. \A p \in Payments : [payments[p] EXCEPT !.escrow = "frozen"] \in Rows
      BY RowTypes
    <3> QED BY <3>1, <3>2 DEF Frozen
  <2> QED BY <2>1, <2>2, <2>3, <2>4, <2>5, <2>6, <2>7, PaymentWriters
<1>4. entries' \in [Payments -> Entry]
  <2> HIDE DEF Payments
  <2>0. entries \in [Payments -> Entry]
    BY DEF Entry
  <2>1. CASE UNCHANGED entries
    BY <2>0, <2>1
  <2>2. ASSUME NEW s \in Requests, SettlePaid(s) PROVE entries' \in [Payments -> Entry]
    <3> DEFINE p == task[s].payment
    <3>1. p \in Payments
      BY <2>2 DEF SettlePaid, At, TasksHold, ReadsHold
    <3>2. [entries[p] EXCEPT !.hold = IF @ = 0 THEN 1 ELSE @] \in Entry
      BY <2>0, <3>1, EntryTypes
    <3> QED BY <2>0, <2>2, <3>1, <3>2, UpdateType DEF SettlePaid
  <2>3. ASSUME NEW s \in Requests, Reverse(s) PROVE entries' \in [Payments -> Entry]
    <3> DEFINE p == task[s].payment
    <3>1. p \in Payments /\ entries[p].reversal = 0
      BY <2>3 DEF RowsAgree, TasksHold, ReadsHold, Reverse, At
    <3>2. [entries[p] EXCEPT !.reversal = @ + 1] \in Entry
      BY <2>0, <3>1, EntryTypes
    <3> QED BY <2>0, <2>3, <3>1, <3>2, UpdateType DEF Reverse
  <2>4. ASSUME NEW s \in Requests, ReleaseEscrow(s) PROVE entries' \in [Payments -> Entry]
    <3>1. ASSUME NEW p \in Payments, Released(p) PROVE entries' \in [Payments -> Entry]
      <4>1. [entries[p] EXCEPT !.release = IF @ = 0 THEN 1 ELSE @] \in Entry
        BY <2>0, EntryTypes
      <4> QED BY <2>0, <3>1, <4>1, UpdateType DEF Released
    <3> QED BY <2>0, <2>4, <3>1 DEF ReleaseEscrow, Held
  <2>5. CASE ResolveDispute
    <3>1. ASSUME NEW p \in Payments, entries' = [entries EXCEPT ![p].refund = @ + 1]
          PROVE  entries' \in [Payments -> Entry]
      <4>1. [entries[p] EXCEPT !.refund = @ + 1] \in Entry
        BY <2>0, EntryTypes
      <4> QED BY <2>0, <3>1, <4>1, UpdateType
    <3> QED BY <2>0, <2>5, <3>1 DEF ResolveDispute, InEscrow
  <2>6. CASE OpenDispute \/ FreezeEscrow
    BY <2>0, <2>6 DEF OpenDispute, FreezeEscrow
  <2>7. ASSUME NEW s \in Requests, CreatePayment(s) \/ StoreCheckout(s) \/ SettleDeclined(s)
        PROVE  entries' \in [Payments -> Entry]
    BY <2>0, <2>7 DEF CreatePayment, StoreCheckout, SettleDeclined
  <2> QED BY <2>1, <2>2, <2>3, <2>4, <2>5, <2>6, <2>7, PaymentWriters
<1>5. provider' \in Accounts
  <2>1. CASE UNCHANGED provider
    BY <2>1
  <2>2. ASSUME NEW s \in Requests, Reverse(s) PROVE provider' \in Accounts
    <3>1. PICK n \in Nat, x \in {"none", "pending", "paid", "cancelled"} :
             provider' = [provider EXCEPT !.balance = n, !.settlement = x]
      <4> DEFINE n == IF task[s].credited /\ provider.balance > 0 THEN provider.balance - 1
                      ELSE provider.balance
                 x == IF task[s].owed THEN "cancelled" ELSE provider.settlement
      <4>1. n \in Nat /\ x \in {"none", "pending", "paid", "cancelled"}
        BY DEF Accounts
      <4>2. provider' = [provider EXCEPT !.balance = n, !.settlement = x]
        BY <2>2 DEF Reverse
      <4> HIDE DEF n, x
      <4> QED BY <4>1, <4>2
    <3> QED BY <3>1, AccountTypes
  <2>3. ASSUME NEW s \in Requests, ReleaseEscrow(s) PROVE provider' \in Accounts
    <3>1. ASSUME NEW p, Released(p) PROVE provider' \in Accounts
      <4>1. CASE job.company
        <5> DEFINE x == IF provider.settlement = "none" THEN "pending" ELSE provider.settlement
        <5>1. x \in {"none", "pending", "paid", "cancelled"}
          BY DEF Accounts
        <5>2. provider' = [provider EXCEPT !.settlement = x]
          BY <3>1, <4>1 DEF Released
        <5> HIDE DEF x
        <5> QED BY <5>1, <5>2, AccountTypes
      <4>2. CASE ~ job.company
        <5> DEFINE n == provider.credits + 1
                   m == provider.balance + 1
                   x == IF provider.payout = "none" THEN "processing" ELSE provider.payout
        <5>1. n \in Nat /\ m \in Nat /\ x \in {"none", "processing", "completed"}
          BY DEF Accounts
        <5>2. provider' = [provider EXCEPT !.credits = n, !.balance = m, !.payout = x]
          BY <3>1, <4>2 DEF Released
        <5> HIDE DEF n, m, x
        <5> QED BY <5>1, <5>2, AccountTypes
      <4> QED BY <4>1, <4>2
    <3> QED BY <2>3, <3>1 DEF ReleaseEscrow
  <2>4. ASSUME NEW s \in Requests, PaySettlement(s) PROVE provider' \in Accounts
    <3>1. [provider EXCEPT !.settlement = "paid"] \in Accounts
      BY AccountTypes
    <3> QED BY <2>4, <3>1 DEF PaySettlement
  <2>5. CASE CompletePayout
    <3>1. [provider EXCEPT !.payout = "completed"] \in Accounts
      BY AccountTypes
    <3> QED BY <2>5, <3>1 DEF CompletePayout
  <2>6. CASE MoveJob \/ OpenDispute \/ ResolveDispute \/ FreezeEscrow
    BY <2>6 DEF MoveJob, OpenDispute, ResolveDispute, FreezeEscrow
  <2>7. ASSUME NEW s \in Requests, SettlePaid(s) \/ ConfirmCompletion(s) \/ Finalize(s)
        PROVE  provider' \in Accounts
    BY <2>7 DEF SettlePaid, ConfirmCompletion, Finalize
  <2> QED BY <2>1, <2>2, <2>3, <2>4, <2>5, <2>6, <2>7, ProviderWriters
<1>6. pushes' \in [Pushes -> Prompts]
  <2> HIDE DEF Payments
  <2>1. CASE UNCHANGED pushes
    BY <2>1
  <2>2. ASSUME NEW s \in Requests, PushPrompt(s) PROVE pushes' \in [Pushes -> Prompts]
    <3>1. task[s].payment \in Payments
      BY <2>2 DEF PushPrompt, At, TasksHold, ReadsHold
    <3> QED BY <2>2, <3>1 DEF PushPrompt, Prompts
  <2>3. ASSUME NEW u \in Pushes, AnswerPrompt(u) PROVE pushes' \in [Pushes -> Prompts]
    <3>1. \A c \in {"paid", "declined"} : [pushes[u] EXCEPT !.result = c] \in Prompts
      BY DEF Prompts
    <3>2. ASSUME NEW c \in {"paid", "declined"}, pushes' = [pushes EXCEPT ![u].result = c]
          PROVE  pushes' \in [Pushes -> Prompts]
      BY <3>1, <3>2, UpdateType
    <3> QED BY <2>3, <3>2 DEF AnswerPrompt
  <2> QED BY <2>1, <2>2, <2>3, OtherWriters
<1>7. processed' \subseteq Pushes
  <2>1. ASSUME NEW s \in Requests, SettlePaid(s) PROVE processed' \subseteq Pushes
    BY <2>1 DEF SettlePaid, TasksHold, ReadsHold, At
  <2> QED BY <2>1, OtherWriters
<1>8. disputed' \in BOOLEAN
  BY OtherWriters DEF OpenDispute, ResolveDispute
<1>9. refunds' \in Refunds
  <2> HIDE DEF Payments
  <2>0. refunds \in Refunds
    BY DEF Refunds
  <2> DEFINE R == [status : {"none", "requested", "under_review", "rejected", "completed"},
                   payment : Payments \cup {None}]
  <2>1. ASSUME NEW s \in Requests, InsertRefundRequest(s) PROVE refunds' \in Refunds
    <3>1. task[s].payment \in Payments
      BY <2>1 DEF InsertRefundRequest, At, TasksHold, ReadsHold
    <3> QED BY <2>0, <2>1, <3>1 DEF InsertRefundRequest, Refunds
  <2>2. ASSUME NEW r \in RefundRequests, NEW c \in {"under_review", "rejected", "completed"},
               refunds' = [refunds EXCEPT ![r].status = c]
        PROVE  refunds' \in Refunds
    <3>1. [refunds[r] EXCEPT !.status = c] \in R
      OBVIOUS
    <3>2. refunds' \in [RefundRequests -> R]
      BY <2>2, <3>1, UpdateType
    <3> QED BY <3>2 DEF Refunds
  <2>3. CASE ReviewOrReject
    BY <2>2, <2>3 DEF ReviewOrReject
  <2>4. ASSUME NEW s \in Requests, Reverse(s) PROVE refunds' \in Refunds
    <3>1. task[s] \in Tasks
      BY <2>4
    <3>2. task[s].refund \in RefundRequests \cup {None}
      BY <3>1 DEF Tasks
    <3> QED BY <2>0, <2>2, <2>4, <3>2 DEF Reverse
  <2> QED BY <2>0, <2>1, <2>3, <2>4, OtherWriters
<1> QED BY <1>1, <1>2, <1>3, <1>4, <1>5, <1>6, <1>7, <1>8, <1>9 DEF Entry, Refunds
-----------------------------------------------------------------------------
(* What a step does to a request *)

(* The task of s after a step that changes it, and what the step knew. *)
TaskMove(s) ==
    LET t == task'[s]
    IN  \/ t.pc \in {"idle", "release", "finalize"} /\ ~ t.owed
        \/ t.pc \in {"push", "insert"} /\ t.payment \in Payments /\ ~ t.owed
        \/ /\ At(s, "push") /\ t.pc = "store" /\ t.owed = task[s].owed
           /\ t.payment = task[s].payment /\ t.push \in Pushes
           /\ pushes'[t.push].result # "none" /\ pushes'[t.push].payment = t.payment
        \/ t.pc = "callback" /\ t.push \in Pushes /\ ~ t.owed
        \/ /\ At(s, "callback") /\ t.pc = "settle" /\ t.owed = task[s].owed
           /\ t.push = task[s].push /\ t.payment \in Payments /\ payments[t.payment].checkout = t.push
           /\ payments[t.payment].status = "pending" /\ ~ RowLocked(t.payment) /\ UNCHANGED <<payments, pushes>>
        \/ /\ t.pc = "escrow" /\ t.owed = task[s].owed
           /\ job.stage = "completed" /\ job.confirmed /\ ~ disputed /\ UNCHANGED <<job, disputed>>
        \/ t.pc = "payCompany" /\ ~ t.owed /\ provider.settlement = "pending" /\ UNCHANGED provider
        \/ /\ t.pc = "reverse" /\ t.payment \in Payments /\ payments[t.payment].status = "completed"
           /\ ~ RowLocked(t.payment) /\ (t.owed => provider.settlement = "pending")
           /\ UNCHANGED <<payments, provider>>

LEMMA TaskMoves ==
    ASSUME task \in [Requests -> Tasks], pushes \in [Pushes -> Prompts], [Next]_vars
    PROVE  \/ UNCHANGED task
           \/ \E s \in Requests : TaskMove(s) /\ \A q \in Requests \ {s} : task'[q] = task[q]
<1> HIDE DEF Payments
<1> USE DEF money
<1>0. ASSUME NEW s \in Requests, NEW t, Become(s, t)
      PROVE  task'[s] = t /\ \A q \in Requests \ {s} : task'[q] = task[q]
  BY <1>0 DEF Become
<1>1. ASSUME NEW s \in Requests, Finish(s)
      PROVE  TaskMove(s) /\ \A q \in Requests \ {s} : task'[q] = task[q]
  BY <1>0, <1>1 DEF Finish, Idle, TaskMove
<1>2. ASSUME NEW s \in Requests, PayIn(s)
      PROVE  TaskMove(s) /\ \A q \in Requests \ {s} : task'[q] = task[q]
  <2>1. CASE CreatePayment(s) \/ RepeatPayment(s)
    <3>1. PICK p \in Payments : Become(s, [Idle EXCEPT !.pc = "push", !.payment = p])
      BY <2>1 DEF CreatePayment, RepeatPayment
    <3>2. task'[s] = [Idle EXCEPT !.pc = "push", !.payment = p]
      BY <1>0, <3>1
    <3>3. task'[s].pc = "push" /\ task'[s].payment = p /\ ~ task'[s].owed
      BY <3>2 DEF Idle
    <3> QED BY <1>0, <3>1, <3>3 DEF TaskMove
  <2>2. CASE PushPrompt(s)
    <3>1. PICK u \in Pushes : /\ pushes' = [pushes EXCEPT ![u] = [result |-> "asked", payment |-> task[s].payment]]
                              /\ Become(s, [task[s] EXCEPT !.pc = "store", !.push = u])
      BY <2>2 DEF PushPrompt
    <3>2. task[s] \in Tasks
      OBVIOUS
    <3>3. task'[s] = [task[s] EXCEPT !.pc = "store", !.push = u]
      BY <1>0, <3>1
    <3>4. /\ task'[s].pc = "store" /\ task'[s].owed = task[s].owed
          /\ task'[s].payment = task[s].payment /\ task'[s].push = u
      BY <3>2, <3>3 DEF Tasks
    <3>5. pushes'[u].result # "none" /\ pushes'[u].payment = task[s].payment
      BY <3>1
    <3>6. At(s, "push") /\ \A q \in Requests \ {s} : task'[q] = task[q]
      BY <1>0, <2>2, <3>1 DEF PushPrompt
    <3> QED BY <3>4, <3>5, <3>6 DEF TaskMove
  <2>3. CASE ReceiveCallback(s)
    <3>1. PICK u \in Pushes : Become(s, [Idle EXCEPT !.pc = "callback", !.push = u])
      BY <2>3 DEF ReceiveCallback
    <3>2. task'[s] = [Idle EXCEPT !.pc = "callback", !.push = u]
      BY <1>0, <3>1
    <3>3. task'[s].pc = "callback" /\ task'[s].push = u /\ ~ task'[s].owed
      BY <3>2 DEF Idle
    <3> QED BY <1>0, <3>1, <3>3 DEF TaskMove
  <2>4. CASE FindPayment(s)
    <3>1. CASE Finish(s)
      BY <1>1, <3>1
    <3>2. ASSUME NEW p \in Payments, payments[p].checkout = task[s].push, ~ RowLocked(p), Pending(p),
                 Become(s, [task[s] EXCEPT !.pc = "settle", !.payment = p])
          PROVE  TaskMove(s) /\ \A q \in Requests \ {s} : task'[q] = task[q]
      <4>1. task[s] \in Tasks
        OBVIOUS
      <4>2. task'[s] = [task[s] EXCEPT !.pc = "settle", !.payment = p]
        BY <1>0, <3>2
      <4>3. /\ task'[s].pc = "settle" /\ task'[s].owed = task[s].owed
            /\ task'[s].payment = p /\ task'[s].push = task[s].push
        BY <4>1, <4>2 DEF Tasks
      <4> QED BY <1>0, <2>4, <3>2, <4>3 DEF FindPayment, TaskMove, Pending
    <3> QED BY <2>4, <3>1, <3>2 DEF FindPayment
  <2>5. CASE StoreCheckout(s) \/ SettlePaid(s) \/ SettleDeclined(s)
    BY <1>1, <2>5 DEF StoreCheckout, SettlePaid, SettleDeclined
  <2> QED BY <1>2, <2>1, <2>2, <2>3, <2>4, <2>5 DEF PayIn
<1>3. ASSUME NEW s \in Requests, PayOut(s)
      PROVE  TaskMove(s) /\ \A q \in Requests \ {s} : task'[q] = task[q]
  <2>1. CASE ConfirmCompletion(s)
    <3>1. task'[s] = [Idle EXCEPT !.pc = "release", !.confirming = TRUE]
      BY <1>0, <2>1 DEF ConfirmCompletion
    <3>2. task'[s].pc = "release" /\ ~ task'[s].owed
      BY <3>1 DEF Idle
    <3> QED BY <1>0, <2>1, <3>2 DEF ConfirmCompletion, TaskMove
  <2>2. CASE LockJob(s)
    <3>1. task[s] \in Tasks
      OBVIOUS
    <3>2. task'[s].pc = "escrow" /\ task'[s].owed = task[s].owed
      BY <1>0, <2>2, <3>1 DEF LockJob, Tasks
    <3> QED BY <1>0, <2>2, <3>2 DEF LockJob, TaskMove
  <2>3. CASE ReleaseEscrow(s)
    BY <1>0, <2>3 DEF ReleaseEscrow, AfterRelease, Idle, TaskMove
  <2>4. CASE ReadSettlement(s)
    BY <1>0, <2>4 DEF ReadSettlement, Idle, TaskMove
  <2>5. CASE Finalize(s) \/ PaySettlement(s)
    BY <1>1, <2>5 DEF Finalize, PaySettlement
  <2> QED BY <1>3, <2>1, <2>2, <2>3, <2>4, <2>5 DEF PayOut
<1>4. ASSUME NEW s \in Requests, PayBack(s)
      PROVE  TaskMove(s) /\ \A q \in Requests \ {s} : task'[q] = task[q]
  <2>1. CASE AskRefund(s)
    <3>1. PICK p \in Payments : Become(s, [Idle EXCEPT !.pc = "insert", !.payment = p])
      BY <2>1 DEF AskRefund, Completed
    <3>2. task'[s] = [Idle EXCEPT !.pc = "insert", !.payment = p]
      BY <1>0, <3>1
    <3>3. task'[s].pc = "insert" /\ task'[s].payment = p /\ ~ task'[s].owed
      BY <3>2 DEF Idle
    <3> QED BY <1>0, <3>1, <3>3 DEF TaskMove
  <2>2. ASSUME NEW r, LockNewest(s, r), UNCHANGED money
        PROVE  TaskMove(s) /\ \A q \in Requests \ {s} : task'[q] = task[q]
    <3>1. PICK p \in Completed :
             /\ ~ RowLocked(p)
             /\ Become(s, [Idle EXCEPT !.pc = "reverse", !.payment = p, !.refund = r,
                                      !.credited = provider.credits > 0,
                                      !.owed = provider.settlement = "pending"])
      BY <2>2 DEF LockNewest
    <3>2. task'[s] = [Idle EXCEPT !.pc = "reverse", !.payment = p, !.refund = r,
                                  !.credited = provider.credits > 0,
                                  !.owed = provider.settlement = "pending"]
      BY <1>0, <3>1
    <3>3. /\ task'[s].pc = "reverse" /\ task'[s].payment = p
          /\ task'[s].owed => provider.settlement = "pending"
      BY <3>2 DEF Idle
    <3> QED BY <1>0, <2>2, <3>1, <3>3 DEF TaskMove, Completed
  <2>3. CASE ApproveRefund(s) \/ ProcessRefund(s)
    BY <2>2, <2>3 DEF ApproveRefund, ProcessRefund
  <2>4. CASE InsertRefundRequest(s) \/ Reverse(s)
    BY <1>1, <2>4 DEF InsertRefundRequest, Reverse
  <2> QED BY <1>4, <2>1, <2>3, <2>4 DEF PayBack
<1>5. ASSUME NEW s \in Requests, Fail(s)
      PROVE  TaskMove(s) /\ \A q \in Requests \ {s} : task'[q] = task[q]
  BY <1>1, <1>5 DEF Fail
<1>6. CASE UNCHANGED vars
  BY <1>6 DEF vars
<1> QED
  BY <1>2, <1>3, <1>4, <1>5, <1>6
  DEF Next, AnswerPrompt, MoveJob, OpenDispute, ResolveDispute, FreezeEscrow, ReviewOrReject,
      CompletePayout

-----------------------------------------------------------------------------
(* What a step does to a payment *)

Same(p) ==
    /\ payments'[p].status = payments[p].status /\ payments'[p].escrow = payments[p].escrow
    /\ payments'[p].checkout = payments[p].checkout
    /\ entries'[p].hold = entries[p].hold /\ entries'[p].release = entries[p].release
    /\ entries'[p].reversal = entries[p].reversal

Marked(p, status, escrow) ==
    /\ payments'[p].status = status /\ payments'[p].escrow = escrow
    /\ payments'[p].checkout = payments[p].checkout

RowMove(p) ==
    \/ Same(p)
    \/ /\ payments[p].status = "none" /\ Marked(p, "pending", payments[p].escrow)
       /\ UNCHANGED entries
    \/ \E s \in Requests :
          /\ At(s, "store") /\ task[s].payment = p
          /\ payments'[p].status = payments[p].status /\ payments'[p].escrow = payments[p].escrow
          /\ payments'[p].checkout = task[s].push /\ UNCHANGED entries
    \/ \E s \in Requests :
          /\ At(s, "settle") /\ task[s].payment = p /\ Finish(s)
          /\ \/ /\ pushes[task[s].push].result = "paid" /\ processed' = processed \cup {task[s].push}
                /\ Marked(p, "completed", "held")
                /\ entries'[p].hold = (IF entries[p].hold = 0 THEN 1 ELSE entries[p].hold)
                /\ entries'[p].release = entries[p].release /\ entries'[p].reversal = entries[p].reversal
             \/ Marked(p, "failed", payments[p].escrow) /\ UNCHANGED entries
    \/ /\ payments[p].escrow = "held" /\ Marked(p, "completed", "released")
       /\ entries'[p].release = (IF entries[p].release = 0 THEN 1 ELSE entries[p].release)
       /\ entries'[p].hold = entries[p].hold /\ entries'[p].reversal = entries[p].reversal
    \/ /\ payments[p].escrow \in {"held", "frozen"}
       /\ \E c \in {"held", "frozen", "refunded"} : Marked(p, payments[p].status, c)
       /\ entries'[p].release = entries[p].release
       /\ entries'[p].hold = entries[p].hold /\ entries'[p].reversal = entries[p].reversal
    \/ \E s \in Requests :
          /\ At(s, "reverse") /\ task[s].payment = p /\ Finish(s)
          /\ Marked(p, "refunded", "refunded")
          /\ entries'[p].reversal = entries[p].reversal + 1
          /\ entries'[p].hold = entries[p].hold /\ entries'[p].release = entries[p].release

LEMMA RowMoves ==
    ASSUME LedgerInv, [Next]_vars, NEW p \in Payments
    PROVE  RowMove(p)
<1> HIDE DEF Payments
<1>0. /\ payments \in [Payments -> Rows] /\ entries \in [Payments -> Entry]
      /\ \A s \in Requests : task[s].pc \in {"store", "settle", "reverse"} => task[s].payment \in Payments
  BY DEF LedgerInv, TypeOK, Entry, TasksHold, ReadsHold
<1>1. CASE UNCHANGED <<payments, entries>>
  BY <1>1 DEF RowMove, Same
<1>2. ASSUME NEW s \in Requests, CreatePayment(s) PROVE RowMove(p)
  <2>1. PICK q \in Payments : payments[q].status = "none" /\ payments' = [payments EXCEPT ![q].status = "pending"]
    BY <1>2 DEF CreatePayment
  <2>2. CASE q = p
    BY <1>0, <1>2, <2>1, <2>2 DEF CreatePayment, RowMove, Marked, Rows
  <2>3. CASE q # p
    BY <1>0, <1>2, <2>1, <2>3 DEF CreatePayment, RowMove, Same
  <2> QED BY <2>2, <2>3
<1>3. ASSUME NEW s \in Requests, StoreCheckout(s) PROVE RowMove(p)
  <2>2. CASE task[s].payment = p
    BY <1>0, <1>3, <2>2 DEF StoreCheckout, RowMove, Rows
  <2>3. CASE task[s].payment # p
    BY <1>0, <1>3, <2>3 DEF StoreCheckout, RowMove, Same, At
  <2> QED BY <2>2, <2>3
<1>4. ASSUME NEW s \in Requests, SettlePaid(s) PROVE RowMove(p)
  <2>1. At(s, "settle") /\ task[s].payment \in Payments
    BY <1>0, <1>4 DEF SettlePaid, At
  <2>2. CASE task[s].payment = p
    <3>1. Marked(p, "completed", "held")
      BY <1>0, <1>4, <2>1, <2>2 DEF SettlePaid, Marked, Rows
    <3>2. /\ entries'[p].hold = (IF entries[p].hold = 0 THEN 1 ELSE entries[p].hold)
          /\ entries'[p].release = entries[p].release /\ entries'[p].reversal = entries[p].reversal
      BY <1>0, <1>4, <2>1, <2>2 DEF SettlePaid, Entry
    <3> QED BY <1>4, <2>1, <2>2, <3>1, <3>2 DEF SettlePaid, RowMove
  <2>3. CASE task[s].payment # p
    BY <1>0, <1>4, <2>1, <2>3 DEF SettlePaid, RowMove, Same
  <2> QED BY <2>2, <2>3
<1>5. ASSUME NEW s \in Requests, SettleDeclined(s) PROVE RowMove(p)
  <2>1. At(s, "settle") /\ task[s].payment \in Payments
    BY <1>0, <1>5 DEF SettleDeclined, At
  <2>2. CASE task[s].payment = p
    <3>1. Marked(p, "failed", payments[p].escrow)
      BY <1>0, <1>5, <2>1, <2>2 DEF SettleDeclined, Marked, Rows
    <3> QED BY <1>5, <2>1, <2>2, <3>1 DEF SettleDeclined, RowMove
  <2>3. CASE task[s].payment # p
    BY <1>0, <1>5, <2>1, <2>3 DEF SettleDeclined, RowMove, Same
  <2> QED BY <2>2, <2>3
<1>6. ASSUME NEW s \in Requests, ReleaseEscrow(s) PROVE RowMove(p)
  <2>1. ASSUME NEW q \in Held, Released(q) PROVE RowMove(p)
    <3>0. q \in Payments /\ payments[q].escrow = "held"
      BY <2>1 DEF Held
    <3>1. CASE q = p
      <4>1. Marked(p, "completed", "released")
        BY <1>0, <2>1, <3>0, <3>1 DEF Released, Marked, Rows
      <4>2. /\ entries'[p].release = (IF entries[p].release = 0 THEN 1 ELSE entries[p].release)
            /\ entries'[p].hold = entries[p].hold /\ entries'[p].reversal = entries[p].reversal
        BY <1>0, <2>1, <3>0, <3>1 DEF Released, Entry
      <4> QED BY <3>0, <3>1, <4>1, <4>2 DEF RowMove
    <3>2. CASE q # p
      BY <1>0, <2>1, <3>0, <3>2 DEF Released, RowMove, Same
    <3> QED BY <3>1, <3>2
  <2> QED BY <1>1, <1>6, <2>1 DEF ReleaseEscrow
<1>7. ASSUME NEW s \in Requests, Reverse(s) PROVE RowMove(p)
  <2>1. At(s, "reverse") /\ task[s].payment \in Payments
    BY <1>0, <1>7 DEF Reverse, At
  <2>2. CASE task[s].payment = p
    <3>1. Marked(p, "refunded", "refunded")
      BY <1>0, <1>7, <2>1, <2>2 DEF Reverse, Marked, Rows
    <3>2. /\ entries'[p].reversal = entries[p].reversal + 1
          /\ entries'[p].release = entries[p].release /\ entries'[p].hold = entries[p].hold
      BY <1>0, <1>7, <2>1, <2>2 DEF Reverse, Entry
    <3> QED BY <1>7, <2>1, <2>2, <3>1, <3>2 DEF Reverse, RowMove
  <2>3. CASE task[s].payment # p
    BY <1>0, <1>7, <2>1, <2>3 DEF Reverse, RowMove, Same
  <2> QED BY <2>2, <2>3
<1>8. ASSUME OpenDispute \/ FreezeEscrow PROVE RowMove(p)
  <2>1. payments' = Frozen(Held) /\ UNCHANGED entries
    BY <1>8 DEF OpenDispute, FreezeEscrow
  <2>2. CASE p \in Held
    <3>1. Marked(p, payments[p].status, "frozen") /\ payments[p].escrow = "held"
      BY <1>0, <2>1, <2>2 DEF Frozen, Marked, Rows, Held
    <3> QED BY <2>1, <3>1 DEF RowMove
  <2>3. CASE p \notin Held
    BY <2>1, <2>3 DEF Frozen, RowMove, Same
  <2> QED BY <2>2, <2>3
<1>9. ASSUME ResolveDispute PROVE RowMove(p)
  <2>1. ASSUME NEW q \in InEscrow, payments' = [payments EXCEPT ![q].escrow = "refunded"],
               entries' = [entries EXCEPT ![q].refund = @ + 1]
        PROVE  RowMove(p)
    <3>0. q \in Payments /\ payments[q].escrow \in {"held", "frozen"}
      BY <2>1 DEF InEscrow
    <3>1. CASE q = p
      <4>1. Marked(p, payments[p].status, "refunded")
        BY <1>0, <2>1, <3>0, <3>1 DEF Marked, Rows
      <4>2. /\ entries'[p].release = entries[p].release /\ entries'[p].hold = entries[p].hold
            /\ entries'[p].reversal = entries[p].reversal
        BY <1>0, <2>1, <3>0, <3>1 DEF Entry
      <4> QED BY <3>0, <3>1, <4>1, <4>2 DEF RowMove
    <3>2. CASE q # p
      BY <1>0, <2>1, <3>0, <3>2 DEF RowMove, Same
    <3> QED BY <3>1, <3>2
  <2>2. ASSUME NEW q \in InEscrow, payments' = [payments EXCEPT ![q].escrow = "held"], UNCHANGED entries
        PROVE  RowMove(p)
    <3>0. q \in Payments /\ payments[q].escrow \in {"held", "frozen"}
      BY <2>2 DEF InEscrow
    <3>1. CASE q = p
      <4>1. Marked(p, payments[p].status, "held")
        BY <1>0, <2>2, <3>0, <3>1 DEF Marked, Rows
      <4> QED BY <2>2, <3>0, <3>1, <4>1 DEF RowMove
    <3>2. CASE q # p
      BY <1>0, <2>2, <3>0, <3>2 DEF RowMove, Same
    <3> QED BY <3>1, <3>2
  <2> QED BY <1>1, <1>9, <2>1, <2>2 DEF ResolveDispute
<1> QED BY <1>1, <1>2, <1>3, <1>4, <1>5, <1>6, <1>7, <1>8, <1>9, PaymentWriters

-----------------------------------------------------------------------------
(* The invariant is kept *)

LEMMA RowsStep ==
    ASSUME LedgerInv, [Next]_vars
    PROVE  RowsAgree'
<1> HIDE DEF Payments
<1> SUFFICES ASSUME NEW p \in Payments
             PROVE  /\ payments'[p].escrow = "pending" <=> payments'[p].status \in {"none", "pending", "failed"}
                    /\ payments'[p].status = "refunded" => payments'[p].escrow = "refunded"
                    /\ entries'[p].reversal = IF payments'[p].status = "refunded" THEN 1 ELSE 0
                    /\ payments'[p].escrow \in {"pending", "held", "frozen"} => entries'[p].release = 0
  BY DEF RowsAgree
<1>1. /\ payments[p].escrow = "pending" <=> payments[p].status \in {"none", "pending", "failed"}
      /\ payments[p].status = "refunded" => payments[p].escrow = "refunded"
      /\ entries[p].reversal = IF payments[p].status = "refunded" THEN 1 ELSE 0
      /\ payments[p].escrow \in {"pending", "held", "frozen"} => entries[p].release = 0
  BY DEF LedgerInv, RowsAgree
<1>2. \A s \in Requests :
         /\ At(s, "settle") => payments[task[s].payment].status = "pending"
         /\ At(s, "reverse") => payments[task[s].payment].status = "completed"
  BY DEF LedgerInv, TasksHold, ReadsHold, At
<1>3. payments[p] \in Rows
  BY DEF LedgerInv, TypeOK
<1>4. /\ payments[p].status \in {"none", "pending", "completed", "failed", "refunded"}
      /\ payments[p].escrow \in {"pending", "held", "frozen", "released", "refunded"}
  BY <1>3 DEF Rows
<1>5. RowMove(p)
  BY RowMoves
<1>6. /\ payments'[p].escrow = "pending" <=> payments'[p].status \in {"none", "pending", "failed"}
      /\ payments'[p].status = "refunded" => payments'[p].escrow = "refunded"
  BY <1>1, <1>2, <1>4, <1>5 DEF RowMove, Same, Marked
<1>7. entries'[p].reversal = IF payments'[p].status = "refunded" THEN 1 ELSE 0
  BY <1>1, <1>2, <1>4, <1>5 DEF RowMove, Same, Marked
<1>8. payments'[p].escrow \in {"pending", "held", "frozen"} => entries'[p].release = 0
  BY <1>1, <1>2, <1>4, <1>5 DEF RowMove, Same, Marked
<1> QED BY <1>6, <1>7, <1>8

(* A prompt that was handed out stays that of its payment, and a paid one   *)
(* stays paid.                                                              *)
LEMMA PromptsStay ==
    ASSUME LedgerInv, [Next]_vars, NEW u \in Pushes, NEW p, PromptOf(u, p)
    PROVE  PromptOf(u, p)' /\ (pushes[u].result = "paid" => pushes'[u].result = "paid")
<1> HIDE DEF Payments
<1>0. pushes \in [Pushes -> Prompts]
  BY DEF LedgerInv, TypeOK
<1>1. CASE UNCHANGED pushes
  BY <1>1 DEF PromptOf
<1>2. ASSUME NEW s \in Requests, PushPrompt(s)
      PROVE PromptOf(u, p)' /\ (pushes[u].result = "paid" => pushes'[u].result = "paid")
  BY <1>0, <1>2 DEF PushPrompt, PromptOf
<1>3. ASSUME NEW v \in Pushes, NEW c \in {"paid", "declined"}, pushes[v].result = "asked",
             pushes' = [pushes EXCEPT ![v].result = c]
      PROVE PromptOf(u, p)' /\ (pushes[u].result = "paid" => pushes'[u].result = "paid")
  <2>1. CASE u = v
    BY <1>0, <1>3, <2>1 DEF PromptOf, Prompts
  <2>2. CASE u # v
    BY <1>0, <1>3, <2>2 DEF PromptOf
  <2> QED BY <2>1, <2>2
<1> QED BY <1>1, <1>2, <1>3, OtherWriters DEF AnswerPrompt

LEMMA CheckoutsStep ==
    ASSUME LedgerInv, [Next]_vars
    PROVE  CheckoutsTraced'
<1> HIDE DEF Payments
<1> SUFFICES ASSUME NEW p \in Payments, payments'[p].checkout # None
             PROVE  \E v \in Pushes : v = payments'[p].checkout /\ PromptOf(v, p)'
  BY DEF CheckoutsTraced, PromptOf
<1>1. RowMove(p)
  BY RowMoves
<1>2. CASE payments'[p].checkout = payments[p].checkout
  <2>1. payments[p] \in Rows
    BY DEF LedgerInv, TypeOK
  <2>2. PICK v \in Pushes : v = payments[p].checkout
    BY <1>2, <2>1 DEF Rows
  <2>3. PromptOf(v, p)
    BY <1>2, <2>2 DEF LedgerInv, CheckoutsTraced
  <2> QED BY <1>2, <2>2, <2>3, PromptsStay
<1>3. ASSUME NEW s \in Requests, At(s, "store"), task[s].payment = p, payments'[p].checkout = task[s].push
      PROVE  \E v \in Pushes : v = payments'[p].checkout /\ PromptOf(v, p)'
  <2>1. PICK v \in Pushes : v = task[s].push
    BY <1>3 DEF LedgerInv, TasksHold, ReadsHold, At
  <2>2. PromptOf(v, p)
    BY <1>3, <2>1 DEF LedgerInv, TasksHold, ReadsHold, At
  <2> QED BY <1>3, <2>1, <2>2, PromptsStay
<1> QED BY <1>1, <1>2, <1>3 DEF RowMove, Same, Marked

LEMMA FundedStep ==
    ASSUME LedgerInv, [Next]_vars
    PROVE  EscrowIsFunded'
<1> HIDE DEF Payments
<1> DEFINE Backed(p) == \E u \in processed : pushes[u].result = "paid" /\ pushes[u].payment = p
<1> SUFFICES ASSUME NEW p \in Payments
             PROVE  /\ entries'[p].hold = IF payments'[p].status \in {"completed", "refunded"} THEN 1 ELSE 0
                    /\ entries'[p].hold = 1 => Backed(p)'
  BY DEF EscrowIsFunded
<1>1. /\ entries[p].hold = IF payments[p].status \in {"completed", "refunded"} THEN 1 ELSE 0
      /\ entries[p].hold = 1 => Backed(p)
  BY DEF LedgerInv, EscrowIsFunded
<1>2. RowMove(p)
  BY RowMoves
<1>3. \A s \in Requests :
         /\ At(s, "settle") => payments[task[s].payment].status = "pending"
         /\ At(s, "reverse") => payments[task[s].payment].status = "completed"
  BY DEF LedgerInv, TasksHold, ReadsHold, At
<1>4. /\ payments[p].status \in {"none", "pending", "failed"} <=> payments[p].escrow = "pending"
      /\ payments[p].status = "refunded" => payments[p].escrow = "refunded"
  BY DEF LedgerInv, RowsAgree
<1>5. payments[p].status \in {"none", "pending", "completed", "failed", "refunded"}
  <2>1. payments[p] \in Rows
    BY DEF LedgerInv, TypeOK
  <2> QED BY <2>1 DEF Rows
<1>6. entries'[p].hold = IF payments'[p].status \in {"completed", "refunded"} THEN 1 ELSE 0
  <2> HIDE DEF Backed
  <2> QED BY <1>1, <1>2, <1>3, <1>4, <1>5 DEF RowMove, Same, Marked
<1>7. Backed(p) => Backed(p)'
  <2> SUFFICES ASSUME NEW u \in processed, pushes[u].result = "paid", pushes[u].payment = p
               PROVE  Backed(p)'
    OBVIOUS
  <2>1. u \in Pushes /\ PromptOf(u, p)
    BY DEF LedgerInv, TypeOK, PromptOf
  <2>2. pushes'[u].result = "paid" /\ pushes'[u].payment = p
    BY <2>1, PromptsStay DEF PromptOf
  <2>3. u \in processed'
    BY OtherWriters DEF SettlePaid
  <2> QED BY <2>2, <2>3
<1>8. ASSUME NEW s \in Requests, At(s, "settle"), task[s].payment = p,
             pushes[task[s].push].result = "paid", processed' = processed \cup {task[s].push}
      PROVE  Backed(p)'
  <2>1. PICK u \in Pushes : u = task[s].push
    BY <1>8 DEF LedgerInv, TasksHold, ReadsHold, At
  <2>2. PromptOf(u, p)
    BY <1>8, <2>1 DEF LedgerInv, TasksHold, ReadsHold, At
  <2> QED BY <1>8, <2>1, <2>2, PromptsStay DEF PromptOf
<1> HIDE DEF Backed
<1> QED BY <1>1, <1>2, <1>3, <1>4, <1>6, <1>7, <1>8 DEF RowMove, Same, Marked

(* What the locks on the row of jobs protect, and what no step undoes. *)
LEMMA JobStays ==
    ASSUME [Next]_vars, job \in Jobs, JobLocked
    PROVE  job'.stage = job.stage /\ job'.confirmed = job.confirmed /\ (disputed' => disputed)
<1>1. CASE UNCHANGED <<job, disputed>>
  BY <1>1
<1>2. ASSUME NEW s \in Requests, SettlePaid(s) \/ ConfirmCompletion(s) \/ Finalize(s) PROVE FALSE
  BY <1>2 DEF SettlePaid, ConfirmCompletion, Finalize
<1>3. ASSUME NEW s \in Requests, ReleaseEscrow(s)
      PROVE  job'.stage = job.stage /\ job'.confirmed = job.confirmed /\ (disputed' => disputed)
  BY <1>3 DEF ReleaseEscrow, Released, Jobs
<1>4. ASSUME NEW s \in Requests, Reverse(s) PROVE FALSE
  BY <1>4 DEF Reverse
<1>5. CASE ResolveDispute
  BY <1>5 DEF ResolveDispute, Jobs
<1>6. CASE MoveJob \/ OpenDispute \/ CompletePayout
  BY <1>6 DEF MoveJob, OpenDispute, CompletePayout
<1>7. ASSUME NEW s \in Requests, PaySettlement(s) PROVE UNCHANGED <<job, disputed>>
  BY <1>7 DEF PaySettlement
<1>8. CASE FreezeEscrow
  BY <1>8 DEF FreezeEscrow
<1> QED BY <1>1, <1>2, <1>3, <1>4, <1>5, <1>6, <1>7, <1>8, ProviderWriters, OtherWriters

LEMMA SettlementStays ==
    ASSUME [Next]_vars, provider \in Accounts, provider.settlement # "none"
    PROVE  provider'.settlement # "none"
<1>1. CASE UNCHANGED provider
  BY <1>1
<1>2. ASSUME NEW s \in Requests, ReleaseEscrow(s) PROVE provider'.settlement # "none"
  BY <1>2 DEF ReleaseEscrow, Released, Accounts
<1>3. ASSUME NEW s \in Requests, Reverse(s) PROVE provider'.settlement # "none"
  BY <1>3 DEF Reverse, Accounts
<1>4. ASSUME NEW s \in Requests, PaySettlement(s) PROVE provider'.settlement # "none"
  BY <1>4 DEF PaySettlement, Accounts
<1>5. CASE CompletePayout
  BY <1>5 DEF CompletePayout, Accounts
<1>6. CASE MoveJob \/ OpenDispute \/ ResolveDispute \/ FreezeEscrow
  BY <1>6 DEF MoveJob, OpenDispute, ResolveDispute, FreezeEscrow
<1>7. ASSUME NEW s \in Requests, SettlePaid(s) \/ ConfirmCompletion(s) \/ Finalize(s)
      PROVE  UNCHANGED provider
  BY <1>7 DEF SettlePaid, ConfirmCompletion, Finalize
<1> QED BY <1>1, <1>2, <1>3, <1>4, <1>5, <1>6, <1>7, ProviderWriters

(* A request that keeps the row of a payment keeps it as it found it. *)
LEMMA HeldRowStays ==
    ASSUME LedgerInv, [Next]_vars, NEW s \in Requests, HasRow(s), task'[s] = task[s]
    PROVE  payments'[task[s].payment].status = payments[task[s].payment].status
<1> HIDE DEF Payments
<1> DEFINE p == task[s].payment
<1>1. p \in Payments /\ payments[p].status \in {"pending", "completed"} /\ payments[p] \in Rows
  BY DEF LedgerInv, TypeOK, TasksHold, ReadsHold, HasRow
<1>2. RowMove(p)
  BY <1>1, RowMoves
<1>3. ASSUME NEW q \in Requests, task[q].payment = p, At(q, "settle") \/ At(q, "reverse"), Finish(q)
      PROVE  FALSE
  <2>1. q = s
    BY <1>3 DEF LedgerInv, LocksExclude, HasRow, At
  <2>2. task'[s].pc = "idle"
    BY <1>3, <2>1 DEF Finish, Become, Idle, LedgerInv, TypeOK
  <2> QED BY <2>2 DEF HasRow
<1>4. payments[p].escrow \in {"held", "frozen"} => payments[p].status = "completed"
  BY <1>1 DEF LedgerInv, RowsAgree
<1> HIDE DEF p
<1>5. payments'[p].status = payments[p].status
  BY <1>1, <1>2, <1>3, <1>4 DEF RowMove, Same, Marked
<1> QED BY <1>5 DEF p

LEMMA ReadsStayHeld ==
    ASSUME LedgerInv, [Next]_vars, NEW s \in Requests, task'[s] = task[s]
    PROVE  ReadsHold(s)'
<1> HIDE DEF Payments
<1>1. ReadsHold(s)
  BY DEF LedgerInv, TasksHold
<1>2. task[s].pc \in {"store", "settle"} => PromptOf(task[s].push, task[s].payment)'
  <2> SUFFICES ASSUME task[s].pc \in {"store", "settle"} PROVE PromptOf(task[s].push, task[s].payment)'
    OBVIOUS
  <2>1. PICK u \in Pushes : u = task[s].push
    BY <1>1 DEF ReadsHold
  <2>2. PICK p \in Payments : p = task[s].payment
    BY <1>1 DEF ReadsHold
  <2>3. PromptOf(u, p)'
    BY <1>1, <2>1, <2>2, PromptsStay DEF ReadsHold
  <2> QED BY <2>1, <2>2, <2>3 DEF PromptOf
<1>3. HasRow(s) => payments'[task[s].payment].status = payments[task[s].payment].status
  BY HeldRowStays
<1>4. task[s].pc = "escrow" => job'.stage = "completed" /\ job'.confirmed /\ ~ disputed'
  BY <1>1, JobStays DEF ReadsHold, JobLocked, At, LedgerInv, TypeOK
<1>5. task[s].owed \/ task[s].pc = "payCompany" => provider'.settlement # "none"
  BY <1>1, SettlementStays DEF ReadsHold, LedgerInv, TypeOK
<1> QED BY <1>1, <1>2, <1>3, <1>4, <1>5 DEF ReadsHold, HasRow, PromptOf

LEMMA TasksStep ==
    ASSUME LedgerInv, [Next]_vars
    PROVE  TasksHold'
<1> HIDE DEF Payments
<1>1. \A q \in Requests : task'[q] = task[q] => ReadsHold(q)'
  BY ReadsStayHeld
<1>2. ASSUME NEW s \in Requests, TaskMove(s) PROVE ReadsHold(s)'
  <2>1. ReadsHold(s)
    BY DEF LedgerInv, TasksHold
  <2>2. task[s].owed => provider'.settlement # "none"
    BY <2>1, SettlementStays DEF ReadsHold, LedgerInv, TypeOK
  <2>3. task'[s] \in Tasks
    BY TypeStep DEF TypeOK
  <2>4. task'[s].pc \in {"idle", "release", "finalize"} /\ ~ task'[s].owed => ReadsHold(s)'
    BY DEF ReadsHold
  <2>5. task'[s].pc \in {"push", "insert"} /\ task'[s].payment \in Payments /\ ~ task'[s].owed => ReadsHold(s)'
    BY DEF ReadsHold
  <2>6. CASE task'[s].pc = "store"
    <3>1. /\ At(s, "push") /\ task'[s].owed = task[s].owed
          /\ task'[s].payment = task[s].payment /\ task'[s].push \in Pushes
          /\ pushes'[task'[s].push].result # "none" /\ pushes'[task'[s].push].payment = task'[s].payment
      BY <1>2, <2>6 DEF TaskMove
    <3> QED BY <2>1, <2>2, <2>6, <3>1 DEF ReadsHold, PromptOf, At
  <2>7. CASE task'[s].pc = "callback"
    BY <1>2, <2>7 DEF TaskMove, ReadsHold
  <2>8. CASE task'[s].pc = "settle"
    <3>1. /\ At(s, "callback") /\ task'[s].owed = task[s].owed /\ task'[s].push = task[s].push
          /\ task'[s].payment \in Payments /\ payments[task'[s].payment].checkout = task'[s].push
          /\ payments[task'[s].payment].status = "pending" /\ UNCHANGED <<payments, pushes>>
      BY <1>2, <2>8 DEF TaskMove
    <3>2. task'[s].push \in Pushes
      BY <2>1, <3>1 DEF ReadsHold, At
    <3>3. PromptOf(payments[task'[s].payment].checkout, task'[s].payment)
      BY <3>1, <3>2 DEF LedgerInv, CheckoutsTraced
    <3> QED BY <2>2, <2>8, <3>1, <3>2, <3>3 DEF ReadsHold, PromptOf
  <2>9. CASE task'[s].pc = "escrow"
    BY <1>2, <2>2, <2>9 DEF TaskMove, ReadsHold
  <2>10. CASE task'[s].pc = "payCompany"
    BY <1>2, <2>10 DEF TaskMove, ReadsHold
  <2>11. CASE task'[s].pc = "reverse"
    BY <1>2, <2>11 DEF TaskMove, ReadsHold
  <2> QED BY <1>2, <2>4, <2>5, <2>6, <2>7, <2>8, <2>9, <2>10, <2>11 DEF TaskMove
<1> QED BY <1>1, <1>2, TaskMoves DEF LedgerInv, TypeOK, TasksHold

LEMMA LocksStep ==
    ASSUME LedgerInv, [Next]_vars
    PROVE  LocksExclude'
<1> HIDE DEF Payments
<1>1. LocksExclude /\ task \in [Requests -> Tasks] /\ pushes \in [Pushes -> Prompts]
  BY DEF LedgerInv, TypeOK
<1>2. CASE UNCHANGED task
  BY <1>1, <1>2 DEF LocksExclude, HasRow
<1>3. ASSUME NEW s \in Requests, TaskMove(s), \A q \in Requests \ {s} : task'[q] = task[q]
      PROVE  LocksExclude'
  <2>1. ASSUME task'[s].pc \in {"settle", "reverse"}, NEW q \in Requests \ {s}, HasRow(q)
        PROVE  task[q].payment # task'[s].payment
    <3>1. ~ RowLocked(task'[s].payment)
      BY <1>3, <2>1 DEF TaskMove
    <3> QED BY <2>1, <3>1 DEF RowLocked, HasRow
  <2> QED BY <1>1, <1>3, <2>1 DEF LocksExclude, HasRow
<1> QED BY <1>1, <1>2, <1>3, TaskMoves

ReleasedOnes == {p \in Payments : entries[p].release = 1}

(* The steps other than a release leave the two sides of the account alone. *)
LEMMA AccountKept ==
    ASSUME PaidOncePerRelease, job'.company = job.company, ReleasedOnes' = ReleasedOnes,
           provider'.credits = provider.credits,
           provider'.settlement = "none" <=> provider.settlement = "none"
    PROVE  PaidOncePerRelease'
BY DEF PaidOncePerRelease, ReleasedOnes

LEMMA PaidStep ==
    ASSUME LedgerInv, [Next]_vars
    PROVE  PaidOncePerRelease'
<1> HIDE DEF Payments
<1>0. /\ PaidOncePerRelease /\ job \in Jobs /\ provider \in Accounts
      /\ payments \in [Payments -> Rows] /\ entries \in [Payments -> Entry]
      /\ \A s \in Requests : task[s].pc \in {"settle", "reverse"} => task[s].payment \in Payments
  BY DEF LedgerInv, TypeOK, Entry, TasksHold, ReadsHold
<1>1. CASE UNCHANGED <<provider, entries, job>>
  BY <1>0, <1>1, AccountKept DEF ReleasedOnes
<1>2. ASSUME NEW s \in Requests, CreatePayment(s) \/ StoreCheckout(s) \/ SettleDeclined(s)
      PROVE  UNCHANGED <<provider, entries, job>>
  BY <1>2 DEF CreatePayment, StoreCheckout, SettleDeclined
<1>3. ASSUME NEW s \in Requests, SettlePaid(s) PROVE PaidOncePerRelease'
  <2>1. \A p \in Payments : entries'[p].release = entries[p].release
    BY <1>0, <1>3 DEF SettlePaid, Entry
  <2>2. ReleasedOnes' = ReleasedOnes
    BY <2>1 DEF ReleasedOnes
  <2>3. job'.company = job.company /\ UNCHANGED provider
    BY <1>0, <1>3 DEF SettlePaid, Jobs
  <2> QED BY <1>0, <2>2, <2>3, AccountKept
<1>4. ASSUME NEW s \in Requests, ConfirmCompletion(s) \/ Finalize(s) PROVE PaidOncePerRelease'
  <2>1. job'.company = job.company /\ UNCHANGED <<provider, entries>>
    BY <1>0, <1>4 DEF ConfirmCompletion, Finalize, Jobs
  <2> QED BY <1>0, <2>1, AccountKept DEF ReleasedOnes
<1>5. ASSUME NEW s \in Requests, Reverse(s) PROVE PaidOncePerRelease'
  <2>1. \A p \in Payments : entries'[p].release = entries[p].release
    BY <1>0, <1>5 DEF Reverse, Entry
  <2>2. ReleasedOnes' = ReleasedOnes
    BY <2>1 DEF ReleasedOnes
  <2>3. job'.company = job.company
    BY <1>0, <1>5 DEF Reverse, Jobs
  <2>4. provider'.credits = provider.credits
    BY <1>0, <1>5 DEF Reverse, Accounts
  <2>5. task[s].owed => provider.settlement # "none"
    BY DEF LedgerInv, TasksHold, ReadsHold
  <2>6. provider'.settlement = IF task[s].owed THEN "cancelled" ELSE provider.settlement
    BY <1>0, <1>5 DEF Reverse, Accounts
  <2> QED BY <1>0, <2>2, <2>3, <2>4, <2>5, <2>6, AccountKept
<1>6. ASSUME NEW s \in Requests, PaySettlement(s) PROVE PaidOncePerRelease'
  <2>1. UNCHANGED <<entries, job>> /\ provider' = [provider EXCEPT !.settlement = "paid"]
    BY <1>6 DEF PaySettlement
  <2>2. provider'.credits = provider.credits /\ provider'.settlement = "paid"
    BY <1>0, <2>1 DEF Accounts
  <2>3. provider.settlement # "none"
    BY <1>6 DEF PaySettlement, At, LedgerInv, TasksHold, ReadsHold
  <2> QED BY <1>0, <2>1, <2>2, <2>3, AccountKept DEF ReleasedOnes
<1>7. CASE MoveJob \/ OpenDispute \/ FreezeEscrow
  <2>1. job'.company = job.company /\ UNCHANGED <<provider, entries>>
    BY <1>0, <1>7 DEF MoveJob, OpenDispute, FreezeEscrow, Jobs
  <2> QED BY <1>0, <2>1, AccountKept DEF ReleasedOnes
<1>8. CASE ResolveDispute
  <2>1. \A p \in Payments : entries'[p].release = entries[p].release
    <3>1. UNCHANGED entries \/ \E q \in Payments : entries' = [entries EXCEPT ![q].refund = @ + 1]
      BY <1>8 DEF ResolveDispute, InEscrow
    <3>2. ASSUME NEW q \in Payments, entries' = [entries EXCEPT ![q].refund = @ + 1]
          PROVE  \A p \in Payments : entries'[p].release = entries[p].release
      BY <1>0, <3>2 DEF Entry
    <3> QED BY <3>1, <3>2
  <2>2. ReleasedOnes' = ReleasedOnes
    BY <2>1 DEF ReleasedOnes
  <2>3. job'.company = job.company /\ UNCHANGED provider
    BY <1>0, <1>8 DEF ResolveDispute, Jobs
  <2> QED BY <1>0, <2>2, <2>3, AccountKept
<1>9. CASE CompletePayout
  <2>1. job'.company = job.company /\ UNCHANGED entries
    BY <1>0, <1>9 DEF CompletePayout, Jobs
  <2>2. provider'.credits = provider.credits /\ provider'.settlement = provider.settlement
    BY <1>0, <1>9 DEF CompletePayout, Accounts
  <2> QED BY <1>0, <2>1, <2>2, AccountKept DEF ReleasedOnes
<1>10. ASSUME NEW s \in Requests, ReleaseEscrow(s) PROVE PaidOncePerRelease'
  <2>1. CASE UNCHANGED <<job, payments, entries, provider>>
    BY <1>1, <2>1
  <2>2. ASSUME NEW p \in Held, Released(p) PROVE PaidOncePerRelease'
    <3>1. p \in Payments /\ entries[p].release = 0
      BY <2>2 DEF Held, LedgerInv, RowsAgree
    <3>2. \A q \in Payments : entries'[q].release = IF q = p THEN 1 ELSE entries[q].release
      BY <1>0, <2>2, <3>1 DEF Released, Entry
    <3>3. ReleasedOnes' = ReleasedOnes \cup {p} /\ p \notin ReleasedOnes
      BY <3>1, <3>2 DEF ReleasedOnes
    <3>4. IsFiniteSet(ReleasedOnes)
      <4>1. IsFiniteSet(1 .. MaxPayments)
        BY FS_Interval DEF LedgerAssumption
      <4>2. ReleasedOnes \subseteq 1 .. MaxPayments
        BY DEF ReleasedOnes, Payments
      <4> QED BY <4>1, <4>2, FS_Subset
    <3>5. /\ Cardinality(ReleasedOnes') = Cardinality(ReleasedOnes) + 1
          /\ ReleasedOnes' # {}
      BY <3>3, <3>4, FS_AddElement
    <3>6. job'.company = job.company
      BY <1>0, <2>2 DEF Released, Jobs
    <3>7. CASE job.company
      <4>1. /\ provider'.credits = provider.credits
            /\ provider'.settlement = IF provider.settlement = "none" THEN "pending" ELSE provider.settlement
        BY <1>0, <2>2, <3>7 DEF Released, Accounts
      <4>2. provider.credits = 0
        BY <1>0, <3>7 DEF PaidOncePerRelease
      <4> QED BY <3>5, <3>6, <3>7, <4>1, <4>2 DEF PaidOncePerRelease, ReleasedOnes
    <3>8. CASE ~ job.company
      <4>1. provider'.credits = provider.credits + 1 /\ provider'.settlement = provider.settlement
        BY <1>0, <2>2, <3>8 DEF Released, Accounts
      <4>2. provider.credits = Cardinality(ReleasedOnes) /\ provider.settlement = "none"
        BY <1>0, <3>8 DEF PaidOncePerRelease, ReleasedOnes
      <4>3. provider'.credits = Cardinality(ReleasedOnes')
        BY <3>5, <4>1, <4>2
      <4> QED BY <3>6, <3>8, <4>1, <4>2, <4>3 DEF PaidOncePerRelease, ReleasedOnes
    <3> QED BY <3>7, <3>8
  <2> QED BY <1>10, <2>1, <2>2 DEF ReleaseEscrow
<1> QED
  BY <1>1, <1>2, <1>3, <1>4, <1>5, <1>6, <1>7, <1>8, <1>9, <1>10, ProviderWriters

LEMMA InitLedger == Init => LedgerInv
<1> HIDE DEF Payments
<1> SUFFICES ASSUME Init PROVE LedgerInv
  OBVIOUS
<1>1. TypeOK
  <2>1. job \in Jobs
    BY DEF Init, Jobs
  <2>2. payments \in [Payments -> Rows]
    BY DEF Init, Rows
  <2>3. pushes \in [Pushes -> Prompts]
    BY DEF Init, Prompts
  <2>4. provider \in Accounts
    BY DEF Init, Accounts
  <2>5. task \in [Requests -> Tasks]
    BY IdleType DEF Init
  <2> QED BY <2>1, <2>2, <2>3, <2>4, <2>5 DEF Init, TypeOK
<1>2. RowsAgree /\ EscrowIsFunded /\ CheckoutsTraced
  BY DEF Init, RowsAgree, EscrowIsFunded, CheckoutsTraced
<1>3. TasksHold /\ LocksExclude
  BY DEF Init, TasksHold, ReadsHold, LocksExclude, HasRow, Idle
<1>4. PaidOncePerRelease
  <2>1. {p \in Payments : entries[p].release = 1} = {} /\ provider.credits = 0 /\ provider.settlement = "none"
    BY DEF Init
  <2> QED BY <2>1, FS_EmptySet DEF PaidOncePerRelease
<1> QED BY <1>1, <1>2, <1>3, <1>4 DEF LedgerInv

LEMMA LedgerStep ==
    ASSUME LedgerInv, [Next]_vars
    PROVE  LedgerInv'
BY TypeStep, RowsStep, FundedStep, CheckoutsStep, TasksStep, LocksStep, PaidStep DEF LedgerInv

LEMMA LedgerAlways == Spec => []LedgerInv
BY InitLedger, LedgerStep, PTL DEF Spec

(* The rows keep their types: the wallet is never debited below zero and a  *)
(* payment is reversed at most once, however releases, callbacks and        *)
(* reversals meet (refundReversalService, settlementService, paymentController). *)
THEOREM LedgerTyped == Spec => []TypeOK
BY LedgerAlways, PTL DEF LedgerInv

(* Every payment in escrow was paid by the customer through a prompt of its *)
(* own (paymentController.webhook).                                         *)
THEOREM EscrowFunded == Spec => []EscrowIsFunded
BY LedgerAlways, PTL DEF LedgerInv

(* The provider is credited once for each released payment                  *)
(* (settlementService.releaseJobEscrow), for any number of requests.        *)
THEOREM ProviderPaidOnce == Spec => []PaidOncePerRelease
BY LedgerAlways, PTL DEF LedgerInv

-----------------------------------------------------------------------------
(* The ledger implements EscrowPromise *)

places == [p \in Payments |-> Place(p)]

LEMMA PlaceIs ==
    ASSUME NEW p \in Payments, RowsAgree
    PROVE  /\ payments[p].status = "none" => Place(p) = "none"
           /\ payments[p].status = "pending" => Place(p) = "asked"
           /\ payments[p].status = "failed" => Place(p) = "failed"
           /\ payments[p].status \in {"completed", "refunded"} =>
                 /\ payments[p].escrow \in {"held", "frozen"} => Place(p) = "escrow"
                 /\ payments[p].escrow = "released" => Place(p) = "provider"
                 /\ payments[p].escrow \in {"pending", "refunded"} => Place(p) = "customer"
<1> HIDE DEF Payments
<1>0. payments[p].status \in {"none", "pending", "failed"} => payments[p].escrow = "pending"
  BY DEF RowsAgree
<1>1. payments[p].status = "none" => Place(p) = "none"
  BY <1>0 DEF Place
<1>2. payments[p].status = "pending" => Place(p) = "asked"
  BY <1>0 DEF Place
<1>3. payments[p].status = "failed" => Place(p) = "failed"
  BY <1>0 DEF Place
<1>4. payments[p].status \in {"completed", "refunded"} /\ payments[p].escrow \in {"held", "frozen"}
        => Place(p) = "escrow"
  BY DEF Place
<1>5. payments[p].status \in {"completed", "refunded"} /\ payments[p].escrow = "released"
        => Place(p) = "provider"
  BY DEF Place
<1>6. payments[p].status \in {"completed", "refunded"} /\ payments[p].escrow \in {"pending", "refunded"}
        => Place(p) = "customer"
  BY DEF Place
<1> QED BY <1>1, <1>2, <1>3, <1>4, <1>5, <1>6

LEMMA PlaceKept ==
    ASSUME NEW p \in Payments, payments'[p].status = payments[p].status,
           payments'[p].escrow = payments[p].escrow
    PROVE  Place(p)' = Place(p)
BY DEF Place

LEMMA PlaceMoved ==
    ASSUME NEW p \in Payments, NEW to, Place(p)' = to,
           \A q \in Payments \ {p} : payments'[q] = payments[q]
    PROVE  places' = [places EXCEPT ![p] = to]
<1>1. \A q \in Payments \ {p} : Place(q)' = Place(q)
  BY PlaceKept
<1> QED BY <1>1 DEF places

LEMMA PromiseStep ==
    ASSUME LedgerInv, [Next]_vars
    PROVE  [Promise!Next]_(Promise!vars)
<1> HIDE DEF Payments
<1> DEFINE Stutter == places' = places /\ job'.confirmed = job.confirmed /\ disputed' = disputed
<1>0. /\ payments \in [Payments -> Rows] /\ payments' \in [Payments -> Rows]
      /\ RowsAgree /\ RowsAgree'
      /\ job \in Jobs /\ disputed \in BOOLEAN /\ task \in [Requests -> Tasks]
      /\ \A s \in Requests : ReadsHold(s)
      /\ \A p \in Payments : payments[p].escrow \in {"held", "frozen"} => payments[p].status = "completed"
  <2>1. \A p \in Payments : payments[p] \in Rows
    BY DEF LedgerInv, TypeOK
  <2>2. \A p \in Payments : payments[p].escrow \in {"held", "frozen"} => payments[p].status = "completed"
    BY <2>1 DEF LedgerInv, RowsAgree, Rows
  <2> QED BY <2>2, TypeStep, RowsStep DEF LedgerInv, TypeOK, TasksHold
<1>1. Stutter => [Promise!Next]_(Promise!vars)
  BY DEF places, Promise!vars
<1>2. CASE UNCHANGED <<payments, disputed, job>>
  <2>1. places' = places
    BY <1>2, PlaceKept DEF places
  <2> QED BY <1>1, <1>2, <2>1
<1>3. ASSUME NEW s \in Requests, CreatePayment(s) PROVE [Promise!Next]_(Promise!vars)
  <2>1. PICK p \in Payments : payments[p].status = "none" /\ payments' = [payments EXCEPT ![p].status = "pending"]
    BY <1>3 DEF CreatePayment
  <2>2. payments'[p].status = "pending" /\ \A q \in Payments \ {p} : payments'[q] = payments[q]
    BY <1>0, <2>1 DEF Rows
  <2>3. places[p] = "none" /\ Place(p)' = "asked"
    BY <1>0, <2>1, <2>2, PlaceIs DEF places, Place
  <2>4. places' = [places EXCEPT ![p] = "asked"]
    BY <2>2, <2>3, PlaceMoved
  <2> QED BY <1>3, <2>3, <2>4 DEF CreatePayment, places, Promise!Next, Promise!Request, Promise!Move
<1>4. ASSUME NEW s \in Requests, StoreCheckout(s) PROVE [Promise!Next]_(Promise!vars)
  <2>1. task[s].payment \in Payments
    BY <1>0, <1>4 DEF StoreCheckout, ReadsHold, At
  <2>2. \A p \in Payments : payments'[p].status = payments[p].status /\ payments'[p].escrow = payments[p].escrow
    BY <1>0, <1>4, <2>1 DEF StoreCheckout, Rows
  <2> QED BY <1>1, <1>4, <2>2, PlaceKept DEF StoreCheckout, places
<1>5. ASSUME NEW s \in Requests, SettlePaid(s) PROVE [Promise!Next]_(Promise!vars)
  <2>1. PICK p \in Payments : p = task[s].payment /\ payments[p].status = "pending"
    BY <1>0, <1>5 DEF SettlePaid, ReadsHold, At
  <2>2. /\ payments'[p].status = "completed" /\ payments'[p].escrow = "held"
        /\ \A q \in Payments \ {p} : payments'[q] = payments[q]
    BY <1>0, <1>5, <2>1 DEF SettlePaid, Rows
  <2>4. job'.confirmed = job.confirmed /\ UNCHANGED disputed
    BY <1>0, <1>5 DEF SettlePaid, Jobs
  <2>3. places[p] = "asked" /\ Place(p)' = "escrow"
    BY <1>0, <2>1, <2>2, PlaceIs DEF places, Place
  <2>5. places' = [places EXCEPT ![p] = "escrow"]
    BY <2>1, <2>2, <2>3, PlaceMoved
  <2> QED BY <2>1, <2>3, <2>4, <2>5 DEF places, Promise!Next, Promise!Hold, Promise!Move
<1>6. ASSUME NEW s \in Requests, SettleDeclined(s) PROVE [Promise!Next]_(Promise!vars)
  <2>1. PICK p \in Payments : p = task[s].payment /\ payments[p].status = "pending"
    BY <1>0, <1>6 DEF SettleDeclined, ReadsHold, At
  <2>2. /\ payments'[p].status = "failed"
        /\ \A q \in Payments \ {p} : payments'[q] = payments[q]
    BY <1>0, <1>6, <2>1 DEF SettleDeclined, Rows
  <2>4. UNCHANGED <<job, disputed>>
    BY <1>6 DEF SettleDeclined
  <2>3. places[p] = "asked" /\ Place(p)' = "failed"
    <3>1. Place(p)' = "failed"
      BY <1>0, <2>1, <2>2 DEF Place, RowsAgree
    <3> QED BY <1>0, <2>1, <3>1, PlaceIs DEF places
  <2>5. places' = [places EXCEPT ![p] = "failed"]
    BY <2>1, <2>2, <2>3, PlaceMoved
  <2> QED BY <2>1, <2>3, <2>4, <2>5 DEF places, Promise!Next, Promise!Decline, Promise!Move
<1>7. ASSUME NEW s \in Requests, ReleaseEscrow(s) PROVE [Promise!Next]_(Promise!vars)
  <2>1. ASSUME NEW p \in Held, Released(p) PROVE [Promise!Next]_(Promise!vars)
    <3>1. p \in Payments /\ payments[p].status = "completed" /\ payments[p].escrow = "held"
      BY <1>0, <2>1 DEF Held
    <3>2. /\ payments'[p].status = "completed" /\ payments'[p].escrow = "released"
          /\ \A q \in Payments \ {p} : payments'[q] = payments[q]
      BY <1>0, <2>1, <3>1 DEF Released, Rows
    <3>3. places[p] = "escrow" /\ Place(p)' = "provider"
      BY <1>0, <3>1, <3>2, PlaceIs DEF places, Place
    <3>4. places' = [places EXCEPT ![p] = "provider"]
      BY <3>1, <3>2, <3>3, PlaceMoved
    <3>5. job.confirmed /\ ~ disputed /\ job'.confirmed = job.confirmed /\ UNCHANGED disputed
      BY <1>0, <1>7, <2>1 DEF ReleaseEscrow, Released, ReadsHold, At, Jobs
    <3> QED BY <3>1, <3>3, <3>4, <3>5 DEF places, Promise!Next, Promise!Release, Promise!Move
  <2> QED BY <1>2, <1>7, <2>1 DEF ReleaseEscrow
<1>8. ASSUME NEW s \in Requests, Reverse(s) PROVE [Promise!Next]_(Promise!vars)
  <2>1. PICK p \in Payments : p = task[s].payment /\ payments[p].status = "completed"
    BY <1>0, <1>8 DEF Reverse, ReadsHold, At
  <2>2. /\ payments'[p].status = "refunded" /\ payments'[p].escrow = "refunded"
        /\ \A q \in Payments \ {p} : payments'[q] = payments[q]
    BY <1>0, <1>8, <2>1 DEF Reverse, Rows
  <2>3. job'.confirmed = job.confirmed /\ UNCHANGED disputed
    BY <1>0, <1>8 DEF Reverse, Jobs
  <2>4. Place(p)' = "customer"
    BY <1>0, <2>1, <2>2 DEF Place
  <2>5. places' = [places EXCEPT ![p] = "customer"]
    BY <2>1, <2>2, <2>4, PlaceMoved
  <2>6. places[p] \in {"escrow", "provider", "customer"}
    <3>1. payments[p].escrow \in {"pending", "held", "frozen", "released", "refunded"}
      BY <1>0, <2>1 DEF Rows
    <3> QED BY <1>0, <2>1, <3>1, PlaceIs DEF places
  <2>7. CASE places[p] = "escrow"
    BY <2>1, <2>3, <2>5, <2>7 DEF places, Promise!Next, Promise!Refund
  <2>8. CASE places[p] = "provider"
    BY <2>1, <2>3, <2>5, <2>8 DEF places, Promise!Next, Promise!TakeBack, Promise!Move
  <2>9. CASE places[p] = "customer"
    <3>1. places' = places
      BY <2>1, <2>5, <2>9 DEF places
    <3> QED BY <1>1, <2>3, <3>1
  <2> QED BY <2>6, <2>7, <2>8, <2>9
<1>9. ASSUME NEW s \in Requests, ConfirmCompletion(s) PROVE [Promise!Next]_(Promise!vars)
  <2>1. places' = places
    BY <1>9, PlaceKept DEF ConfirmCompletion, places
  <2>2. job'.confirmed = TRUE /\ UNCHANGED disputed
    BY <1>0, <1>9 DEF ConfirmCompletion, Jobs
  <2> QED BY <2>1, <2>2 DEF places, Promise!Next, Promise!Confirm
<1>10. ASSUME NEW s \in Requests, Finalize(s) \/ PaySettlement(s) PROVE [Promise!Next]_(Promise!vars)
  <2>1. places' = places
    BY <1>10, PlaceKept DEF Finalize, PaySettlement, places
  <2>2. job'.confirmed = job.confirmed /\ UNCHANGED disputed
    BY <1>0, <1>10 DEF Finalize, PaySettlement, Jobs
  <2> QED BY <1>1, <2>1, <2>2
<1>11. CASE MoveJob \/ CompletePayout
  <2>1. places' = places
    BY <1>11, PlaceKept DEF MoveJob, CompletePayout, places
  <2>2. job'.confirmed = job.confirmed /\ UNCHANGED disputed
    BY <1>0, <1>11 DEF MoveJob, CompletePayout, Jobs
  <2> QED BY <1>1, <2>1, <2>2
<1>12. CASE OpenDispute \/ FreezeEscrow
  <2>1. payments' = Frozen(Held)
    BY <1>12 DEF OpenDispute, FreezeEscrow
  <2>2. ASSUME NEW p \in Payments PROVE Place(p)' = Place(p)
    <3>1. CASE p \in Held
      <4>1. payments[p].status = "completed" /\ payments[p].escrow = "held"
        BY <1>0, <3>1 DEF Held
      <4>2. payments'[p].status = "completed" /\ payments'[p].escrow = "frozen"
        BY <1>0, <2>1, <3>1, <4>1 DEF Frozen, Rows
      <4> QED BY <4>1, <4>2 DEF Place
    <3>2. CASE p \notin Held
      BY <2>1, <3>2, PlaceKept DEF Frozen
    <3> QED BY <3>1, <3>2
  <2>3. places' = places
    BY <2>2 DEF places
  <2>4. CASE FreezeEscrow
    BY <1>1, <2>3, <2>4 DEF FreezeEscrow
  <2>5. CASE OpenDispute
    BY <2>3, <2>5 DEF OpenDispute, places, Promise!Next, Promise!Dispute
  <2> QED BY <1>12, <2>4, <2>5
<1>13. CASE ResolveDispute
  <2>0. disputed' = ~ disputed
    BY <1>0, <1>13 DEF ResolveDispute
  <2>1. ASSUME places' = places, UNCHANGED job PROVE [Promise!Next]_(Promise!vars)
    BY <2>0, <2>1 DEF places, Promise!Next, Promise!Dispute
  <2>2. ASSUME NEW p \in InEscrow, payments' = [payments EXCEPT ![p].escrow = "refunded"],
               job' = [job EXCEPT !.pay = "failed"]
        PROVE  [Promise!Next]_(Promise!vars)
    <3>1. p \in Payments /\ payments[p].status = "completed" /\ payments[p].escrow \in {"held", "frozen"}
      BY <1>0, <2>2 DEF InEscrow
    <3>2. /\ payments'[p].status = "completed" /\ payments'[p].escrow = "refunded"
          /\ \A q \in Payments \ {p} : payments'[q] = payments[q]
      BY <1>0, <2>2, <3>1 DEF Rows
    <3>3. places[p] = "escrow" /\ Place(p)' = "customer"
      BY <1>0, <3>1, <3>2, PlaceIs DEF places, Place
    <3>4. places' = [places EXCEPT ![p] = "customer"]
      BY <3>1, <3>2, <3>3, PlaceMoved
    <3>5. job'.confirmed = job.confirmed /\ disputed' = FALSE
      BY <1>0, <1>13, <2>2 DEF ResolveDispute, Jobs
    <3> QED BY <3>1, <3>3, <3>4, <3>5 DEF places, Promise!Next, Promise!Refund
  <2>3. ASSUME NEW p \in InEscrow, payments' = [payments EXCEPT ![p].escrow = "held"], UNCHANGED job
        PROVE  [Promise!Next]_(Promise!vars)
    <3>1. p \in Payments /\ payments[p].status = "completed" /\ payments[p].escrow \in {"held", "frozen"}
      BY <1>0, <2>3 DEF InEscrow
    <3>2. /\ payments'[p].status = "completed" /\ payments'[p].escrow = "held"
          /\ \A q \in Payments \ {p} : payments'[q] = payments[q]
      BY <1>0, <2>3, <3>1 DEF Rows
    <3>3. Place(p)' = Place(p)
      BY <3>1, <3>2 DEF Place
    <3>4. places' = places
      BY <3>2, <3>3, PlaceKept DEF places
    <3> QED BY <1>13, <2>1, <2>3, <3>4 DEF ResolveDispute
  <2>4. CASE UNCHANGED <<payments, job>>
    <3>1. places' = places
      BY <2>4, PlaceKept DEF places
    <3> QED BY <1>13, <2>1, <2>4, <3>1 DEF ResolveDispute
  <2> QED BY <1>13, <2>2, <2>3, <2>4 DEF ResolveDispute
<1> QED
  BY <1>2, <1>3, <1>4, <1>5, <1>6, <1>7, <1>8, <1>9, <1>10, <1>11, <1>12, <1>13, StepKinds

(* The ledger keeps the promise of EscrowPromise: money leaves escrow for   *)
(* the provider only after the customer's confirmation and with no dispute  *)
(* open, though a release checks both before it has the payment, and a      *)
(* refunded payment never moves again (releaseJobEscrow, resolveDispute,    *)
(* executeRefundReversal).                                                  *)
THEOREM LedgerKeepsPromise == Spec => KeepsPromise
<1>1. Init => Promise!Init
  BY DEF Init, Promise!Init, Place
<1> QED BY <1>1, LedgerAlways, PromiseStep, PTL DEF Spec, KeepsPromise, Promise!Spec

=============================================================================
