--------------------------- MODULE CompanyPayouts ---------------------------
(***************************************************************************)
(* How a company is paid (companyPayoutService.js): released jobs leave    *)
(* settlements, the company withdraws against them, and the staff complete *)
(* the withdrawal (payoutController.js), which pays settlements off.       *)
(*                                                                         *)
(* A transaction takes a step where it reads what it decides by and a step *)
(* where it commits; other transactions come in between unless a row lock  *)
(* keeps them out.                                                         *)
(***************************************************************************)
EXTENDS Naturals, Functions

CONSTANTS
    Amounts,         \* amounts of money
    MaxSettlements,  \* bound: company jobs released
    MaxPayouts,      \* bound: rows of payouts
    Askers,          \* withdrawals handled at a time
    Clerks,          \* completions handled at a time
    None

Settlements == 1 .. MaxSettlements   \* in the order of created_at
Payouts == 1 .. MaxPayouts

VARIABLES
    settlements,  \* company_settlements
    payouts,      \* payouts of the company
    asker,        \* the amount requestCompanyWithdrawal found covered, before its commit
    clerk,        \* completePayout's payout and the settlements it pays, before its commit
    overlap       \* history: two completions read before either committed

vars == <<settlements, payouts, asker, clerk, overlap>>

Init ==
    /\ settlements = [s \in Settlements |-> [status |-> "none", net |-> 0]]
    /\ payouts = [p \in Payouts |-> [status |-> "none", amount |-> 0]]
    /\ asker = [a \in Askers |-> None]
    /\ clerk = [c \in Clerks |-> None]
    /\ overlap = FALSE

Net(ss) == SumFunctionOnSet([s \in Settlements |-> settlements[s].net], ss)

SettlementsIn(statuses) == Net({s \in Settlements : settlements[s].status \in statuses})

PayoutsIn(statuses) ==
    SumFunctionOnSet([p \in Payouts |-> payouts[p].amount],
                     {p \in Payouts : payouts[p].status \in statuses})

(* The next row of a table. *)
NextRow(rows, table) ==
    {n \in rows : table[n].status = "none" /\ \A m \in rows : m < n => table[m].status # "none"}

-----------------------------------------------------------------------------
(* A job's escrow is released to the company. *)
releaseJobEscrow ==
    \E s \in NextRow(Settlements, settlements), v \in Amounts :
        /\ settlements' = [settlements EXCEPT ![s] = [status |-> "pending", net |-> v]]
        /\ UNCHANGED <<payouts, asker, clerk, overlap>>

(* A refund voids the job's settlement while it is pending. *)
executeRefundReversal ==
    \E s \in Settlements :
        /\ settlements[s].status = "pending"
        /\ settlements' = [settlements EXCEPT ![s].status = "cancelled"]
        /\ UNCHANGED <<payouts, asker, clerk, overlap>>

(* Mutant: the company's row is not locked. *)
CheckBalanceUnlocked(a) ==
    /\ asker[a] = None
    /\ \E v \in Amounts :
          /\ v + PayoutsIn({"requested"}) <= SettlementsIn({"pending"})
          /\ asker' = [asker EXCEPT ![a] = v]
    /\ UNCHANGED <<settlements, payouts, clerk, overlap>>

(* The company's row is locked, and its balance covers the amount. *)
CheckBalance(a) ==
    /\ \A b \in Askers : asker[b] = None
    /\ \E v \in Amounts :
          /\ v + PayoutsIn({"requested"}) <= SettlementsIn({"pending"})
          /\ asker' = [asker EXCEPT ![a] = v]
    /\ UNCHANGED <<settlements, payouts, clerk, overlap>>

requestCompanyWithdrawal(a) ==
    /\ asker[a] # None
    /\ \E p \in NextRow(Payouts, payouts) :
          payouts' = [payouts EXCEPT ![p] = [status |-> "requested", amount |-> asker[a]]]
    /\ asker' = [asker EXCEPT ![a] = None]
    /\ UNCHANGED <<settlements, clerk, overlap>>

(* Oldest first, each settlement that still fits. *)
markSettlementsPaid(amount) ==
    LET pending == {s \in Settlements : settlements[s].status = "pending"}
    IN  {paid \in SUBSET pending :
            \A s \in pending :
                s \in paid <=> Net({t \in paid : t < s}) + settlements[s].net <= amount}

(* Mutant: the payout is completed with what settlements there are. *)
ReadPendingUnmatched(c) ==
    /\ clerk[c] = None
    /\ \E p \in Payouts :
          /\ payouts[p].status = "requested"
          /\ \A o \in Clerks : clerk[o] # None => clerk[o].payout # p
          /\ \E paid \in markSettlementsPaid(payouts[p].amount) :
                clerk' = [clerk EXCEPT ![c] = [payout |-> p, paid |-> paid]]
    /\ overlap' = (overlap \/ \E o \in Clerks : clerk[o] # None)
    /\ UNCHANGED <<settlements, payouts, asker>>

(* The payout's row is locked; the settlements are read without a lock.  A  *)
(* payout they do not match is rolled back.                                 *)
ReadPending(c) ==
    /\ clerk[c] = None
    /\ \E p \in Payouts :
          /\ payouts[p].status = "requested"
          /\ \A o \in Clerks : clerk[o] # None => clerk[o].payout # p
          /\ \E paid \in markSettlementsPaid(payouts[p].amount) :
                /\ Net(paid) = payouts[p].amount
                /\ clerk' = [clerk EXCEPT ![c] = [payout |-> p, paid |-> paid]]
    /\ overlap' = (overlap \/ \E o \in Clerks : clerk[o] # None)
    /\ UNCHANGED <<settlements, payouts, asker>>

(* The updates do not look at the status again. *)
completePayout(c) ==
    /\ clerk[c] # None
    /\ payouts' = [payouts EXCEPT ![clerk[c].payout].status = "completed"]
    /\ settlements' = [s \in Settlements |->
                          IF s \in clerk[c].paid THEN [settlements[s] EXCEPT !.status = "paid"]
                                                 ELSE settlements[s]]
    /\ clerk' = [clerk EXCEPT ![c] = None]
    /\ UNCHANGED <<asker, overlap>>

Next ==
    \/ releaseJobEscrow \/ executeRefundReversal
    \/ \E a \in Askers : CheckBalance(a) \/ requestCompanyWithdrawal(a)
    \/ \E c \in Clerks : ReadPending(c) \/ completePayout(c)

Spec == Init /\ [][Next]_vars

-----------------------------------------------------------------------------
(* "Every step is server-authoritative, race-safe (row locks)"              *)
(* (companyPayoutService.js:6): what the company was paid is what its       *)
(* settlements say it was paid.                                             *)
PaidAsSettled == PayoutsIn({"completed"}) = SettlementsIn({"paid"})

(* That much holds unless two completions overlapped: a refund between the  *)
(* reading and the commit does not break it (payoutController.js:200-210).  *)
SettledInFull == overlap \/ PaidAsSettled

(* Nor can withdrawals asked for at the same time get more than was earned, *)
(* whatever is refunded and completed meanwhile                             *)
(* (companyPayoutService.js:44-46).                                         *)
NeverOverdrawn ==
    \/ overlap
    \/ PayoutsIn({"requested", "completed"}) <= SettlementsIn({"pending", "paid", "cancelled"})
=============================================================================
