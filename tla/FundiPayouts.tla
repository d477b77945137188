---------------------------- MODULE FundiPayouts ----------------------------
(***************************************************************************)
(* How a fundi is paid: releases of escrow, payouts asked for              *)
(* (payoutController.js requestPayout) and commission debts withheld from  *)
(* them (fraudService.js), under an administrator's freeze                 *)
(* (adminController.js).  Fees are left out: by default there are none.    *)
(*                                                                         *)
(* requestPayout takes two steps: under the lock on the fundi's row, the   *)
(* checks; then the debts are taken and it commits.  Whoever does not need *)
(* that lock comes in between.  A refund changes nothing of all this.      *)
(***************************************************************************)
EXTENDS Naturals, Functions

CONSTANTS
    Amounts,      \* amounts of money
    MaxEarned,    \* bound: money released to the fundi
    MaxPayouts,   \* bound: rows of payouts
    MaxDebts,     \* bound: rows of commission_debts
    Askers,       \* requests for a payout handled at a time
    Admins,       \* requests to freeze handled at a time
    None

Payouts == 1 .. MaxPayouts
Debts == 1 .. MaxDebts            \* in the order of created_at

VARIABLES
    earned,    \* released escrow_transactions of the fundi's jobs, in all
    payouts,   \* payouts of the fundi
    debts,     \* the fundi's commission_debts
    frozen,    \* fundis.wallet_frozen and payout_frozen
    suspect,   \* a serious fraud alert or a dispute is open, or trust is low
    asker,     \* requestPayout between its checks and its commit
    admin      \* setFundiFinancialFreeze before its update

vars == <<earned, payouts, debts, frozen, suspect, asker, admin>>

Init ==
    /\ earned = 0
    /\ payouts = [p \in Payouts |-> [status |-> "none", amount |-> 0, net |-> 0, taken |-> 0]]
    /\ debts = [d \in Debts |-> [status |-> "none", amount |-> 0, taken |-> 0]]
    /\ frozen = [wallet |-> FALSE, payout |-> FALSE] /\ suspect = FALSE
    /\ asker = [a \in Askers |-> None]
    /\ admin = [a \in Admins |-> None]

PaidOut == SumFunctionOnSet([p \in Payouts |-> payouts[p].amount], Payouts)

(* The debts that still count, and what the ones before d come to. *)
Open == {d \in Debts : debts[d].status = "pending"}
Owed(ds) == SumFunctionOnSet([d \in Debts |-> debts[d].amount], ds \cap Open)

Least(m, n) == IF m <= n THEN m ELSE n

(* The next row of a table. *)
NextRow(rows, table) ==
    {n \in rows : table[n].status = "none" /\ \A m \in rows : m < n => table[m].status # "none"}

-----------------------------------------------------------------------------
(* A job of the fundi's own is released, with a payout of the same amount;  *)
(* a company's job on which the fundi is the technician, without one.       *)
releaseJobEscrow ==
    \E v \in Amounts :
        /\ earned + v <= MaxEarned
        /\ earned' = earned + v
        /\ \/ UNCHANGED payouts
           \/ \E p \in NextRow(Payouts, payouts) :
                 payouts' = [payouts EXCEPT ![p] = [status |-> "processing", amount |-> v,
                                                    net |-> v, taken |-> 0]]
        /\ UNCHANGED <<debts, frozen, suspect, asker, admin>>

(* A job completed without payment: its commission becomes a debt, with an *)
(* alert that keeps payouts back until it is resolved.                     *)
flagSuspiciousCommission ==
    \E d \in NextRow(Debts, debts), v \in Amounts :
        /\ debts' = [debts EXCEPT ![d] = [status |-> "pending", amount |-> v, taken |-> 0]]
        /\ suspect' = TRUE
        /\ UNCHANGED <<earned, payouts, frozen, asker, admin>>

(* Alerts and disputes are opened and resolved elsewhere, and trust changes. *)
Suspect ==
    /\ suspect' = ~ suspect
    /\ UNCHANGED <<earned, payouts, debts, frozen, asker, admin>>

Unlocked == \A a \in Askers : asker[a] = None

(* Mutant: the fundi's row is not locked. *)
CheckPayoutUnlocked(a) ==
    /\ asker[a] = None
    /\ ~ frozen.wallet /\ ~ frozen.payout /\ ~ suspect
    /\ \E v \in Amounts :
          /\ v + PaidOut <= earned
          /\ asker' = [asker EXCEPT ![a] = [amount |-> v, net |-> v - Least(Owed(Debts), v)]]
    /\ UNCHANGED <<earned, payouts, debts, frozen, suspect, admin>>

(* Nothing is held back, the amount is covered; the debts are only looked at.  *)
CheckPayout(a) ==
    /\ Unlocked
    /\ ~ frozen.wallet /\ ~ frozen.payout /\ ~ suspect
    /\ \E v \in Amounts :
          /\ v + PaidOut <= earned
          /\ asker' = [asker EXCEPT ![a] = [amount |-> v, net |-> v - Least(Owed(Debts), v)]]
    /\ UNCHANGED <<earned, payouts, debts, frozen, suspect, admin>>

(* Mutant: each debt is compared with the whole amount. *)
TakenFromEach(d, amount) == IF d \notin Open THEN 0 ELSE Least(amount, debts[d].amount)

(* The debts are looked at again and paid off, the oldest first; one paid   *)
(* in part stays pending, with its amount.                                  *)
TakenFrom(d, amount) ==
    LET older == Owed({e \in Debts : e < d})
    IN  IF d \notin Open \/ older >= amount THEN 0 ELSE Least(amount - older, debts[d].amount)

applyCommissionDebtDeduction(amount) ==
    debts' = [d \in Debts |->
                 LET taken == TakenFrom(d, amount)
                 IN  [debts[d] EXCEPT !.taken = @ + taken,
                                      !.status = IF taken > 0 /\ taken >= debts[d].amount
                                                 THEN "deducted" ELSE @]]

(* The payout is recorded, the debts are taken and the transaction commits. *)
requestPayout(a) ==
    /\ asker[a] # None
    /\ LET withheld == asker[a].net < asker[a].amount
       IN  /\ \E p \in NextRow(Payouts, payouts) :
                 payouts' = [payouts EXCEPT ![p] =
                                [status |-> "requested", amount |-> asker[a].amount, net |-> asker[a].net,
                                 taken |-> IF withheld THEN Least(Owed(Debts), asker[a].amount) ELSE 0]]
           /\ IF withheld THEN applyCommissionDebtDeduction(asker[a].amount) ELSE UNCHANGED debts
    /\ asker' = [asker EXCEPT ![a] = None]
    /\ UNCHANGED <<earned, frozen, suspect, admin>>

completePayout ==
    \E p \in Payouts :
        /\ payouts[p].status \in {"requested", "processing"}
        /\ payouts' = [payouts EXCEPT ![p].status = "completed"]
        /\ UNCHANGED <<earned, debts, frozen, suspect, asker, admin>>

(* The flag the request leaves out is read first, without a lock; the       *)
(* update waits for whoever has locked the fundi's row.                     *)
ReadFreeze(a) ==
    /\ admin[a] = None
    /\ \E flag \in {"wallet", "payout"}, value \in BOOLEAN :
          admin' = [admin EXCEPT ![a] = [frozen EXCEPT ![flag] = value]]
    /\ UNCHANGED <<earned, payouts, debts, frozen, suspect, asker>>

(* Mutant: the update does not wait for the lock on the fundi's row. *)
setFundiFinancialFreezeAtOnce(a) ==
    /\ admin[a] # None
    /\ frozen' = admin[a]
    /\ admin' = [admin EXCEPT ![a] = None]
    /\ UNCHANGED <<earned, payouts, debts, suspect, asker>>

setFundiFinancialFreeze(a) ==
    /\ admin[a] # None /\ Unlocked
    /\ frozen' = admin[a]
    /\ admin' = [admin EXCEPT ![a] = None]
    /\ UNCHANGED <<earned, payouts, debts, suspect, asker>>

Next ==
    \/ releaseJobEscrow \/ flagSuspiciousCommission \/ Suspect \/ completePayout
    \/ \E a \in Askers : CheckPayout(a) \/ requestPayout(a)
    \/ \E a \in Admins : ReadFreeze(a) \/ setFundiFinancialFreeze(a)

Spec == Init /\ [][Next]_vars

-----------------------------------------------------------------------------
(* Requests at the same time, and releases in between, cannot get a fundi   *)
(* more than was released to them (payoutController.js:44-46).              *)
NeverOverdrawn == PaidOut <= earned

(* What a payout withholds for debts is taken from debts, whatever other    *)
(* requests took and whichever debts were added in between; and a debt is   *)
(* written off only when it was paid (fraudService.js:311-351).             *)
WithheldIsBooked ==
    /\ \A p \in Payouts : payouts[p].amount - payouts[p].net <= payouts[p].taken
    /\ SumFunctionOnSet([p \in Payouts |-> payouts[p].taken], Payouts)
           = SumFunctionOnSet([d \in Debts |-> debts[d].taken], Debts)
    /\ \A d \in Debts : debts[d].status = "deducted" => debts[d].taken >= debts[d].amount

(* A step while money is frozen records no request of the fundi. *)
FrozenAsksNothing ==
    frozen.wallet \/ frozen.payout =>
        \A p \in Payouts : payouts'[p].status = "requested" => payouts[p].status = "requested"

(* While money is frozen no payout the fundi asks for is recorded, not even *)
(* one whose checks came before the freeze (payoutController.js:78).        *)
NoPayoutWhileFrozen == [][FrozenAsksNothing]_vars
=============================================================================
