---------------------------- MODULE PaymentPanel ----------------------------
(***************************************************************************)
(* What the customer's tracking page says of the payment of a booking      *)
(* (FundiTracker.tsx with services/realtime.ts), beside what the server    *)
(* knows of it.  Four things write the panel: the answer to the payment    *)
(* request, the panel's own poll, the page's watch on the booking, and the *)
(* server's events, which reach it while its connection is in the room of  *)
(* the booking.  Requests overlap, so an old answer may come after a newer *)
(* one; events are lost with the connection, and nothing joins the room    *)
(* again after a reconnection; the watch asks with the token the page was  *)
(* opened with, and is not answered any more once that has expired.        *)
(***************************************************************************)
EXTENDS Naturals, Sequences, SequencesExt

CONSTANTS
    MaxAsks,       \* bound: presses of the payment button
    MaxPayments,   \* bound: payments of the booking
    MaxPolls,      \* answers the panel waits for (30 in the code)
    MaxEvents      \* bound: events on their way at a time

VARIABLES
    payments,  \* the status of each payment of the booking, oldest first
    asks,      \* where the request of each press of the payment button is
    channel,   \* events on their way to the page, in order
    room,      \* the page's connection is in the room of the booking
    panel,     \* paymentStatus
    poll,      \* the panel's own poll: running, ticks, answers that may be on their way
    watch      \* the watch: running with a good token, lastPaymentStatus, such answers

vars == <<payments, asks, channel, room, panel, poll, watch>>

Settled == {"completed", "failed"}

Init ==
    /\ payments = <<>>
    /\ asks = <<>>
    /\ channel = <<>>
    /\ room = TRUE
    /\ panel = "idle"
    /\ poll = [on |-> FALSE, count |-> 0, answers |-> {}]
    /\ watch = [on |-> TRUE, last |-> "none", answers |-> {}]

(* paymentForJob answers with the latest payment. *)
paymentForJob == IF payments = <<>> THEN "none" ELSE Last(payments)

(* The poll with its timer cleared; its requests stay on their way. *)
Cleared == [poll EXCEPT !.on = FALSE]

-----------------------------------------------------------------------------
(* The server. *)

(* A request is refused while the booking's own payment status says paid,   *)
(* whatever payments it has.  The confirmation of the work, a dispute, the  *)
(* release and the payout write that status too, so that a payment may be   *)
(* opened beside one that has completed: refused or not is a free choice,   *)
(* and the provider may still refuse the prompt.  A request that fails, or  *)
(* whose answer is lost, is made once more by lib/api.ts.                   *)
stkPush(a) ==
    /\ asks[a] = "sent"
    /\ \E answer \in {"prompted", "refused", "sent"} :
          /\ asks' = [asks EXCEPT ![a] = answer]
          /\ \/ answer = "refused" /\ UNCHANGED payments
             \/ /\ Len(payments) < MaxPayments
                /\ payments' = Append(payments, "pending")
    /\ UNCHANGED <<channel, room, panel, poll, watch>>

(* The callback of the provider settles a payment and tells the room; a     *)
(* repeated one leaves the payment as it is and tells the room once more:   *)
(* of a payment that is not completed any more, that it failed.             *)
webhook(n, s) ==
    /\ Len(channel) < MaxEvents
    /\ \/ payments[n] = "pending" /\ payments' = [payments EXCEPT ![n] = s]
       \/ /\ payments[n] # "pending"
          /\ s = IF payments[n] = "completed" THEN "completed" ELSE "failed"
          /\ UNCHANGED payments
    /\ channel' = IF room THEN Append(channel, s) ELSE channel
    /\ UNCHANGED <<asks, room, panel, poll, watch>>

executeRefundReversal(n) ==
    /\ payments[n] = "completed"
    /\ payments' = [payments EXCEPT ![n] = "refunded"]
    /\ UNCHANGED <<asks, channel, room, panel, poll, watch>>

-----------------------------------------------------------------------------
(* The payment request. *)

handlePayment ==
    /\ panel \in {"idle", "failed"}
    /\ Len(asks) < MaxAsks
    /\ asks' = Append(asks, "sent")
    /\ panel' = "processing"
    /\ UNCHANGED <<payments, channel, room, poll, watch>>

(* The prompt is on the phone: the panel starts a poll of its own. *)
startPaymentPolling(a) ==
    /\ asks[a] = "prompted"
    /\ asks' = [asks EXCEPT ![a] = "over"]
    /\ panel' = "initiated"
    /\ poll' = [poll EXCEPT !.on = TRUE, !.count = 0]
    /\ UNCHANGED <<payments, channel, room, watch>>

PaymentRefused(a) ==
    /\ asks[a] = "refused"
    /\ asks' = [asks EXCEPT ![a] = "over"]
    /\ panel' = "failed"
    /\ UNCHANGED <<payments, channel, room, poll, watch>>

(* Both the failed panel and the waiting one offer to try again. *)
handleRetryPayment ==
    /\ panel \in {"failed", "initiated"}
    /\ panel' = "idle"
    /\ poll' = Cleared
    /\ UNCHANGED <<payments, asks, channel, room, watch>>

-----------------------------------------------------------------------------
(* The panel's own poll: it gives up after MaxPolls questions.  An answer   *)
(* once asked for may arrive at any time, or never, and again from another  *)
(* question asked meanwhile, so that those on their way are never removed.  *)

PollTick ==
    /\ poll.on
    /\ IF poll.count >= MaxPolls
       THEN /\ panel' = "failed"
            /\ poll' = Cleared
       ELSE /\ poll' = [poll EXCEPT !.count = @ + 1,
                                    !.answers = @ \cup ({paymentForJob} \cap Settled)]
            /\ UNCHANGED panel
    /\ UNCHANGED <<payments, asks, channel, room, watch>>

(* Mutant: every outcome ends the poll, but only one of them is shown. *)
PollAnsweredQuietly(s) ==
    /\ s \in poll.answers
    /\ panel' = IF s = "completed" THEN "confirmed" ELSE panel
    /\ poll' = Cleared
    /\ UNCHANGED <<payments, asks, channel, room, watch>>

(* Only the answer that a payment has completed changes anything. *)
PollAnswered(s) ==
    /\ s \in poll.answers
    /\ s = "completed"
    /\ panel' = "confirmed"
    /\ poll' = Cleared
    /\ UNCHANGED <<payments, asks, channel, room, watch>>

-----------------------------------------------------------------------------
(* The page's watch and the server's events. *)

(* onPaymentConfirmed and onPaymentFailed. *)
onPayment(s) ==
    /\ s \in Settled
    /\ panel' = IF s = "completed" THEN "confirmed" ELSE "failed"
    /\ poll' = IF s = "completed" THEN Cleared ELSE poll

EventArrives ==
    /\ channel # <<>>
    /\ onPayment(Head(channel))
    /\ channel' = Tail(channel)
    /\ UNCHANGED <<payments, asks, room, watch>>

watchJob ==
    /\ watch.on
    /\ watch' = [watch EXCEPT !.answers = @ \cup ({paymentForJob} \ {"none"})]
    /\ UNCHANGED <<payments, asks, channel, room, panel, poll>>

(* An answer is news when its status differs from the last one seen. *)
WatchAnswered(s) ==
    /\ s \in watch.answers
    /\ s # watch.last
    /\ watch' = [watch EXCEPT !.last = s]
    /\ IF s \in Settled THEN onPayment(s) ELSE UNCHANGED <<panel, poll>>
    /\ UNCHANGED <<payments, asks, channel, room>>

(* The access token given to connect() expires and is not renewed: the      *)
(* watch asks on, but its questions bring nothing, neither the outcome of a *)
(* payment nor one of the answers that end the watch.                       *)
TokenExpires ==
    /\ watch.on
    /\ watch' = [watch EXCEPT !.on = FALSE]
    /\ UNCHANGED <<payments, asks, channel, room, panel, poll>>

(* The connection is lost, with the events on it; the new one is in no room. *)
Disconnected ==
    /\ room
    /\ room' = FALSE
    /\ channel' = <<>>
    /\ UNCHANGED <<payments, asks, panel, poll, watch>>

(* The page is hidden, or comes back while the connection is lost: every    *)
(* watch is stopped and none is started again (resumeJobPolling).           *)
stopAllPolling ==
    /\ watch.on
    /\ ~room
    /\ watch' = [watch EXCEPT !.on = FALSE]
    /\ UNCHANGED <<payments, asks, channel, room, panel, poll>>

Next ==
    \/ \E a \in DOMAIN asks : stkPush(a) \/ startPaymentPolling(a) \/ PaymentRefused(a)
    \/ \E n \in DOMAIN payments : executeRefundReversal(n) \/ \E s \in Settled : webhook(n, s)
    \/ handlePayment \/ handleRetryPayment
    \/ PollTick
    \/ EventArrives
    \/ watchJob \/ TokenExpires
    \/ \E s \in Settled : PollAnswered(s)
    \/ \E s \in {"pending", "refunded"} \cup Settled : WatchAnswered(s)
    \/ Disconnected
    \/ stopAllPolling

(* The panel's timer goes on while it is set; nobody has to answer. *)
Fairness == WF_vars(PollTick)

Spec == Init /\ [][Next]_vars /\ Fairness

-----------------------------------------------------------------------------
(* The panel asks the customer to wait for a payment. *)
Waiting == panel = "initiated"

(* The customer is never left waiting for good: in whatever order answers   *)
(* of either poll, events, replies to overlapping requests and retries      *)
(* come, if they come at all, the timer the panel then has was not cleared  *)
(* by any of them, and ends the wait (FundiTracker.tsx:471-498, 523-528).   *)
WaitingEnds == Waiting ~> ~Waiting
=============================================================================
