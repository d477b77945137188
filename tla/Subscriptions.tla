---------------------------- MODULE Subscriptions ----------------------------
(***************************************************************************)
(* The subscriptions of one fundi or company: asked for and cancelled in   *)
(* routes.js, paid for by a prompt on the phone, and activated by the      *)
(* callback of the provider (paymentController.js).  A request to activate *)
(* commits a row, waits for the provider, and stores the checkout id by    *)
(* which the callback finds the row in a statement of its own.             *)
(*                                                                         *)
(* A period that is over is a matter of expires_at, which only reads look  *)
(* at; it is left out.                                                     *)
(***************************************************************************)
CONSTANT Subs   \* the subscriptions there can be

VARIABLES
    status,    \* the status of each subscription, "none" before it exists
    checkout,  \* those that have stored their checkout id
    ask,       \* where the request of each is
    prompt,    \* what the customer did with each prompt
    told,      \* history: a callback of a paid prompt has found its row
    cancelled, \* history: has been cancelled
    lost       \* history: a checkout id was stored and the answer lost

vars == <<status, checkout, ask, prompt, told, cancelled, lost>>

Init ==
    /\ status = [s \in Subs |-> "none"]
    /\ checkout = {}
    /\ ask = [s \in Subs |-> "idle"]
    /\ prompt = [s \in Subs |-> "none"]
    /\ told = {} /\ cancelled = {} /\ lost = {}

-----------------------------------------------------------------------------
(* The request to activate. *)

(* Mutant: a new request ends those that wait for their payment. *)
ActivateAlone(s) ==
    /\ ask[s] = "idle"
    /\ status' = [t \in Subs |-> IF t = s THEN "pending"
                                 ELSE IF status[t] = "pending" THEN "failed" ELSE status[t]]
    /\ ask' = [ask EXCEPT ![s] = "inserted"]
    /\ UNCHANGED <<checkout, prompt, told, cancelled, lost>>

activate(s) ==
    /\ ask[s] = "idle"
    /\ status' = [status EXCEPT ![s] = "pending"]
    /\ ask' = [ask EXCEPT ![s] = "inserted"]
    /\ UNCHANGED <<checkout, prompt, told, cancelled, lost>>

(* The provider puts a prompt on the phone or refuses; of a prompt that is  *)
(* there the request may not hear either.                                   *)
initiateStkPush(s) ==
    /\ ask[s] = "inserted"
    /\ \E shown \in BOOLEAN, heard \in {"prompted", "broken"} :
           /\ heard = "prompted" => shown
           /\ prompt' = [prompt EXCEPT ![s] = IF shown THEN "shown" ELSE @]
           /\ ask' = [ask EXCEPT ![s] = heard]
    /\ UNCHANGED <<status, checkout, told, cancelled, lost>>

StoreCheckout(s) ==
    /\ ask[s] = "prompted"
    /\ \E stored \in BOOLEAN, heard \in {"over", "broken"} :
           /\ heard = "over" => stored
           /\ checkout' = IF stored THEN checkout \cup {s} ELSE checkout
           /\ lost' = IF stored /\ heard = "broken" THEN lost \cup {s} ELSE lost
           /\ ask' = [ask EXCEPT ![s] = heard]
    /\ UNCHANGED <<status, prompt, told, cancelled>>

(* After an error the row is marked failed, whatever has become of it. *)
MarkFailed(s) ==
    /\ ask[s] = "broken"
    /\ status' = [status EXCEPT ![s] = "failed"]
    /\ ask' = [ask EXCEPT ![s] = "over"]
    /\ UNCHANGED <<checkout, prompt, told, cancelled, lost>>

(* The process stops in the request. *)
RequestDies(s) ==
    /\ ask[s] \in {"inserted", "prompted", "broken"}
    /\ ask' = [ask EXCEPT ![s] = "over"]
    /\ UNCHANGED <<status, checkout, prompt, told, cancelled, lost>>

-----------------------------------------------------------------------------
(* The customer, the provider and the callback. *)

AnswersPrompt(s) ==
    /\ prompt[s] = "shown"
    /\ \E answer \in {"paid", "refused"} : prompt' = [prompt EXCEPT ![s] = answer]
    /\ UNCHANGED <<status, checkout, ask, told, cancelled, lost>>

(* The callback, once or more often; before the checkout id is stored it    *)
(* finds no row and is refused.                                             *)
webhook(s) ==
    /\ prompt[s] \in {"paid", "refused"}
    /\ s \in checkout
    /\ status' = [status EXCEPT ![s] =
                      IF @ # "pending" THEN @ ELSE IF prompt[s] = "paid" THEN "active" ELSE "failed"]
    /\ told' = IF prompt[s] = "paid" THEN told \cup {s} ELSE told
    /\ UNCHANGED <<checkout, ask, prompt, cancelled, lost>>

(* Every subscription that is pending or active is cancelled. *)
cancel ==
    LET ended == {s \in Subs : status[s] \in {"pending", "active"}}
    IN  /\ ended # {}
        /\ status' = [s \in Subs |-> IF s \in ended THEN "cancelled" ELSE status[s]]
        /\ cancelled' = cancelled \cup ended
        /\ UNCHANGED <<checkout, ask, prompt, told, lost>>

Next ==
    \/ \E s \in Subs :
           \/ activate(s) \/ initiateStkPush(s) \/ StoreCheckout(s) \/ MarkFailed(s)
           \/ RequestDies(s) \/ AnswersPrompt(s) \/ webhook(s)
    \/ cancel

Spec == Init /\ [][Next]_vars

-----------------------------------------------------------------------------
(* "Money confirmed -> subscription active" (paymentController.js:211): a   *)
(* subscription is active only if it was paid for, and stays active from    *)
(* the first callback that finds it, whatever other subscriptions are asked *)
(* for and paid beside it; unless it has been cancelled, or the answer to   *)
(* the storing of its checkout id was lost (routes.js:654-667).             *)
PaidIsEntitled ==
    /\ \A s \in Subs : status[s] = "active" => s \in told
    /\ \A s \in told : status[s] = "active" \/ s \in cancelled \/ s \in lost
=============================================================================
