----------------------------- MODULE ServiceProofs -----------------------------
(***************************************************************************)
(* Three services of the platform that share nothing: subscriptions, the   *)
(* chat of a booking and the connection pool.  Theorems about the modules  *)
(* Subscriptions, Chat and Database, for any number of subscriptions,      *)
(* messages, calls and pools.                                              *)
(*                                                                         *)
(* The modules are instantiated under the names of their own variables.    *)
(***************************************************************************)
EXTENDS FiniteSetTheorems, SequenceTheorems, TLAPS

CONSTANTS Subs, Own, Others, Requests, MaxPools, None

VARIABLES
    status, checkout, ask, prompt, told, cancelled, lost,               \* Subscriptions
    open, log, post, room, channel, page, missed,                       \* Chat
    pool, initPromise, lastError, pools, inits, task, up, overlap       \* Database

Plans == INSTANCE Subscriptions

Page == INSTANCE Chat

Connection == INSTANCE Database

-----------------------------------------------------------------------------
(* Subscriptions *)

PlansTyped ==
    /\ status \in [Subs -> {"none", "pending", "active", "failed", "cancelled"}]
    /\ ask \in [Subs -> {"idle", "inserted", "prompted", "broken", "over"}]
    /\ prompt \in [Subs -> {"none", "shown", "paid", "refused"}]

(* Until a request has stored its checkout id, or failed to, its row can    *)
(* only have been cancelled; once it may mark the row failed, either the id *)
(* is not stored or the answer to that was lost.                            *)
RequestsHold ==
    \A s \in Subs :
        /\ ask[s] = "idle" => status[s] = "none"
        /\ ask[s] # "idle" => status[s] # "none"
        /\ ask[s] \in {"idle", "inserted", "prompted"} =>
               s \notin checkout /\ status[s] \notin {"failed", "active"}
        /\ ask[s] = "broken" /\ s \in checkout => s \in lost

(* A row that can be found for a prompt that was not refused is failed only *)
(* after a lost answer.                                                     *)
RowsHold ==
    \A s \in Subs :
        /\ s \in checkout /\ prompt[s] # "refused" /\ status[s] = "failed" => s \in lost
        /\ status[s] = "cancelled" => s \in cancelled
        /\ s \in told => s \in checkout /\ prompt[s] = "paid"

PlansInv == PlansTyped /\ RequestsHold /\ RowsHold /\ Plans!PaidIsEntitled /\ told \subseteq Subs

-----------------------------------------------------------------------------
LEMMA InitPlans == Plans!Init => PlansInv
BY DEF Plans!Init, PlansInv, PlansTyped, RequestsHold, RowsHold, Plans!PaidIsEntitled

(* Another subscription of the same principal is not touched. *)
LEMMA RequestKeepsPlans ==
    ASSUME PlansInv, NEW s \in Subs,
           \/ Plans!activate(s) \/ Plans!initiateStkPush(s) \/ Plans!StoreCheckout(s)
           \/ Plans!MarkFailed(s) \/ Plans!RequestDies(s)
    PROVE  PlansInv'
<1> USE DEF PlansInv
<1>1. CASE Plans!activate(s)
  <2>1. PlansTyped'
    BY <1>1 DEF Plans!activate, PlansTyped
  <2>2. RequestsHold' /\ RowsHold' /\ Plans!PaidIsEntitled' /\ told' \subseteq Subs
    BY <1>1 DEF Plans!activate, PlansTyped, RequestsHold, RowsHold, Plans!PaidIsEntitled
  <2> QED BY <2>1, <2>2
<1>2. CASE Plans!initiateStkPush(s)
  <2>1. PICK p \in {"shown", prompt[s]}, heard \in {"prompted", "broken"} :
            /\ ask[s] = "inserted"
            /\ prompt' = [prompt EXCEPT ![s] = p] /\ ask' = [ask EXCEPT ![s] = heard]
            /\ UNCHANGED <<status, checkout, told, cancelled, lost>>
    BY <1>2 DEF Plans!initiateStkPush
  <2>2. PlansTyped'
    BY <2>1 DEF PlansTyped
  <2>3. RequestsHold' /\ RowsHold' /\ Plans!PaidIsEntitled' /\ told' \subseteq Subs
    BY <2>1 DEF PlansTyped, RequestsHold, RowsHold, Plans!PaidIsEntitled
  <2> QED BY <2>2, <2>3
<1>3. CASE Plans!StoreCheckout(s)
  <2>1. PICK stored \in BOOLEAN, heard \in {"over", "broken"} :
            /\ ask[s] = "prompted" /\ (heard = "over" => stored)
            /\ checkout' = IF stored THEN checkout \cup {s} ELSE checkout
            /\ lost' = IF stored /\ heard = "broken" THEN lost \cup {s} ELSE lost
            /\ ask' = [ask EXCEPT ![s] = heard]
            /\ UNCHANGED <<status, prompt, told, cancelled>>
    BY <1>3 DEF Plans!StoreCheckout
  <2>2. PlansTyped'
    BY <2>1 DEF PlansTyped
  <2>3. RequestsHold'
    BY <2>1 DEF PlansTyped, RequestsHold
  <2>4. RowsHold' /\ Plans!PaidIsEntitled' /\ told' \subseteq Subs
    BY <2>1 DEF PlansTyped, RequestsHold, RowsHold, Plans!PaidIsEntitled
  <2> QED BY <2>2, <2>3, <2>4
<1>4. CASE Plans!MarkFailed(s)
  <2>1. PlansTyped'
    BY <1>4 DEF Plans!MarkFailed, PlansTyped
  <2>2. RequestsHold' /\ RowsHold'
    BY <1>4 DEF Plans!MarkFailed, PlansTyped, RequestsHold, RowsHold
  <2>3. s \in told => s \in lost
    BY <1>4 DEF Plans!MarkFailed, RequestsHold, RowsHold
  <2>4. Plans!PaidIsEntitled' /\ told' \subseteq Subs
    BY <1>4, <2>3 DEF Plans!MarkFailed, PlansTyped, Plans!PaidIsEntitled
  <2> QED BY <2>1, <2>2, <2>4
<1>5. CASE Plans!RequestDies(s)
  BY <1>5 DEF Plans!RequestDies, PlansTyped, RequestsHold, RowsHold, Plans!PaidIsEntitled
<1> QED BY <1>1, <1>2, <1>3, <1>4, <1>5

LEMMA CallbackKeepsPlans ==
    ASSUME PlansInv, NEW s \in Subs, Plans!AnswersPrompt(s) \/ Plans!webhook(s)
    PROVE  PlansInv'
<1> USE DEF PlansInv
<1>1. CASE Plans!AnswersPrompt(s)
  <2>1. PICK answer \in {"paid", "refused"} :
            prompt[s] = "shown" /\ prompt' = [prompt EXCEPT ![s] = answer]
    BY <1>1 DEF Plans!AnswersPrompt
  <2>2. UNCHANGED <<status, checkout, ask, told, cancelled, lost>>
    BY <1>1 DEF Plans!AnswersPrompt
  <2>3. PlansTyped'
    BY <2>1, <2>2 DEF PlansTyped
  <2>4. RequestsHold' /\ Plans!PaidIsEntitled' /\ told' \subseteq Subs
    BY <2>2 DEF RequestsHold, Plans!PaidIsEntitled
  <2>5. RowsHold'
    BY <2>1, <2>2 DEF PlansTyped, RowsHold
  <2> QED BY <2>3, <2>4, <2>5
<1>2. CASE Plans!webhook(s)
  <2> DEFINE new == IF status[s] # "pending" THEN status[s]
                    ELSE IF prompt[s] = "paid" THEN "active" ELSE "failed"
  <2>1. /\ prompt[s] \in {"paid", "refused"} /\ s \in checkout
        /\ status' = [status EXCEPT ![s] = new]
        /\ told' = IF prompt[s] = "paid" THEN told \cup {s} ELSE told
        /\ UNCHANGED <<checkout, ask, prompt, cancelled, lost>>
    BY <1>2 DEF Plans!webhook
  <2>2. new \in {"none", "pending", "active", "failed", "cancelled"}
    BY DEF PlansTyped
  <2>3. PlansTyped' /\ told' \subseteq Subs
    BY <2>1, <2>2 DEF PlansTyped
  <2>4. ask[s] \in {"broken", "over"} /\ status[s] # "none"
    BY <2>1 DEF PlansTyped, RequestsHold
  <2>5. RequestsHold'
    BY <2>1, <2>2, <2>4 DEF PlansTyped, RequestsHold
  <2>6. RowsHold'
    BY <2>1, <2>2 DEF PlansTyped, RowsHold
  <2>7. prompt[s] = "paid" => new = "active" \/ s \in cancelled \/ s \in lost
    BY <2>1, <2>4 DEF PlansTyped, RowsHold
  <2>8. new = "active" => s \in told'
    BY <2>1 DEF Plans!PaidIsEntitled
  <2>9. s \in told => prompt[s] = "paid"
    BY DEF RowsHold
  <2>10. \A t \in Subs : t # s => status'[t] = status[t] /\ (t \in told' <=> t \in told)
    BY <2>1 DEF PlansTyped
  <2>11. status'[s] = new
    BY <2>1 DEF PlansTyped
  <2> HIDE DEF new
  <2>12. Plans!PaidIsEntitled'
    BY <2>1, <2>3, <2>7, <2>8, <2>9, <2>10, <2>11 DEF Plans!PaidIsEntitled
  <2> QED BY <2>3, <2>5, <2>6, <2>12
<1> QED BY <1>1, <1>2

LEMMA CancelKeepsPlans == ASSUME PlansInv, Plans!cancel PROVE PlansInv'
<1> USE DEF PlansInv
<1>1. PICK ended \in SUBSET Subs :
          /\ ended = {s \in Subs : status[s] \in {"pending", "active"}}
          /\ status' = [s \in Subs |-> IF s \in ended THEN "cancelled" ELSE status[s]]
          /\ cancelled' = cancelled \cup ended
          /\ UNCHANGED <<checkout, ask, prompt, told, lost>>
  BY DEF Plans!cancel
<1>2. PlansTyped' /\ told' \subseteq Subs
  BY <1>1 DEF PlansTyped
<1>3. RequestsHold' /\ RowsHold' /\ Plans!PaidIsEntitled'
  BY <1>1 DEF PlansTyped, RequestsHold, RowsHold, Plans!PaidIsEntitled
<1> QED BY <1>2, <1>3

LEMMA NextPlans == PlansInv /\ [Plans!Next]_(Plans!vars) => PlansInv'
<1> SUFFICES ASSUME PlansInv, [Plans!Next]_(Plans!vars) PROVE PlansInv'
  OBVIOUS
<1>1. CASE UNCHANGED Plans!vars
  BY <1>1 DEF Plans!vars, PlansInv, PlansTyped, RequestsHold, RowsHold, Plans!PaidIsEntitled
<1>2. CASE Plans!Next
  BY <1>2, RequestKeepsPlans, CallbackKeepsPlans, CancelKeepsPlans DEF Plans!Next
<1> QED BY <1>1, <1>2

LEMMA PlansAreRight == PlansInv => Plans!PaidIsEntitled
BY DEF PlansInv

-----------------------------------------------------------------------------
(* A subscription is active only if it was paid for and stays active from   *)
(* the first callback that finds it, whatever else is asked for, paid and   *)
(* repeated; unless it was cancelled or the answer to the storing of its    *)
(* checkout id was lost (paymentController.js:211, routes.js:654-667).      *)
THEOREM PaidStaysEntitled == Plans!Spec => []Plans!PaidIsEntitled
BY InitPlans, NextPlans, PlansAreRight, PTL DEF Plans!Spec

-----------------------------------------------------------------------------
(* The page of a chat *)

Posts == Page!Posts

LEMMA AppendedTo ==
    ASSUME NEW s \in Seq(Posts), NEW p \in Posts
    PROVE  /\ Append(s, p) \in Seq(Posts) /\ Len(Append(s, p)) = Len(s) + 1
           /\ \A i \in 1 .. Len(s) : Append(s, p)[i] = s[i]
           /\ Page!ToSet(Append(s, p)) = Page!ToSet(s) \cup {p}
           /\ Page!IsInjective(s) /\ p \notin Page!ToSet(s) => Page!IsInjective(Append(s, p))
<1>1. /\ Append(s, p) \in Seq(Posts) /\ Len(Append(s, p)) = Len(s) + 1
      /\ \A i \in 1 .. Len(s) : Append(s, p)[i] = s[i]
      /\ Append(s, p)[Len(s) + 1] = p
  BY AppendProperties
<1>2. /\ Len(s) \in Nat /\ DOMAIN s = 1 .. Len(s)
      /\ DOMAIN Append(s, p) = 1 .. Len(s) + 1
  BY <1>1, LenProperties
<1>3. 1 .. Len(s) + 1 = (1 .. Len(s)) \cup {Len(s) + 1}
  BY <1>2
<1>4. Page!ToSet(Append(s, p)) = Page!ToSet(s) \cup {p}
  BY <1>1, <1>2, <1>3 DEF Page!ToSet
<1>5. Page!IsInjective(s) /\ p \notin Page!ToSet(s) => Page!IsInjective(Append(s, p))
  BY <1>1, <1>2, <1>3 DEF Page!ToSet, Page!IsInjective
<1> QED BY <1>1, <1>4, <1>5

LEMMA TakenFrom ==
    ASSUME NEW s \in Seq(Posts), s # <<>>
    PROVE  /\ Head(s) \in Posts /\ Tail(s) \in Seq(Posts)
           /\ Page!ToSet(s) = Page!ToSet(Tail(s)) \cup {Head(s)}
<1>1. /\ Head(s) \in Posts /\ Tail(s) \in Seq(Posts) /\ Len(Tail(s)) = Len(s) - 1
      /\ \A i \in 1 .. Len(Tail(s)) : Tail(s)[i] = s[i + 1]
  BY HeadTailProperties
<1>2. /\ Len(s) \in Nat \ {0} /\ DOMAIN s = 1 .. Len(s) /\ Head(s) = s[1]
      /\ DOMAIN Tail(s) = 1 .. Len(s) - 1
  BY <1>1, LenProperties, EmptySeq
<1>3. \A i \in 1 .. Len(s) : i = 1 \/ (i - 1 \in 1 .. Len(s) - 1 /\ i = (i - 1) + 1)
  BY <1>2
<1>4. \A i \in 1 .. Len(s) - 1 : i + 1 \in 1 .. Len(s)
  BY <1>2
<1>5. Page!ToSet(s) \subseteq Page!ToSet(Tail(s)) \cup {Head(s)}
  <2> SUFFICES ASSUME NEW i \in 1 .. Len(s)
               PROVE  s[i] \in Page!ToSet(Tail(s)) \cup {Head(s)}
    BY <1>2 DEF Page!ToSet
  <2>1. CASE i = 1
    BY <1>2, <2>1
  <2>2. CASE i # 1
    <3>1. i - 1 \in DOMAIN Tail(s) /\ Tail(s)[i - 1] = s[i]
      BY <1>1, <1>2, <1>3, <2>2
    <3> QED BY <3>1 DEF Page!ToSet
  <2> QED BY <2>1, <2>2
<1>6. Page!ToSet(Tail(s)) \cup {Head(s)} \subseteq Page!ToSet(s)
  <2>1. Head(s) \in Page!ToSet(s)
    BY <1>2 DEF Page!ToSet
  <2>2. ASSUME NEW i \in DOMAIN Tail(s) PROVE Tail(s)[i] \in Page!ToSet(s)
    BY <1>1, <1>2, <1>4 DEF Page!ToSet
  <2> QED BY <2>1, <2>2 DEF Page!ToSet
<1> QED BY <1>1, <1>5, <1>6

LEMMA PrefixOf ==
    ASSUME NEW s \in Seq(Posts), NEW n \in Nat, n <= Len(s)
    PROVE  /\ SubSeq(s, 1, n) \in Seq(Posts)
           /\ Page!ToSet(SubSeq(s, 1, n)) = {s[i] : i \in 1 .. n}
           /\ Page!IsInjective(s) => Page!IsInjective(SubSeq(s, 1, n))
<1>1. /\ Len(s) \in Nat /\ DOMAIN s = 1 .. Len(s) /\ \A i \in 1 .. Len(s) : s[i] \in Posts
  BY LenProperties, ElementOfSeq
<1>2. \A i \in 1 .. n : i \in 1 .. Len(s)
  BY <1>1
<1>3. /\ SubSeq(s, 1, n) \in Seq(Posts)
      /\ Len(SubSeq(s, 1, n)) = n
      /\ \A i \in 1 .. n : SubSeq(s, 1, n)[i] = s[i]
  BY <1>1, <1>2, SubSeqProperties
<1>4. DOMAIN SubSeq(s, 1, n) = 1 .. n
  BY <1>3, LenProperties
<1> QED BY <1>1, <1>2, <1>3, <1>4 DEF Page!ToSet, Page!IsInjective

LEMMA ContainsIsMembership ==
    ASSUME NEW s \in Seq(Posts), NEW p
    PROVE  Page!Contains(s, p) <=> p \in Page!ToSet(s)
BY LenProperties DEF Page!Contains, Page!ToSet

-----------------------------------------------------------------------------
PageTyped ==
    /\ log \in Seq(Posts) /\ channel \in Seq(Posts)
    /\ post \in [Posts -> {"idle", "sent", "allowed", "stored", "answered", "over"}]
    /\ page \in [load : {"asked", "read", "done"}, upto : Nat, shown : Seq(Posts)]
    /\ page.upto <= Len(log) /\ missed \in BOOLEAN

(* A message is stored once, and what is on its way or shown was stored. *)
StoredOnce ==
    /\ Page!IsInjective(log)
    /\ \A p \in Posts : p \in Page!ToSet(log) => post[p] \in {"stored", "answered", "over"}
    /\ \A p \in Posts : post[p] \in {"stored", "answered"} => p \in Page!ToSet(log)
    /\ Page!ToSet(channel) \cup Page!ToSet(page.shown) \subseteq Page!ToSet(log)
    /\ Page!IsInjective(page.shown)

(* The messages that listMessages read. *)
Read == {log[i] : i \in 1 .. page.upto}

(* Every message that was stored is shown or will come. *)
AllCome ==
    ~ missed =>
        /\ room
        /\ \A p \in Page!ToSet(log) :
              \/ p \in Page!ToSet(page.shown) \cup Page!ToSet(channel)
              \/ post[p] = "stored"
              \/ page.load = "asked"
              \/ page.load = "read" /\ p \in Read

PageInv == PageTyped /\ StoredOnce /\ AllCome

-----------------------------------------------------------------------------
LEMMA InitPage == Page!Init => PageInv
<1> SUFFICES ASSUME Page!Init PROVE PageInv
  OBVIOUS
<1>1. <<>> \in Seq(Posts) /\ Len(<<>>) = 0 /\ DOMAIN <<>> = {}
  BY EmptySeq
<1>2. Page!ToSet(<<>>) = {} /\ Page!IsInjective(<<>>)
  BY <1>1 DEF Page!ToSet, Page!IsInjective
<1>3. PageTyped
  <2>1. log \in Seq(Posts) /\ channel \in Seq(Posts) /\ page.upto <= Len(log)
    BY <1>1 DEF Page!Init
  <2>2. page \in [load : {"asked", "read", "done"}, upto : Nat, shown : Seq(Posts)]
    BY <1>1 DEF Page!Init
  <2>3. post \in [Posts -> {"idle", "sent", "allowed", "stored", "answered", "over"}]
    BY DEF Page!Init, Posts
  <2>4. missed \in BOOLEAN
    BY DEF Page!Init
  <2> QED BY <2>1, <2>2, <2>3, <2>4 DEF PageTyped
<1>4. StoredOnce /\ AllCome
  BY <1>2 DEF Page!Init, StoredOnce, AllCome, Posts
<1> QED BY <1>3, <1>4 DEF PageInv

(* A post that was not stored moves on, or one that was comes to its end. *)
LEMMA PostMovesOn ==
    ASSUME PageInv, NEW p \in Posts,
           \/ Page!handleSend(p) \/ Page!assertMessagingAllowed(p) \/ Page!PostFails(p)
    PROVE  PageInv'
<1> USE DEF PageInv
<1>1. PICK to \in {"sent", "allowed", "over"} :
          /\ post' = [post EXCEPT ![p] = to]
          /\ post[p] \in {"idle", "sent"} \/ to = "over"
          /\ post[p] = "stored" => missed'
  BY DEF Page!handleSend, Page!assertMessagingAllowed, Page!PostFails
<1>2. UNCHANGED <<log, room, channel, page>> /\ missed' \in BOOLEAN /\ (missed => missed')
  BY DEF Page!handleSend, Page!assertMessagingAllowed, Page!PostFails, PageTyped
<1>3. PageTyped'
  BY <1>1, <1>2 DEF PageTyped
<1>4. StoredOnce'
  BY <1>1, <1>2 DEF PageTyped, StoredOnce
<1>5. AllCome'
  BY <1>1, <1>2 DEF PageTyped, AllCome, Read
<1> QED BY <1>3, <1>4, <1>5

LEMMA StoringKeepsPage ==
    ASSUME PageInv, NEW p \in Posts, Page!sendMessage(p)
    PROVE  PageInv'
<1> USE DEF PageInv
<1>1. /\ post[p] = "allowed" /\ log' = Append(log, p) /\ post' = [post EXCEPT ![p] = "stored"]
      /\ UNCHANGED <<room, channel, page, missed>>
  BY DEF Page!sendMessage
<1>2. p \notin Page!ToSet(log)
  BY <1>1 DEF StoredOnce
<1>3. /\ log' \in Seq(Posts) /\ Len(log') = Len(log) + 1
      /\ \A i \in 1 .. Len(log) : log'[i] = log[i]
      /\ Page!ToSet(log') = Page!ToSet(log) \cup {p} /\ Page!IsInjective(log')
  BY <1>1, <1>2, AppendedTo DEF PageTyped, StoredOnce
<1>4. Len(log) \in Nat
  BY LenProperties DEF PageTyped
<1>5. PageTyped'
  BY <1>1, <1>3, <1>4 DEF PageTyped
<1>6. StoredOnce'
  BY <1>1, <1>3 DEF PageTyped, StoredOnce
<1>7. Read' = Read
  <2>1. \A i \in 1 .. page.upto : log'[i] = log[i]
    BY <1>3, <1>4 DEF PageTyped
  <2> QED BY <1>1, <2>1 DEF Read
<1>8. AllCome'
  BY <1>1, <1>3, <1>7 DEF PageTyped, AllCome
<1> QED BY <1>5, <1>6, <1>8

LEMMA EmittingKeepsPage ==
    ASSUME PageInv, NEW p \in Posts, Page!emitEvent(p)
    PROVE  PageInv'
<1> USE DEF PageInv
<1>1. /\ post[p] = "stored" /\ channel' = (IF room THEN Append(channel, p) ELSE channel)
      /\ post' = [post EXCEPT ![p] = "answered"] /\ UNCHANGED <<log, room, page, missed>>
  BY DEF Page!emitEvent
<1>2. /\ channel' \in Seq(Posts)
      /\ Page!ToSet(channel') = Page!ToSet(channel) \cup (IF room THEN {p} ELSE {})
  BY <1>1, AppendedTo DEF PageTyped
<1>3. PageTyped'
  BY <1>1, <1>2 DEF PageTyped
<1>4. StoredOnce'
  BY <1>1, <1>2 DEF PageTyped, StoredOnce
<1>5. AllCome'
  BY <1>1, <1>2 DEF PageTyped, AllCome, Read
<1> QED BY <1>3, <1>4, <1>5

(* What is added to the page is there once. *)
LEMMA AddedOnce ==
    ASSUME PageTyped, StoredOnce, NEW p \in Page!ToSet(log)
    PROVE  /\ Page!Added(p) \in [load : {"asked", "read", "done"}, upto : Nat, shown : Seq(Posts)]
           /\ Page!Added(p).load = page.load /\ Page!Added(p).upto = page.upto
           /\ Page!ToSet(Page!Added(p).shown) = Page!ToSet(page.shown) \cup {p}
           /\ Page!IsInjective(Page!Added(p).shown)
<1>1. p \in Posts /\ page.shown \in Seq(Posts)
  BY ElementOfSeq, LenProperties DEF PageTyped, Page!ToSet
<1>2. CASE p \in Page!ToSet(page.shown)
  BY <1>1, <1>2, ContainsIsMembership DEF Page!Added, PageTyped, StoredOnce
<1>3. CASE p \notin Page!ToSet(page.shown)
  <2> DEFINE more == Append(page.shown, p)
  <2>1. ~ Page!Contains(page.shown, p)
    BY <1>1, <1>3, ContainsIsMembership
  <2>2. Page!Added(p) = [page EXCEPT !.shown = more]
    BY <2>1 DEF Page!Added
  <2>3. /\ more \in Seq(Posts) /\ Page!ToSet(more) = Page!ToSet(page.shown) \cup {p}
        /\ Page!IsInjective(more)
    BY <1>1, <1>3, AppendedTo DEF StoredOnce
  <2> HIDE DEF more
  <2> QED BY <2>2, <2>3 DEF PageTyped
<1> QED BY <1>2, <1>3

LEMMA AnswerKeepsPage ==
    ASSUME PageInv, NEW p \in Posts, Page!Answered(p)
    PROVE  PageInv'
<1> USE DEF PageInv
<1>1. /\ post[p] = "answered" /\ post' = [post EXCEPT ![p] = "over"]
      /\ page' = IF p \in Own THEN Page!Added(p) ELSE page
      /\ UNCHANGED <<log, room, channel, missed>>
  BY DEF Page!Answered
<1>2. p \in Page!ToSet(log)
  BY <1>1 DEF StoredOnce
<1>3. /\ page' \in [load : {"asked", "read", "done"}, upto : Nat, shown : Seq(Posts)]
      /\ page'.load = page.load /\ page'.upto = page.upto
      /\ Page!ToSet(page'.shown) \subseteq Page!ToSet(page.shown) \cup {p}
      /\ Page!ToSet(page.shown) \subseteq Page!ToSet(page'.shown)
      /\ Page!IsInjective(page'.shown)
  BY <1>1, <1>2, AddedOnce DEF PageTyped, StoredOnce
<1>4. PageTyped'
  BY <1>1, <1>3 DEF PageTyped
<1>5. StoredOnce'
  BY <1>1, <1>2, <1>3 DEF PageTyped, StoredOnce
<1>6. AllCome'
  BY <1>1, <1>3 DEF PageTyped, AllCome, Read
<1> QED BY <1>4, <1>5, <1>6

LEMMA EventKeepsPage == PageInv /\ Page!onMessage => PageInv'
<1> SUFFICES ASSUME PageInv, Page!onMessage PROVE PageInv'
  OBVIOUS
<1> USE DEF PageInv
<1>1. /\ channel # <<>> /\ page' = Page!Added(Head(channel)) /\ channel' = Tail(channel)
      /\ UNCHANGED <<log, post, room, missed>>
  BY DEF Page!onMessage
<1>2. /\ Head(channel) \in Page!ToSet(log) /\ channel' \in Seq(Posts)
      /\ Page!ToSet(channel) = Page!ToSet(channel') \cup {Head(channel)}
  BY <1>1, TakenFrom DEF PageTyped, StoredOnce
<1>3. /\ page' \in [load : {"asked", "read", "done"}, upto : Nat, shown : Seq(Posts)]
      /\ page'.load = page.load /\ page'.upto = page.upto
      /\ Page!ToSet(page'.shown) = Page!ToSet(page.shown) \cup {Head(channel)}
      /\ Page!IsInjective(page'.shown)
  BY <1>1, <1>2, AddedOnce
<1>4. PageTyped'
  BY <1>1, <1>2, <1>3 DEF PageTyped
<1>5. StoredOnce'
  BY <1>1, <1>2, <1>3 DEF PageTyped, StoredOnce
<1>6. AllCome'
  BY <1>1, <1>2, <1>3 DEF PageTyped, AllCome, Read
<1> QED BY <1>4, <1>5, <1>6

LEMMA LoadKeepsPage ==
    ASSUME PageInv,
           Page!listMessages \/ Page!loadMessages \/ Page!LoadFails \/ Page!Disconnected
    PROVE  PageInv'
<1> USE DEF PageInv
<1>1. Len(log) \in Nat /\ DOMAIN log = 1 .. Len(log) /\ UNCHANGED <<log, post>>
  BY LenProperties DEF PageTyped, Page!listMessages, Page!loadMessages, Page!LoadFails,
                       Page!Disconnected
<1>2. CASE Page!listMessages
  <2>1. /\ page' = [page EXCEPT !.load = "read", !.upto = Len(log)]
        /\ UNCHANGED <<room, channel, missed>>
    BY <1>2 DEF Page!listMessages
  <2>2. /\ page'.load = "read" /\ page'.upto = Len(log) /\ page'.shown = page.shown
        /\ page' \in [load : {"asked", "read", "done"}, upto : Nat, shown : Seq(Posts)]
    BY <1>1, <2>1 DEF PageTyped
  <2>3. PageTyped'
    BY <1>1, <2>1, <2>2 DEF PageTyped
  <2>4. StoredOnce'
    BY <1>1, <2>1, <2>2 DEF StoredOnce
  <2>5. Read' = Page!ToSet(log)
    BY <1>1, <2>2 DEF Read, Page!ToSet
  <2>6. AllCome'
    BY <1>1, <2>1, <2>2, <2>5 DEF AllCome
  <2> QED BY <2>3, <2>4, <2>6
<1>3. CASE Page!loadMessages
  <2> DEFINE list == SubSeq(log, 1, page.upto)
  <2>1. /\ page.load = "read" /\ page' = [page EXCEPT !.load = "done", !.shown = list]
        /\ missed' = (missed \/ \E m \in Page!ToSet(page.shown) : ~ Page!Contains(list, m))
        /\ UNCHANGED <<room, channel>>
    BY <1>3 DEF Page!loadMessages
  <2>2. list \in Seq(Posts) /\ Page!ToSet(list) = Read /\ Page!IsInjective(list)
    BY PrefixOf DEF PageTyped, StoredOnce, Read
  <2>3. Read \subseteq Page!ToSet(log)
    BY <1>1 DEF PageTyped, Read, Page!ToSet
  <2>4. ~ missed' => ~ missed /\ Page!ToSet(page.shown) \subseteq Read
    BY <2>1, <2>2, ContainsIsMembership
  <2>5. missed' \in BOOLEAN
    BY <2>1
  <2> HIDE DEF list
  <2>6. /\ page'.load = "done" /\ page'.upto = page.upto /\ page'.shown = list
        /\ page' \in [load : {"asked", "read", "done"}, upto : Nat, shown : Seq(Posts)]
    BY <2>1, <2>2 DEF PageTyped
  <2>7. PageTyped'
    BY <1>1, <2>1, <2>5, <2>6 DEF PageTyped
  <2>8. StoredOnce'
    BY <1>1, <2>1, <2>2, <2>3, <2>6 DEF StoredOnce
  <2>9. AllCome'
    BY <1>1, <2>1, <2>2, <2>4, <2>6 DEF AllCome
  <2> QED BY <2>7, <2>8, <2>9
<1>4. CASE Page!LoadFails
  <2>1. page' = [page EXCEPT !.load = "done"] /\ missed' = TRUE /\ UNCHANGED <<room, channel>>
    BY <1>4 DEF Page!LoadFails
  <2>2. /\ page'.load = "done" /\ page'.upto = page.upto /\ page'.shown = page.shown
        /\ page' \in [load : {"asked", "read", "done"}, upto : Nat, shown : Seq(Posts)]
    BY <2>1 DEF PageTyped
  <2>3. PageTyped'
    BY <1>1, <2>1, <2>2 DEF PageTyped
  <2>4. StoredOnce' /\ AllCome'
    BY <1>1, <2>1, <2>2 DEF StoredOnce, AllCome
  <2> QED BY <2>3, <2>4
<1>5. CASE Page!Disconnected
  <2>1. channel' = <<>> /\ missed' = TRUE /\ page' = page
    BY <1>5 DEF Page!Disconnected
  <2>2. channel' \in Seq(Posts) /\ Page!ToSet(channel') = {}
    BY <2>1, EmptySeq DEF Page!ToSet
  <2>3. PageTyped'
    BY <1>1, <2>1, <2>2 DEF PageTyped
  <2>4. StoredOnce' /\ AllCome'
    BY <1>1, <2>1, <2>2 DEF StoredOnce, AllCome
  <2> QED BY <2>3, <2>4
<1> QED BY <1>2, <1>3, <1>4, <1>5

LEMMA NextPage == PageInv /\ [Page!Next]_(Page!vars) => PageInv'
<1> SUFFICES ASSUME PageInv, [Page!Next]_(Page!vars) PROVE PageInv'
  OBVIOUS
<1>1. CASE UNCHANGED Page!vars \/ Page!Closes
  <2>1. UNCHANGED <<log, post, room, channel, page, missed>>
    BY <1>1 DEF Page!vars, Page!Closes
  <2> QED BY <2>1 DEF PageInv, PageTyped, StoredOnce, AllCome, Read
<1>2. CASE Page!Next /\ ~ Page!Closes
  BY <1>2, PostMovesOn, StoringKeepsPage, EmittingKeepsPage, AnswerKeepsPage, EventKeepsPage,
     LoadKeepsPage DEF Page!Next, Posts
<1> QED BY <1>1, <1>2

LEMMA PageIsRight == PageInv => Page!PageAgrees
<1> SUFFICES ASSUME PageInv PROVE Page!PageAgrees
  OBVIOUS
<1>1. Page!IsInjective(page.shown)
  BY DEF PageInv, StoredOnce
<1>2. ASSUME Page!Quiet, ~ missed PROVE Page!ToSet(page.shown) = Page!ToSet(log)
  <2>1. Page!ToSet(channel) = {}
    BY <1>2, EmptySeq DEF Page!Quiet, Page!ToSet
  <2>2. \A p \in Page!ToSet(log) : p \in Posts
    BY ElementOfSeq, LenProperties DEF PageInv, PageTyped, Page!ToSet
  <2> QED BY <1>2, <2>1, <2>2 DEF PageInv, StoredOnce, AllCome, Page!Quiet, Posts
<1> QED BY <1>1, <1>2 DEF Page!PageAgrees

-----------------------------------------------------------------------------
(* The page shows each message once and, when nothing is on its way, all    *)
(* that were stored, in whatever order list, events and answers come;       *)
(* unless an event was lost or the list came late (InAppChat.tsx:73-112,    *)
(* 200-211).                                                                *)
THEOREM PageShowsAll == Page!Spec => []Page!PageAgrees
BY InitPage, NextPage, PageIsRight, PTL DEF Page!Spec

-----------------------------------------------------------------------------
(* The connection pool *)

RunStates == {"unused", "probe", "end", "done"}

ConnectionTyped ==
    /\ pool \in Connection!Pools \cup {None}
    /\ DOMAIN pools = Connection!Pools
    /\ inits \in [Connection!Pools -> [pc : RunStates, on : Connection!Pools \cup {None}]]
    /\ DOMAIN task = Requests

(* While clean-ups and probes come one at a time, a probe is one of the     *)
(* pool in use, a failed one has left its error, and a backend without a    *)
(* pool knows that it has to make one.                                      *)
OneByOne ==
    /\ \A x, y \in Connection!Busy : x = y
    /\ \A p \in Connection!Pools :
          /\ inits[p].pc = "probe" => pool = p /\ pools[p] \in {"open", "stale"}
          /\ inits[p].pc = "end" => lastError
    /\ pool = None => initPromise = None \/ lastError

ConnectionInv == ConnectionTyped /\ (overlap \/ OneByOne)

-----------------------------------------------------------------------------
LEMMA InitConnection == None \notin Connection!Pools /\ Connection!Init => ConnectionInv
BY DEF Connection!Init, ConnectionInv, ConnectionTyped, OneByOne, RunStates, Connection!Busy,
       Connection!Idle

(* The module counts with its own instance of FiniteSets. *)
LEMMA ConnectionCounts == \A S : Connection!Cardinality(S) = Cardinality(S)
BY DEF Cardinality, Connection!Cardinality

(* overlap is raised by the step after which two are busy. *)
LEMMA FewBusy ==
    ASSUME IsFiniteSet(Requests), MaxPools \in Nat, Connection!Next, ~ overlap'
    PROVE  ~ overlap /\ \A x, y \in Connection!Busy' : x = y
<1>1. ~ overlap /\ ~ (Cardinality(Connection!Busy') > 1)
  BY ConnectionCounts DEF Connection!Next
<1>2. Connection!Busy' \subseteq Requests \cup Connection!Pools
  BY DEF Connection!Busy
<1>3. IsFiniteSet(Connection!Pools)
  BY FS_Interval DEF Connection!Pools
<1>4. IsFiniteSet(Connection!Busy')
  BY <1>2, <1>3, FS_Union, FS_Subset
<1>5. ASSUME NEW x \in Connection!Busy', NEW y \in Connection!Busy', x # y
      PROVE  FALSE
  <2>1. IsFiniteSet({x}) /\ Cardinality({x}) = 1
    BY FS_Singleton
  <2>2. Cardinality({x} \cup {y}) = Cardinality({x}) + 1
    BY <1>5, <2>1, FS_AddElement
  <2>3. {x} \cup {y} \subseteq Connection!Busy'
    OBVIOUS
  <2>4. /\ Cardinality({x} \cup {y}) <= Cardinality(Connection!Busy')
        /\ Cardinality(Connection!Busy') \in Nat
    BY <1>4, <2>3, FS_Subset, FS_CardinalityType
  <2> QED BY <1>1, <2>1, <2>2, <2>4
<1> QED BY <1>1, <1>5

LEMMA StepKeepsConnectionTyped ==
    ASSUME ConnectionTyped, Connection!Step PROVE ConnectionTyped'
<1> USE DEF ConnectionTyped
<1>1. ASSUME NEW r \in Requests,
             \/ Connection!Run(r) \/ Connection!Destroyed(r) \/ Connection!Call(r)
             \/ Connection!Return(r) \/ Connection!Destroy(r)
      PROVE  ConnectionTyped'
  <2>1. CASE Connection!Run(r)
    BY <2>1 DEF Connection!Run, Connection!Ends, Connection!Forgotten
  <2>2. CASE Connection!Destroyed(r)
    BY <2>2 DEF Connection!Destroyed, Connection!Forgotten
  <2>3. CASE Connection!Call(r)
    BY <2>3 DEF Connection!Call, RunStates
  <2>4. CASE Connection!Return(r)
    BY <2>4 DEF Connection!Return
  <2>5. CASE Connection!Destroy(r)
    BY <2>5 DEF Connection!Destroy, Connection!Forgotten, Connection!Ending
  <2> QED BY <1>1, <2>1, <2>2, <2>3, <2>4, <2>5
<1>2. ASSUME NEW p \in Connection!Pools,
             \/ Connection!ProbeEnded(p) \/ Connection!ProbeSucceeds(p)
             \/ Connection!ProbeFails(p) \/ Connection!Drain(p)
      PROVE  ConnectionTyped'
  <2>1. CASE Connection!ProbeEnded(p)
    BY <2>1 DEF Connection!ProbeEnded, RunStates
  <2>2. CASE Connection!ProbeSucceeds(p)
    BY <2>2 DEF Connection!ProbeSucceeds, RunStates
  <2>3. CASE Connection!ProbeFails(p)
    BY <2>3 DEF Connection!ProbeFails, Connection!Ending, RunStates
  <2>4. CASE Connection!Drain(p)
    BY <2>4 DEF Connection!Drain
  <2> QED BY <1>2, <2>1, <2>2, <2>3, <2>4
<1>3. CASE Connection!Suspend \/ Connection!Resume
  BY <1>3 DEF Connection!Suspend, Connection!Resume
<1> QED BY <1>1, <1>2, <1>3 DEF Connection!Step

LEMMA CallKeepsConnection ==
    ASSUME ConnectionTyped, OneByOne, None \notin Connection!Pools,
           \A x, y \in Connection!Busy' : x = y,
           Requests \cap Connection!Pools = {}, NEW r \in Requests,
           \/ Connection!Run(r) \/ Connection!Destroyed(r) \/ Connection!Call(r)
           \/ Connection!Return(r) \/ Connection!Destroy(r)
    PROVE  OneByOne'
<1> USE DEF ConnectionTyped
<1>1. CASE Connection!Run(r) \/ Connection!Return(r)
  <2>1. inits' = inits /\ pools' = pools
    BY <1>1 DEF Connection!Run, Connection!Return
  <2>2. CASE UNCHANGED <<pool, initPromise, lastError>>
    BY <2>1, <2>2 DEF OneByOne
  <2>3. CASE ~ Connection!Ends(pool) /\ Connection!Forgotten(r)
    <3>1. \A p \in Connection!Pools : inits[p].pc # "probe"
      BY <2>3 DEF OneByOne, Connection!Ends
    <3> QED BY <2>1, <2>3, <3>1 DEF OneByOne, Connection!Forgotten
  <2> QED BY <1>1, <2>2, <2>3 DEF Connection!Run, Connection!Return
<1>2. CASE Connection!Destroyed(r)
  <2>1. task[r].pc = "end" /\ r \in Connection!Busy
    BY <1>2 DEF Connection!Destroyed, Connection!Busy
  <2>2. /\ pool' = None /\ initPromise' = None /\ lastError' = TRUE
        /\ inits' = inits
    BY <1>2 DEF Connection!Destroyed, Connection!Forgotten
  <2>3. \A p \in Connection!Pools : inits[p].pc \notin {"probe", "end"}
    BY <2>1 DEF OneByOne, Connection!Busy
  <2> QED BY <2>2, <2>3 DEF OneByOne
<1>3. CASE Connection!Destroy(r)
  <2>1. CASE Connection!Ends(pool)
    <3>1. /\ pool \in Connection!Pools /\ task' = [task EXCEPT ![r] = [pc |-> "end", on |-> pool]]
          /\ inits' = inits /\ UNCHANGED <<pool, initPromise, lastError>>
      BY <1>3, <2>1 DEF Connection!Destroy, Connection!Ends
    <3>2. r \in Connection!Busy'
      BY <3>1 DEF Connection!Busy
    <3>3. \A p \in Connection!Pools : inits[p].pc \notin {"probe", "end"}
      BY <3>1, <3>2 DEF Connection!Busy
    <3> QED BY <3>1, <3>3 DEF OneByOne
  <2>2. CASE ~ Connection!Ends(pool)
    <3>1. /\ pool' = None /\ initPromise' = None /\ lastError' = TRUE
          /\ inits' = inits
      BY <1>3, <2>2 DEF Connection!Destroy, Connection!Forgotten
    <3>2. \A p \in Connection!Pools : inits[p].pc # "probe"
      BY <2>2 DEF OneByOne, Connection!Ends
    <3> QED BY <3>1, <3>2 DEF OneByOne
  <2> QED BY <2>1, <2>2
<1>4. CASE Connection!Call(r)
  <2>1. lastError' = lastError
    BY <1>4 DEF Connection!Call
  <2>2. CASE UNCHANGED <<pool, initPromise, pools, inits>>
    BY <2>1, <2>2 DEF OneByOne
  <2>3. CASE ~ UNCHANGED <<pool, initPromise, pools, inits>>
    <3>1. PICK p \in Connection!Pools :
              /\ inits[p].pc = "unused"
              /\ IF pool = None
                 THEN /\ pool' = p
                      /\ pools' = [pools EXCEPT ![p] = IF up THEN "open" ELSE "stale"]
                      /\ inits' = [inits EXCEPT ![p].pc = "probe"]
                 ELSE /\ inits' = [inits EXCEPT ![p].pc = "done"]
                      /\ UNCHANGED <<pool, pools>>
      BY <1>4, <2>3 DEF Connection!Call
    <3>2. CASE pool = None
      <4>1. \A q \in Connection!Pools : inits[q].pc # "probe"
        BY <3>2 DEF OneByOne
      <4> QED BY <2>1, <3>1, <3>2, <4>1 DEF OneByOne
    <3>3. CASE pool # None
      BY <2>1, <3>1, <3>3 DEF OneByOne
    <3> QED BY <3>2, <3>3
  <2> QED BY <2>2, <2>3
<1> QED BY <1>1, <1>2, <1>3, <1>4

LEMMA PoolKeepsConnection ==
    ASSUME ConnectionTyped, OneByOne, None \notin Connection!Pools,
           \A x, y \in Connection!Busy' : x = y, NEW p \in Connection!Pools,
           \/ Connection!ProbeEnded(p) \/ Connection!ProbeSucceeds(p)
           \/ Connection!ProbeFails(p) \/ Connection!Drain(p)
    PROVE  OneByOne'
<1> USE DEF ConnectionTyped
<1>1. ASSUME inits[p].pc \in {"probe", "end"}
      PROVE  \A q \in Connection!Pools : q # p => inits[q].pc \notin {"probe", "end"}
  BY <1>1 DEF OneByOne, Connection!Busy
<1>2. CASE Connection!ProbeEnded(p)
  <2>1. /\ inits[p].pc = "end" /\ inits' = [inits EXCEPT ![p].pc = "done"]
        /\ pool' = None /\ lastError' = lastError
    BY <1>2 DEF Connection!ProbeEnded, Connection!ProbeResumable
  <2> QED BY <1>1, <2>1 DEF OneByOne
<1>3. CASE Connection!ProbeSucceeds(p)
  <2>1. /\ inits[p].pc = "probe" /\ inits' = [inits EXCEPT ![p].pc = "done"]
        /\ UNCHANGED <<pool, initPromise>>
    BY <1>3 DEF Connection!ProbeSucceeds
  <2> QED BY <1>1, <2>1 DEF OneByOne
<1>4. CASE Connection!ProbeFails(p)
  <2>1. /\ inits[p].pc = "probe" /\ lastError' = TRUE
        /\ \/ inits' = [inits EXCEPT ![p] = [pc |-> "end", on |-> pool]]
           \/ inits' = [inits EXCEPT ![p].pc = "done"]
    BY <1>4 DEF Connection!ProbeFails
  <2> QED BY <1>1, <2>1 DEF OneByOne
<1>5. CASE Connection!Drain(p)
  <2>1. /\ inits[p].pc # "probe" /\ pools' = [pools EXCEPT ![p] = "ended"]
        /\ UNCHANGED <<pool, initPromise, lastError, inits>>
    BY <1>5 DEF Connection!Drain
  <2> QED BY <2>1 DEF OneByOne
<1> QED BY <1>2, <1>3, <1>4, <1>5

LEMMA NextConnection ==
    ASSUME IsFiniteSet(Requests), MaxPools \in Nat, None \notin Connection!Pools,
           Requests \cap Connection!Pools = {}
    PROVE  ConnectionInv /\ [Connection!Next]_(Connection!vars) => ConnectionInv'
<1> SUFFICES ASSUME ConnectionInv, [Connection!Next]_(Connection!vars) PROVE ConnectionInv'
  OBVIOUS
<1>1. CASE UNCHANGED Connection!vars
  BY <1>1 DEF Connection!vars, Connection!state, ConnectionInv, ConnectionTyped, OneByOne,
              Connection!Busy
<1>2. CASE Connection!Next
  <2>1. ConnectionTyped /\ ConnectionTyped'
    BY <1>2, StepKeepsConnectionTyped DEF ConnectionInv, Connection!Next
  <2>2. ASSUME ~ overlap' PROVE OneByOne'
    <3>1. OneByOne /\ \A x, y \in Connection!Busy' : x = y
      BY <1>2, <2>2, FewBusy DEF ConnectionInv
    <3>2. CASE Connection!Suspend \/ Connection!Resume
      BY <2>1, <3>1, <3>2 DEF Connection!Suspend, Connection!Resume, OneByOne, ConnectionTyped
    <3> QED BY <1>2, <2>1, <3>1, <3>2, CallKeepsConnection, PoolKeepsConnection
            DEF Connection!Next, Connection!Step
  <2> QED BY <2>1, <2>2 DEF ConnectionInv
<1> QED BY <1>1, <1>2

LEMMA ConnectionIsRight == ConnectionInv => Connection!Reconnects
BY DEF ConnectionInv, OneByOne, Connection!Reconnects

-----------------------------------------------------------------------------
(* Whatever calls, probes and suspensions of the database interleave, a     *)
(* lost pool is made again by the next call, unless two clean-ups or probes *)
(* were under way at once (db.js:169-170).                                  *)
THEOREM NextCallReconnects ==
    ASSUME IsFiniteSet(Requests), MaxPools \in Nat, None \notin Connection!Pools,
           Requests \cap Connection!Pools = {}
    PROVE  Connection!Spec => []Connection!Reconnects
BY InitConnection, NextConnection, ConnectionIsRight, PTL DEF Connection!Spec
=============================================================================
