-------------------------------- MODULE Chat --------------------------------
(***************************************************************************)
(* The messages of one booking: chatController.js and the chat of the web  *)
(* (InAppChat.tsx) as one user has it open.  The page loads the list once  *)
(* and then lives on the events of the booking's room and on the answers   *)
(* to its own posts.                                                       *)
(*                                                                         *)
(* All messages are those of web pages: the apps post { text } where the   *)
(* server reads { body }, so that each of their posts is refused.          *)
(* Receipts (read_at) are left out.                                        *)
(***************************************************************************)
EXTENDS Naturals, Sequences, SequencesExt

CONSTANTS
    Own,     \* posts of this page
    Others   \* posts of other pages

Posts == Own \cup Others

VARIABLES
    open,     \* the status of the booking allows messages
    log,      \* chat_messages, oldest first
    post,     \* where each post is
    room,     \* the connection of the page is in the room of the booking
    channel,  \* events on their way to the page, in order
    page,     \* the page: its load, how far that has read, what it shows
    missed    \* history: an event or the list was lost, or an answer came late

vars == <<open, log, post, room, channel, page, missed>>

Init ==
    /\ open = TRUE
    /\ log = <<>>
    /\ post = [p \in Posts |-> "idle"]
    /\ room = TRUE
    /\ channel = <<>>
    /\ page = [load |-> "asked", upto |-> 0, shown |-> <<>>]
    /\ missed = FALSE

-----------------------------------------------------------------------------
(* The server. *)

(* The booking is cancelled, fails or expires, or was completed long ago. *)
Closes ==
    /\ open
    /\ open' = FALSE
    /\ UNCHANGED <<log, post, room, channel, page, missed>>

(* The status is read when the post comes in, and not again. *)
assertMessagingAllowed(p) ==
    /\ post[p] = "sent"
    /\ post' = [post EXCEPT ![p] = IF open THEN "allowed" ELSE "over"]
    /\ UNCHANGED <<open, log, room, channel, page, missed>>

sendMessage(p) ==
    /\ post[p] = "allowed"
    /\ log' = Append(log, p)
    /\ post' = [post EXCEPT ![p] = "stored"]
    /\ UNCHANGED <<open, room, channel, page, missed>>

emitEvent(p) ==
    /\ post[p] = "stored"
    /\ channel' = IF room THEN Append(channel, p) ELSE channel
    /\ post' = [post EXCEPT ![p] = "answered"]
    /\ UNCHANGED <<open, log, room, page, missed>>

(* The post fails on its way, or the server stops in it. *)
PostFails(p) ==
    /\ post[p] \in {"sent", "allowed", "stored", "answered"}
    /\ post' = [post EXCEPT ![p] = "over"]
    /\ missed' = (missed \/ post[p] = "stored")
    /\ UNCHANGED <<open, log, room, channel, page>>

-----------------------------------------------------------------------------
(* The web page. *)

handleSend(p) ==
    /\ post[p] = "idle"
    /\ post' = [post EXCEPT ![p] = "sent"]
    /\ UNCHANGED <<open, log, room, channel, page, missed>>

(* A message the page shows already is not added. *)
Added(p) == [page EXCEPT !.shown = IF Contains(@, p) THEN @ ELSE Append(@, p)]

Answered(p) ==
    /\ post[p] = "answered"
    /\ post' = [post EXCEPT ![p] = "over"]
    /\ page' = IF p \in Own THEN Added(p) ELSE page
    /\ UNCHANGED <<open, log, room, channel, missed>>

(* Mutant: events are news only once the list is there. *)
onMessageLoaded ==
    /\ channel # <<>>
    /\ page' = IF page.load = "done" THEN Added(Head(channel)) ELSE page
    /\ channel' = Tail(channel)
    /\ UNCHANGED <<open, log, post, room, missed>>

onMessage ==
    /\ channel # <<>>
    /\ page' = Added(Head(channel))
    /\ channel' = Tail(channel)
    /\ UNCHANGED <<open, log, post, room, missed>>

(* listMessages reads for the page... *)
listMessages ==
    /\ page.load = "asked"
    /\ page' = [page EXCEPT !.load = "read", !.upto = Len(log)]
    /\ UNCHANGED <<open, log, post, room, channel, missed>>

(* ...and its answer replaces whatever the page shows by then. *)
loadMessages ==
    /\ page.load = "read"
    /\ LET list == SubSeq(log, 1, page.upto)
       IN  /\ page' = [page EXCEPT !.load = "done", !.shown = list]
           /\ missed' = (missed \/ \E m \in ToSet(page.shown) : ~Contains(list, m))
    /\ UNCHANGED <<open, log, post, room, channel>>

LoadFails ==
    /\ page.load \in {"asked", "read"}
    /\ page' = [page EXCEPT !.load = "done"]
    /\ missed' = TRUE
    /\ UNCHANGED <<open, log, post, room, channel>>

(* The connection is lost, with the events on it; the new one is in no room. *)
Disconnected ==
    /\ room
    /\ room' = FALSE
    /\ channel' = <<>>
    /\ missed' = TRUE
    /\ UNCHANGED <<open, log, post, page>>

Next ==
    \/ Closes
    \/ \E p \in Posts :
           \/ handleSend(p) \/ assertMessagingAllowed(p) \/ sendMessage(p) \/ emitEvent(p)
           \/ Answered(p) \/ PostFails(p)
    \/ onMessage \/ listMessages \/ loadMessages \/ LoadFails \/ Disconnected

Spec == Init /\ [][Next]_vars

-----------------------------------------------------------------------------
(* Nothing of a message that was stored is on its way to the page. *)
Quiet ==
    /\ page.load = "done"
    /\ channel = <<>>
    /\ \A p \in Posts : post[p] # "stored"
    /\ \A p \in Own : post[p] # "answered"

(* The page shows each message once, by whichever of list, event and answer *)
(* it comes, and all that were stored when nothing is on its way; unless an *)
(* event was lost or the list came late (InAppChat.tsx:73-112, 200-211).   *)
PageAgrees ==
    /\ IsInjective(page.shown)
    /\ Quiet /\ ~missed => ToSet(page.shown) = ToSet(log)
=============================================================================
