----------------------------- MODULE ChatScreen -----------------------------
(***************************************************************************)
(* The chat screen of the apps (ChatScreen.tsx of the customers,           *)
(* JobChatScreen.tsx of the fundis): it asks for the whole list when it    *)
(* opens, at each event and every five seconds, and shows whatever list    *)
(* has come in last.  Requests overlap, and an old list may come in after  *)
(* a newer one.  A list stands for its length, for messages are only ever  *)
(* added at its end.                                                       *)
(***************************************************************************)
EXTENDS Naturals

CONSTANTS
    MaxMessages   \* bound: messages of the booking

VARIABLES
    stored,   \* messages of the booking
    on,       \* the screen is open
    ears,     \* the screen's subscription to the room works
    answers,  \* lists on their way to the screen
    shown     \* the length of the list on the screen

vars == <<stored, on, ears, answers, shown>>

Init ==
    /\ stored \in 0 .. MaxMessages
    /\ on = TRUE
    /\ ears \in BOOLEAN
    /\ answers = {stored}
    /\ shown = 0

(* A message is stored, and the screen asks when it hears of it. *)
sendMessage ==
    /\ stored < MaxMessages
    /\ stored' = stored + 1
    /\ \E heard \in BOOLEAN :
           answers' = IF on /\ ears /\ heard THEN answers \cup {stored'} ELSE answers
    /\ UNCHANGED <<on, ears, shown>>

(* The connection is lost for a while or for good: nothing joins the room   *)
(* of the booking again.                                                    *)
Disconnected ==
    /\ ears
    /\ ears' = FALSE
    /\ UNCHANGED <<stored, on, answers, shown>>

(* Mutant: the screen relies on events as long as it hears them. *)
PollWhenDeaf ==
    /\ on
    /\ ~ears
    /\ answers' = answers \cup {stored}
    /\ UNCHANGED <<stored, on, ears, shown>>

(* The timer. *)
Poll ==
    /\ on
    /\ answers' = answers \cup {stored}
    /\ UNCHANGED <<stored, on, ears, shown>>

loadMessages(n) ==
    /\ n \in answers
    /\ answers' = answers \ {n}
    /\ shown' = IF on THEN n ELSE shown
    /\ UNCHANGED <<stored, on, ears>>

LoadFails(n) ==
    /\ n \in answers
    /\ answers' = answers \ {n}
    /\ UNCHANGED <<stored, on, ears, shown>>

(* The user leaves: the timer is cleared and the subscription ended. *)
Leaves ==
    /\ on
    /\ on' = FALSE
    /\ UNCHANGED <<stored, ears, answers, shown>>

Next ==
    \/ sendMessage \/ Disconnected \/ Poll \/ Leaves
    \/ \E n \in 0 .. MaxMessages : loadMessages(n) \/ LoadFails(n)

LoadsAll == loadMessages(stored)

(* The timer runs for as long as the screen is open, and a list that is     *)
(* asked for again and again comes in in the end.                           *)
Fairness == WF_vars(Poll) /\ SF_vars(LoadsAll)

Spec == Init /\ [][Next]_vars /\ Fairness

-----------------------------------------------------------------------------
(* The screen shows every message. *)
CaughtUp == on => shown = stored

(* The screen comes to show every message and keeps showing them, in        *)
(* whatever order its lists come in and whether it hears of them or not,    *)
(* for as long as it is open (JobChatScreen.tsx:38-63).                     *)
ShowsAllInTheEnd == <>[]CaughtUp
=============================================================================
