--------------------------- MODULE MobileSession ---------------------------
(***************************************************************************)
(* The session of a mobile app: the tokens apiClient.ts keeps and renews   *)
(* and the refresh tokens authController.js issues and revokes.            *)
(*                                                                         *)
(* A step of the app runs from one await to the next; an answer may come   *)
(* long after the server gave it.  Every session the server issues has a   *)
(* number, which stands for its access token and its refresh token.        *)
(***************************************************************************)
EXTENDS Naturals

CONSTANTS
    Calls,       \* calls of request and upload at a time
    MaxIssued,   \* bound: sessions issued
    MaxFaults,   \* bound: answers lost and requests that fail half-way
    None

Sessions == 1 .. MaxIssued

VARIABLES
    issued,    \* sessions issued so far
    live,      \* refresh tokens that are not revoked
    fresh,     \* access tokens that have not expired
    held,      \* token and refreshToken in the app's memory, None for null
    call,      \* where each call is, the token it was sent with, the refresh it awaits
    flight,    \* the refresh each call began, with the token it presents or got
    leaving,   \* where logout is, and the refresh token it names
    faults,    \* history: answers lost and requests that failed half-way
    revoked,   \* history: the staff revoked the sessions
    left,      \* history: a logout was begun
    raced,     \* history: a refresh was in flight during a logout
    ended      \* history: a call ended with "Session expired"

vars == <<issued, live, fresh, held, call, flight, leaving, faults, revoked, left, raced, ended>>

Idle == [pc |-> "idle", token |-> None, on |-> None]
NoFlight == [pc |-> "none", token |-> None]
Out == [pc |-> "no", token |-> None]

Init ==
    /\ issued = 0 /\ live = {} /\ fresh = {} /\ held = None
    /\ call = [c \in Calls |-> Idle] /\ flight = [c \in Calls |-> NoFlight]
    /\ leaving = Out
    /\ faults = 0 /\ revoked = FALSE /\ left = FALSE /\ raced = FALSE /\ ended = FALSE

InFlight == {c \in Calls : flight[c].pc # "none"}

-----------------------------------------------------------------------------
(* The server *)

(* issueSession *)
Issue ==
    /\ issued < MaxIssued
    /\ issued' = issued + 1
    /\ live' = live \cup {issued + 1}
    /\ fresh' = fresh \cup {issued + 1}

(* The server looks the refresh token up, *)
refresh(f) ==
    /\ flight[f].pc = "sent"
    /\ flight' = [flight EXCEPT ![f].pc = IF flight[f].token \in live THEN "read" ELSE "denied"]
    /\ UNCHANGED <<issued, live, fresh, held, call, leaving, faults, revoked, left, raced, ended>>

(* Mutant: the refresh token that was used stays good. *)
RevokeNothing(f) ==
    /\ flight[f].pc = "read"
    /\ flight' = [flight EXCEPT ![f].pc = "used"]
    /\ UNCHANGED <<issued, live, fresh, held, call, leaving, faults, revoked, left, raced, ended>>

(* revokes it, *)
RevokeUsed(f) ==
    /\ flight[f].pc = "read"
    /\ live' = live \ {flight[f].token}
    /\ flight' = [flight EXCEPT ![f].pc = "used"]
    /\ UNCHANGED <<issued, fresh, held, call, leaving, faults, revoked, left, raced, ended>>

(* and issues a session, whoever has revoked what in the meantime. *)
ReplaceUsed(f) ==
    /\ flight[f].pc = "used"
    /\ Issue
    /\ flight' = [flight EXCEPT ![f] = [pc |-> "granted", token |-> issued + 1]]
    /\ UNCHANGED <<held, call, leaving, faults, revoked, left, raced, ended>>

(* The request or its answer is lost, or the server stops between two of    *)
(* its statements; the app cannot tell.                                     *)
RefreshFails(f) ==
    /\ flight[f].pc \in {"sent", "read", "used", "granted"} /\ faults < MaxFaults
    /\ faults' = faults + 1
    /\ flight' = [flight EXCEPT ![f].pc = "denied"]
    /\ UNCHANGED <<issued, live, fresh, held, call, leaving, revoked, left, raced, ended>>

forceLogout ==
    /\ live # {}
    /\ live' = {} /\ revoked' = TRUE
    /\ UNCHANGED <<issued, fresh, held, call, flight, leaving, faults, left, raced, ended>>

(* A call does not last as long as a token that was just issued. *)
Expire ==
    /\ \E a \in fresh :
          /\ \A c \in Calls : ~ (call[c].pc = "again" /\ call[c].token = a)
          /\ fresh' = fresh \ {a}
    /\ UNCHANGED <<issued, live, held, call, flight, leaving, faults, revoked, left, raced, ended>>

(* authRequired *)
Serve(c) ==
    /\ call[c].pc \in {"sent", "again"}
    /\ call' = [call EXCEPT ![c] = IF call[c].pc = "sent" /\ call[c].token \notin fresh
                                   THEN [@ EXCEPT !.pc = "refused"] ELSE Idle]
    /\ UNCHANGED <<issued, live, fresh, held, flight, leaving, faults, revoked, left, raced, ended>>

-----------------------------------------------------------------------------
(* The app *)

request(c) ==
    /\ call[c] = Idle /\ held # None
    /\ call' = [call EXCEPT ![c] = [pc |-> "sent", token |-> held, on |-> None]]
    /\ UNCHANGED <<issued, live, fresh, held, flight, leaving, faults, revoked, left, raced, ended>>

(* Mutant: every call refreshes for itself. *)
OwnFlight(c) == c

(* refreshPromise: the refresh that is in flight is everybody's. *)
Shared(c) == IF InFlight = {} THEN c ELSE CHOOSE f \in InFlight : TRUE

refreshTokens(c) ==
    /\ call[c].pc = "refused"
    /\ IF held = None
       THEN /\ call' = [call EXCEPT ![c] = Idle]
            /\ UNCHANGED <<flight, raced>>
       ELSE /\ call' = [call EXCEPT ![c] = [@ EXCEPT !.pc = "waiting", !.on = Shared(c)]]
            /\ flight' = IF Shared(c) = c
                         THEN [flight EXCEPT ![c] = [pc |-> "sent", token |-> held]] ELSE flight
            /\ raced' = (raced \/ leaving # Out)
    /\ UNCHANGED <<issued, live, fresh, held, leaving, faults, revoked, left, ended>>

saveTokens(f) ==
    /\ flight[f].pc = "granted"
    /\ held' = flight[f].token
    /\ flight' = [flight EXCEPT ![f].pc = "saved"]
    /\ UNCHANGED <<issued, live, fresh, call, leaving, faults, revoked, left, raced, ended>>

Waiting(f) == {c \in Calls : call[c].pc = "waiting" /\ call[c].on = f}

(* Everybody who waits goes on: with the token the app holds by now, or     *)
(* with "Session expired" and without tokens.                               *)
RefreshSettles(f) ==
    /\ flight[f].pc \in {"saved", "denied"}
    /\ flight' = [flight EXCEPT ![f] = NoFlight]
    /\ IF flight[f].pc = "saved"
       THEN /\ call' = [c \in Calls |-> IF c \in Waiting(f)
                                        THEN [pc |-> "again", token |-> held, on |-> None]
                                        ELSE call[c]]
            /\ UNCHANGED <<held, ended>>
       ELSE /\ call' = [c \in Calls |-> IF c \in Waiting(f) THEN Idle ELSE call[c]]
            /\ held' = None /\ ended' = TRUE
    /\ UNCHANGED <<issued, live, fresh, leaving, faults, revoked, left, raced>>

login ==
    /\ held = None /\ leaving = Out
    /\ Issue
    /\ held' = issued + 1
    /\ UNCHANGED <<call, flight, leaving, faults, revoked, left, raced, ended>>

logout ==
    /\ held # None /\ leaving = Out
    /\ leaving' = [pc |-> "sent", token |-> held]
    /\ left' = TRUE
    /\ raced' = (raced \/ InFlight # {})
    /\ UNCHANGED <<issued, live, fresh, held, call, flight, faults, revoked, ended>>

(* The server revokes the token it is given; or the request is lost. *)
LogoutServed ==
    /\ leaving.pc = "sent"
    /\ leaving' = [leaving EXCEPT !.pc = "answered"]
    /\ \/ live' = live \ {leaving.token} /\ UNCHANGED faults
       \/ faults < MaxFaults /\ faults' = faults + 1 /\ UNCHANGED live
    /\ UNCHANGED <<issued, fresh, held, call, flight, revoked, left, raced, ended>>

clearTokens ==
    /\ leaving.pc = "answered"
    /\ leaving' = Out
    /\ held' = None
    /\ UNCHANGED <<issued, live, fresh, call, flight, faults, revoked, left, raced, ended>>

-----------------------------------------------------------------------------
Next ==
    \/ forceLogout \/ Expire \/ login \/ logout \/ LogoutServed \/ clearTokens
    \/ \E c \in Calls :
          \/ request(c) \/ Serve(c) \/ refreshTokens(c)
          \/ refresh(c) \/ RevokeUsed(c) \/ ReplaceUsed(c) \/ RefreshFails(c)
          \/ saveTokens(c) \/ RefreshSettles(c)

Spec == Init /\ [][Next]_vars

-----------------------------------------------------------------------------
(* Nobody is thrown out by the app itself: however many calls find their    *)
(* token expired at once, a call ends with "Session expired"                *)
(* (apiClient.ts:138) only if an answer was lost, the staff revoked the     *)
(* sessions or the user was leaving.  A second refresh with the same token  *)
(* would be refused and clear the tokens the first one brought.             *)
SessionEndsForCause == ended => faults > 0 \/ revoked \/ left

(* What the server would still accept is what the app holds, and nothing is *)
(* left of a session the user left; unless something was lost, or a refresh *)
(* was in flight during the logout: the server then revokes a token it has  *)
(* just replaced, and the app is signed in again when the answer comes      *)
(* (apiClient.ts:176-177, authController.js:310-322).                       *)
SessionsAgree ==
    leaving = Out /\ InFlight = {} /\ faults = 0 /\ ~ raced
        => live \subseteq {held}
=============================================================================
