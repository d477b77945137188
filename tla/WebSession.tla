----------------------------- MODULE WebSession -----------------------------
(***************************************************************************)
(* A call of the web frontend (api.ts request): its retry after a lost     *)
(* answer or a server error, the refresh of an expired token and the retry *)
(* after it, with what the backend makes of it (csrfProtection and         *)
(* authRequired in auth.js, refresh in authController.js).                 *)
(*                                                                         *)
(* A step of the page runs from one await to the next.  Every session the  *)
(* server issues has a number, which stands for its access token, its      *)
(* refresh cookie and its CSRF cookie.  A call keeps the CSRF header it    *)
(* was built with; the cookies are those of the moment it is sent.         *)
(***************************************************************************)
EXTENDS Naturals, FiniteSets

CONSTANTS
    Calls,       \* calls of request at a time
    MaxIssued,   \* bound: sessions issued
    MaxFaults,   \* bound: answers lost and server errors
    None

VARIABLES
    issued,    \* sessions issued so far
    live,      \* refresh tokens that are not revoked
    fresh,     \* access tokens that have not expired
    page,      \* the token in localStorage and the session of the cookies
    call,      \* the state of each call
    faults,    \* history: answers lost and server errors
    crossed,   \* history: two refreshes were under way at a time
    denied     \* history: calls that were refused although nothing was wrong with the session

vars == <<issued, live, fresh, page, call, faults, crossed, denied>>

Idle == [pc |-> "idle", write |-> FALSE, csrf |-> None, token |-> None, cookies |-> None,
         attempt |-> 0, runs |-> 0, lost |-> FALSE]

Init ==
    /\ issued = 1 /\ live = {1} /\ fresh = {1}
    /\ page = [token |-> 1, cookies |-> 1]
    /\ call = [c \in Calls |-> Idle]
    /\ faults = 0 /\ crossed = FALSE /\ denied = {}

Refreshing == {"refresh", "rotate", "granted"}

Rotating == {c \in Calls : call[c].pc \in Refreshing}

(* fetch, with the token in the header and the cookies of the moment *)
Fetch(request, attempt) ==
    [request EXCEPT !.pc = "sent", !.attempt = attempt, !.token = page.token,
                    !.cookies = page.cookies]

-----------------------------------------------------------------------------
request(c) ==
    /\ call[c].pc = "idle"
    /\ \E write \in BOOLEAN :
          call' = [call EXCEPT ![c] = Fetch([Idle EXCEPT !.write = write, !.csrf = page.cookies], 0)]
    /\ UNCHANGED <<issued, live, fresh, page, faults, crossed, denied>>

(* Mutant: every method is checked. *)
csrfProtectionForAll(r) == r.csrf = r.cookies

csrfProtection(r) == r.write => r.csrf = r.cookies

authRequired(r) == r.token \in fresh

(* Mutant: the handler runs before the token is looked at. *)
ServeFirst(c) ==
    /\ call[c].pc = "sent" /\ csrfProtection(call[c])
    /\ call' = [call EXCEPT ![c].runs = @ + 1,
                            ![c].pc = IF authRequired(call[c]) THEN "done" ELSE "sent"]
    /\ UNCHANGED <<issued, live, fresh, page, faults, crossed, denied>>

(* The server runs the handler; its answer is on its way. *)
Serve(c) ==
    /\ call[c].pc = "sent" /\ csrfProtection(call[c]) /\ authRequired(call[c])
    /\ call' = [call EXCEPT ![c].runs = @ + 1, ![c].pc = "done"]
    /\ UNCHANGED <<issued, live, fresh, page, faults, crossed, denied>>

Forget(c) ==
    /\ call[c].pc \in {"done", "over"}
    /\ call' = [call EXCEPT ![c] = Idle]
    /\ UNCHANGED <<issued, live, fresh, page, faults, crossed, denied>>

(* The answer, or the request, is lost, or the server fails before or after *)
(* the handler ran: a first attempt is followed by a second one, with the   *)
(* headers it had.                                                          *)
Retry(c) ==
    /\ call[c].pc \in {"sent", "done"} /\ faults < MaxFaults
    /\ faults' = faults + 1
    /\ call' = [call EXCEPT ![c] =
                   IF call[c].attempt = 0
                   THEN [@ EXCEPT !.pc = "sent", !.attempt = 1, !.cookies = page.cookies, !.lost = TRUE]
                   ELSE [@ EXCEPT !.pc = "over", !.lost = TRUE]]
    /\ UNCHANGED <<issued, live, fresh, page, crossed, denied>>

(* A call is refused although nothing was lost and only one refreshed. *)
Denied(c) ==
    denied' = IF faults = 0 /\ ~ crossed
              THEN denied \cup {IF call[c].write THEN "write" ELSE "read"} ELSE denied

(* 403, which is not retried. *)
Forbidden(c) ==
    /\ call[c].pc = "sent" /\ ~ csrfProtection(call[c])
    /\ call' = [call EXCEPT ![c].pc = "done"]
    /\ Denied(c)
    /\ UNCHANGED <<issued, live, fresh, page, faults, crossed>>

(* 401: the first time the token is refreshed. *)
Unauthorized(c) ==
    /\ call[c].pc = "sent" /\ csrfProtection(call[c]) /\ ~ authRequired(call[c])
    /\ call' = [call EXCEPT ![c] = IF call[c].attempt = 0
                                   THEN [@ EXCEPT !.pc = "refresh", !.cookies = page.cookies]
                                   ELSE [@ EXCEPT !.pc = "over"]]
    /\ IF call[c].attempt = 1 THEN Denied(c) ELSE UNCHANGED denied
    /\ crossed' = (crossed \/ (Rotating # {} /\ call[c].attempt = 0))
    /\ UNCHANGED <<issued, live, fresh, page, faults>>

(* refresh reads the refresh token; a refused one ends the call. *)
ReadRefreshToken(c) ==
    /\ call[c].pc = "refresh"
    /\ call' = [call EXCEPT ![c].pc = IF call[c].cookies \in live THEN "rotate" ELSE "over"]
    /\ IF call[c].cookies \notin live THEN Denied(c) ELSE UNCHANGED denied
    /\ UNCHANGED <<issued, live, fresh, page, faults, crossed>>

(* Mutant: a refresh revokes every token of the user. *)
refreshForAll(c) ==
    /\ call[c].pc = "rotate" /\ issued < MaxIssued
    /\ issued' = issued + 1
    /\ live' = {issued + 1}
    /\ fresh' = fresh \cup {issued + 1}
    /\ call' = [call EXCEPT ![c].pc = "granted", ![c].token = issued + 1]
    /\ UNCHANGED <<page, faults, crossed, denied>>

(* It is revoked, whatever became of it, and a session is issued. *)
refresh(c) ==
    /\ call[c].pc = "rotate" /\ issued < MaxIssued
    /\ issued' = issued + 1
    /\ live' = (live \ {call[c].cookies}) \cup {issued + 1}
    /\ fresh' = fresh \cup {issued + 1}
    /\ call' = [call EXCEPT ![c].pc = "granted", ![c].token = issued + 1]
    /\ UNCHANGED <<page, faults, crossed, denied>>

(* The new token and cookies arrive, and the call is sent again. *)
refreshToken(c) ==
    /\ call[c].pc = "granted"
    /\ page' = [token |-> call[c].token, cookies |-> call[c].token]
    /\ call' = [call EXCEPT ![c] = [@ EXCEPT !.pc = "sent", !.attempt = 1,
                                             !.cookies = call[c].token]]
    /\ UNCHANGED <<issued, live, fresh, faults, crossed, denied>>

(* The refresh or its answer is lost, which ends the call. *)
RefreshLost(c) ==
    /\ call[c].pc \in {"refresh", "granted"} /\ faults < MaxFaults
    /\ faults' = faults + 1
    /\ call' = [call EXCEPT ![c].pc = "over"]
    /\ UNCHANGED <<issued, live, fresh, page, crossed, denied>>

(* A call does not last as long as a token that was just issued. *)
Expire ==
    /\ \E a \in fresh :
          /\ \A c \in Calls : ~ (call[c].token = a /\ call[c].attempt = 1)
          /\ \A c \in Calls : ~ (call[c].token = a /\ call[c].pc = "granted")
          /\ fresh' = fresh \ {a}
    /\ UNCHANGED <<issued, live, page, call, faults, crossed, denied>>

Next ==
    \/ Expire
    \/ \E c \in Calls :
          \/ request(c) \/ Serve(c) \/ Forget(c) \/ Retry(c) \/ Forbidden(c) \/ Unauthorized(c)
          \/ ReadRefreshToken(c) \/ refresh(c) \/ refreshToken(c) \/ RefreshLost(c)

Spec == Init /\ [][Next]_vars

-----------------------------------------------------------------------------
(* "JWT expired - try to refresh once, then retry the original request"     *)
(* (api.ts:135): as long as nothing was lost and no two calls refreshed at  *)
(* a time, a call that only reads is served.  One that writes is not: its   *)
(* retry carries the CSRF token of before the refresh, which changed it.    *)
ReadsAreServed == "read" \notin denied

(* A handler runs once for a call, and twice only if an answer was lost or  *)
(* the server failed (api.ts:113-132).                                      *)
RunsOnce == \A c \in Calls : call[c].runs <= IF call[c].lost THEN 2 ELSE 1

(* Calls that refresh at a time do not leave the page with cookies that the *)
(* server refuses: the second is refused and changes nothing, or both get a *)
(* session of their own (authController.js:300-312).  Only the loss of an   *)
(* answer does.                                                             *)
CookiesStayGood == faults > 0 \/ Rotating # {} \/ page.cookies \in live
=============================================================================
