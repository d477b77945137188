----------------------------- MODULE SessionProofs -----------------------------
(***************************************************************************)
(* Sessions, as a mobile app and as a page of the web frontend keeps them. *)
(* Theorems about the modules MobileSession and WebSession, for any number *)
(* of calls at a time, of sessions and of faults.                          *)
(*                                                                         *)
(* The modules are instantiated under the names of their own variables; a  *)
(* name that is in both stands for a variable of each.                     *)
(***************************************************************************)
EXTENDS Naturals, TLAPS

CONSTANTS Calls, MaxIssued, MaxFaults, None

VARIABLES
    issued, live, fresh, call, faults,                      \* of both modules
    page, crossed, denied,                                  \* WebSession
    held, flight, leaving, revoked, left, raced, ended      \* MobileSession

App == INSTANCE MobileSession

Site == INSTANCE WebSession

-----------------------------------------------------------------------------
(* The calls of the web frontend *)

(* What a call can be; a number of a session is not looked at before the    *)
(* call presents it.                                                        *)
Known == Nat \cup {None}

Request ==
    [pc : {"idle", "sent", "done", "over"} \cup Site!Refreshing, write : BOOLEAN, csrf : Known,
     token : Known, cookies : Known, attempt : {0, 1}, runs : 0 .. 2, lost : BOOLEAN]

Arriving(c) == call[c].pc = "granted"

SiteTyped ==
    /\ issued \in Nat \ {0} /\ live \subseteq 1 .. issued /\ fresh \subseteq 1 .. issued
    /\ page \in [token : 1 .. issued, cookies : 1 .. issued]
    /\ call \in [Calls -> Request]
    /\ \A c \in Calls :
          /\ call[c].pc \in Site!Refreshing => call[c].cookies \in 1 .. issued
          /\ Arriving(c) => call[c].token \in 1 .. issued
    /\ faults \in Nat /\ crossed \in BOOLEAN

(* How often the handler ran for a call that is still to be served, that    *)
(* refreshes, and that is over.                                             *)
RunsSoFar(r) ==
    /\ r.attempt = 0 => ~ r.lost
    /\ r.pc = "sent" => r.runs <= IF r.lost THEN 1 ELSE 0
    /\ r.pc \in Site!Refreshing => r.attempt = 0 /\ r.runs = 0
    /\ r.runs <= IF r.lost THEN 2 ELSE 1

(* A session that was granted and has not arrived is good, and nobody but   *)
(* the call it was granted to can refresh it away.                          *)
GrantsAreGood ==
    \A c \in Calls : Arriving(c) =>
        /\ call[c].token \in live \cap fresh
        /\ page.cookies # call[c].token
        /\ \A d \in Calls :
              /\ call[d].pc \in {"refresh", "rotate"} => call[d].cookies # call[c].token
              /\ Arriving(d) /\ d # c => call[d].token # call[c].token

(* The cookies are good, or good ones are about to arrive. *)
CookiesComeGood == faults = 0 => page.cookies \in live \/ \E c \in Calls : Arriving(c)

(* A second attempt that follows a refresh carries a token that is good. *)
SecondIsFresh == faults = 0 => \A c \in Calls : call[c].attempt = 1 => call[c].token \in fresh

(* A refresh that is alone presents the cookies the page holds. *)
AloneIsCurrent ==
    ~ crossed =>
        /\ \A c, d \in Site!Rotating : c = d
        /\ \A c \in Calls : call[c].pc = "refresh" => call[c].cookies = page.cookies

SiteInv ==
    /\ SiteTyped
    /\ \A c \in Calls : RunsSoFar(call[c])
    /\ GrantsAreGood /\ CookiesComeGood /\ SecondIsFresh /\ AloneIsCurrent
    /\ Site!ReadsAreServed

-----------------------------------------------------------------------------
LEMMA InitSite == Site!Init => SiteInv
<1> SUFFICES ASSUME Site!Init PROVE SiteInv
  OBVIOUS
<1>1. \A c \in Calls : call[c] = Site!Idle
  BY DEF Site!Init
<1>2. Site!Idle \in Request
  BY DEF Site!Idle, Request, Known
<1>3. SiteTyped
  <2>1. call \in [Calls -> Request]
    BY <1>2 DEF Site!Init
  <2>2. \A c \in Calls : call[c].pc \notin Site!Refreshing /\ ~ Arriving(c)
    BY <1>1 DEF Site!Idle, Site!Refreshing, Arriving
  <2>3. page \in [token : 1 .. 1, cookies : 1 .. 1] /\ issued = 1 /\ live = {1} /\ fresh = {1}
    BY DEF Site!Init
  <2>4. faults \in Nat /\ crossed \in BOOLEAN
    BY DEF Site!Init
  <2>5. issued \in Nat \ {0} /\ live \subseteq 1 .. issued /\ fresh \subseteq 1 .. issued
    BY <2>3
  <2>6. page \in [token : 1 .. issued, cookies : 1 .. issued]
    BY <2>3
  <2> QED BY <2>1, <2>2, <2>4, <2>5, <2>6 DEF SiteTyped
<1>4. \A c \in Calls : RunsSoFar(call[c])
  BY <1>1 DEF RunsSoFar, Site!Idle, Site!Refreshing
<1>5. GrantsAreGood /\ CookiesComeGood /\ SecondIsFresh
  BY <1>1 DEF Site!Init, GrantsAreGood, CookiesComeGood, SecondIsFresh, Arriving, Site!Idle
<1>6. AloneIsCurrent /\ Site!ReadsAreServed
  BY <1>1 DEF Site!Init, AloneIsCurrent, Site!ReadsAreServed, Site!Rotating, Site!Refreshing,
              Site!Idle
<1> QED BY <1>3, <1>4, <1>5, <1>6 DEF SiteInv

(* A refusal of a call that only reads is recorded only when a refresh      *)
(* crossed another one or something was lost.                               *)
LEMMA DeniedRightly ==
    ASSUME Site!ReadsAreServed, NEW c \in Calls, Site!Denied(c),
           call[c].write \/ faults # 0 \/ crossed
    PROVE  Site!ReadsAreServed'
BY DEF Site!ReadsAreServed, Site!Denied

(* A call that goes on, is served, refused or lost, and takes no part in a  *)
(* refresh.                                                                 *)
LEMMA CallGoesOn ==
    ASSUME SiteInv, NEW c \in Calls, NEW r \in Request,
           call' = [call EXCEPT ![c] = r], UNCHANGED <<issued, live, fresh, page>>,
           call[c].pc \notin Site!Refreshing, r.pc \notin Site!Refreshing,
           RunsSoFar(r), faults' \in Nat, faults' >= faults, crossed' = crossed,
           faults' = 0 => r.attempt = 0 \/ (r.attempt = call[c].attempt /\ r.token = call[c].token),
           Site!ReadsAreServed'
    PROVE  SiteInv'
<1> USE DEF SiteInv
<1>1. /\ call' \in [Calls -> Request] /\ call'[c] = r
      /\ \A d \in Calls : d # c => call'[d] = call[d]
  BY DEF SiteTyped
<1>2. /\ ~ Arriving(c) /\ ~ Arriving(c)' /\ Site!Rotating' = Site!Rotating
      /\ \A d \in Calls : Arriving(d)' <=> Arriving(d)
  BY <1>1 DEF Arriving, Site!Rotating, Site!Refreshing
<1>3. SiteTyped'
  BY <1>1, <1>2 DEF SiteTyped
<1>4. \A d \in Calls : RunsSoFar(call'[d])
  BY <1>1
<1>5. GrantsAreGood'
  BY <1>1, <1>2 DEF GrantsAreGood, Site!Refreshing
<1>6. CookiesComeGood'
  BY <1>2 DEF CookiesComeGood, SiteTyped
<1>7. SecondIsFresh'
  BY <1>1 DEF SecondIsFresh, SiteTyped
<1>8. AloneIsCurrent'
  BY <1>1, <1>2 DEF AloneIsCurrent, Site!Refreshing
<1> QED BY <1>3, <1>4, <1>5, <1>6, <1>7, <1>8

(* The frame of a step of a call that refreshes. *)
LEMMA OtherCallsStay ==
    ASSUME SiteInv, NEW c \in Calls, NEW r \in Request, call' = [call EXCEPT ![c] = r]
    PROVE  /\ call' \in [Calls -> Request] /\ call'[c] = r
           /\ \A d \in Calls : d # c => call'[d] = call[d]
           /\ RunsSoFar(r) => \A d \in Calls : RunsSoFar(call'[d])
<1>1. /\ call' \in [Calls -> Request] /\ call'[c] = r
      /\ \A d \in Calls : d # c => call'[d] = call[d]
  BY DEF SiteInv, SiteTyped
<1> QED BY <1>1 DEF SiteInv

LEMMA RequestKeepsSite ==
    ASSUME SiteInv, NEW c \in Calls, Site!request(c)
    PROVE  SiteInv'
<1>1. PICK write \in BOOLEAN :
          call' = [call EXCEPT ![c] = Site!Fetch([Site!Idle EXCEPT !.write = write,
                                                                   !.csrf = page.cookies], 0)]
  BY DEF Site!request
<1> DEFINE r == Site!Fetch([Site!Idle EXCEPT !.write = write, !.csrf = page.cookies], 0)
<1>2. r \in Request /\ r.pc = "sent" /\ r.attempt = 0 /\ r.runs = 0 /\ r.lost = FALSE
  <2>1. page.cookies \in Known /\ page.token \in Known
    BY DEF SiteInv, SiteTyped, Known
  <2>2. Site!Idle \in Request /\ Site!Idle.runs = 0 /\ Site!Idle.lost = FALSE
    BY DEF Site!Idle, Request, Known
  <2> DEFINE new == [Site!Idle EXCEPT !.write = write, !.csrf = page.cookies]
  <2>3. new \in Request /\ new.runs = 0 /\ new.lost = FALSE
    BY <2>1, <2>2 DEF Request
  <2> HIDE DEF new
  <2>4. Site!Fetch(new, 0) \in Request
    BY <2>1, <2>3 DEF Request, Site!Fetch
  <2>5. /\ Site!Fetch(new, 0).pc = "sent" /\ Site!Fetch(new, 0).attempt = 0
        /\ Site!Fetch(new, 0).runs = 0 /\ Site!Fetch(new, 0).lost = FALSE
    BY <2>3 DEF Request, Site!Fetch
  <2> QED BY <2>4, <2>5 DEF new
<1>3. RunsSoFar(r)
  BY <1>2 DEF RunsSoFar, Site!Refreshing
<1>4. call[c].pc = "idle" /\ UNCHANGED <<issued, live, fresh, page, faults, crossed, denied>>
  BY DEF Site!request
<1>5. faults' \in Nat /\ faults' >= faults /\ Site!ReadsAreServed'
  BY <1>4 DEF SiteInv, SiteTyped, Site!ReadsAreServed
<1> HIDE DEF r
<1> QED BY <1>1, <1>2, <1>3, <1>4, <1>5, CallGoesOn DEF r, Site!Refreshing

LEMMA ServeKeepsSite ==
    ASSUME SiteInv, NEW c \in Calls, Site!Serve(c)
    PROVE  SiteInv'
<1> DEFINE r == [call[c] EXCEPT !.runs = @ + 1, !.pc = "done"]
<1>1. call[c] \in Request /\ call[c].pc = "sent" /\ RunsSoFar(call[c])
  BY DEF Site!Serve, SiteInv, SiteTyped
<1>2. /\ r \in Request /\ r.pc = "done" /\ r.attempt = call[c].attempt /\ r.token = call[c].token
      /\ r.runs = call[c].runs + 1 /\ r.lost = call[c].lost
  <2>1. call[c].runs + 1 \in 0 .. 2
    BY <1>1 DEF Request, RunsSoFar
  <2> QED BY <1>1, <2>1 DEF Request
<1>3. RunsSoFar(r)
  BY <1>1, <1>2 DEF RunsSoFar, Site!Refreshing, Request
<1>4. /\ call' = [call EXCEPT ![c] = r]
      /\ UNCHANGED <<issued, live, fresh, page, faults, crossed, denied>>
  BY DEF Site!Serve
<1>5. faults' \in Nat /\ faults' >= faults /\ Site!ReadsAreServed'
  BY <1>4 DEF SiteInv, SiteTyped, Site!ReadsAreServed
<1> HIDE DEF r
<1> QED BY <1>1, <1>2, <1>3, <1>4, <1>5, CallGoesOn DEF Site!Refreshing

LEMMA ForgetKeepsSite ==
    ASSUME SiteInv, NEW c \in Calls, Site!Forget(c)
    PROVE  SiteInv'
<1>1. Site!Idle \in Request /\ Site!Idle.pc = "idle" /\ Site!Idle.attempt = 0
  BY DEF Site!Idle, Request, Known
<1>2. RunsSoFar(Site!Idle)
  BY DEF RunsSoFar, Site!Refreshing, Site!Idle
<1>3. /\ call[c].pc \in {"done", "over"} /\ call' = [call EXCEPT ![c] = Site!Idle]
      /\ UNCHANGED <<issued, live, fresh, page, faults, crossed, denied>>
  BY DEF Site!Forget
<1>4. faults' \in Nat /\ faults' >= faults /\ Site!ReadsAreServed'
  BY <1>3 DEF SiteInv, SiteTyped, Site!ReadsAreServed
<1> QED BY <1>1, <1>2, <1>3, <1>4, CallGoesOn DEF Site!Refreshing

LEMMA RetryKeepsSite ==
    ASSUME SiteInv, NEW c \in Calls, Site!Retry(c)
    PROVE  SiteInv'
<1> DEFINE again == [call[c] EXCEPT !.pc = "sent", !.attempt = 1, !.cookies = page.cookies,
                                    !.lost = TRUE]
           over == [call[c] EXCEPT !.pc = "over", !.lost = TRUE]
<1>1. /\ call[c] \in Request /\ call[c].pc \in {"sent", "done"} /\ RunsSoFar(call[c])
      /\ page.cookies \in Nat /\ faults \in Nat
  BY DEF Site!Retry, SiteInv, SiteTyped
<1>2. /\ faults' = faults + 1 /\ UNCHANGED <<issued, live, fresh, page, crossed, denied>>
      /\ call' = [call EXCEPT ![c] = IF call[c].attempt = 0 THEN again ELSE over]
  BY DEF Site!Retry
<1>3. faults' \in Nat /\ faults' >= faults /\ faults' # 0
  BY <1>1, <1>2
<1>4. Site!ReadsAreServed'
  BY <1>2 DEF SiteInv, Site!ReadsAreServed
<1>5. CASE call[c].attempt = 0
  <2>1. /\ again \in Request /\ again.pc = "sent" /\ again.attempt = 1 /\ again.lost = TRUE
        /\ again.runs = call[c].runs
    BY <1>1 DEF Request, Known
  <2>2. RunsSoFar(again)
    BY <1>1, <1>5, <2>1 DEF RunsSoFar, Site!Refreshing, Request
  <2> HIDE DEF again
  <2> QED BY <1>1, <1>2, <1>3, <1>4, <1>5, <2>1, <2>2, CallGoesOn DEF Site!Refreshing
<1>6. CASE call[c].attempt # 0
  <2>1. /\ over \in Request /\ over.pc = "over" /\ over.attempt # 0 /\ over.lost = TRUE
        /\ over.runs = call[c].runs
    BY <1>1, <1>6 DEF Request
  <2>2. RunsSoFar(over)
    BY <1>1, <2>1 DEF RunsSoFar, Site!Refreshing, Request
  <2> HIDE DEF over
  <2> QED BY <1>1, <1>2, <1>3, <1>4, <1>6, <2>1, <2>2, CallGoesOn DEF Site!Refreshing
<1> QED BY <1>5, <1>6

(* 403: only a call that writes is refused for its CSRF token. *)
LEMMA ForbiddenKeepsSite ==
    ASSUME SiteInv, NEW c \in Calls, Site!Forbidden(c)
    PROVE  SiteInv'
<1> DEFINE r == [call[c] EXCEPT !.pc = "done"]
<1>1. call[c] \in Request /\ call[c].pc = "sent" /\ RunsSoFar(call[c])
  BY DEF Site!Forbidden, SiteInv, SiteTyped
<1>2. /\ r \in Request /\ r.pc = "done" /\ r.attempt = call[c].attempt /\ r.token = call[c].token
      /\ r.runs = call[c].runs /\ r.lost = call[c].lost
  BY <1>1 DEF Request
<1>3. RunsSoFar(r)
  BY <1>1, <1>2 DEF RunsSoFar, Site!Refreshing, Request
<1>4. /\ call' = [call EXCEPT ![c] = r]
      /\ UNCHANGED <<issued, live, fresh, page, faults, crossed>>
  BY DEF Site!Forbidden
<1>5. call[c].write /\ Site!Denied(c)
  BY DEF Site!Forbidden, Site!csrfProtection
<1>6. faults' \in Nat /\ faults' >= faults
  BY <1>4 DEF SiteInv, SiteTyped
<1>7. Site!ReadsAreServed'
  BY <1>5, DeniedRightly DEF SiteInv
<1> HIDE DEF r
<1> QED BY <1>1, <1>2, <1>3, <1>4, <1>6, <1>7, CallGoesOn DEF Site!Refreshing

(* 401, and the token is refreshed or the call is over. *)
LEMMA UnauthorizedKeepsSite ==
    ASSUME SiteInv, NEW c \in Calls, Site!Unauthorized(c)
    PROVE  SiteInv'
<1> DEFINE asks == [call[c] EXCEPT !.pc = "refresh", !.cookies = page.cookies]
           over == [call[c] EXCEPT !.pc = "over"]
<1>1. /\ call[c] \in Request /\ call[c].pc = "sent" /\ RunsSoFar(call[c])
      /\ page.cookies \in 1 .. issued /\ page.cookies \in Nat /\ faults \in Nat
      /\ crossed \in BOOLEAN
  BY DEF Site!Unauthorized, SiteInv, SiteTyped
<1>2. /\ UNCHANGED <<issued, live, fresh, page, faults>>
      /\ call' = [call EXCEPT ![c] = IF call[c].attempt = 0 THEN asks ELSE over]
      /\ call[c].token \notin fresh
      /\ crossed' = (crossed \/ (Site!Rotating # {} /\ call[c].attempt = 0))
      /\ IF call[c].attempt = 1 THEN Site!Denied(c) ELSE UNCHANGED denied
  BY DEF Site!Unauthorized, Site!authRequired
<1>3. CASE call[c].attempt # 0
  <2>1. /\ over \in Request /\ over.pc = "over" /\ over.attempt = call[c].attempt
        /\ over.token = call[c].token /\ over.lost = call[c].lost /\ over.runs = call[c].runs
    BY <1>1, <1>3 DEF Request
  <2>2. RunsSoFar(over)
    BY <1>1, <2>1 DEF RunsSoFar, Site!Refreshing, Request
  <2>3. call[c].attempt = 1
    BY <1>1, <1>3 DEF Request
  <2>4. faults # 0
    BY <1>2, <2>3 DEF SiteInv, SecondIsFresh
  <2>5. Site!ReadsAreServed'
    BY <1>2, <2>3, <2>4, DeniedRightly DEF SiteInv
  <2>6. call' = [call EXCEPT ![c] = over] /\ crossed' = crossed
    BY <1>1, <1>2, <1>3
  <2>7. faults' \in Nat /\ faults' >= faults
    BY <1>1, <1>2
  <2> HIDE DEF over
  <2> QED BY <1>1, <1>2, <2>1, <2>2, <2>5, <2>6, <2>7, CallGoesOn DEF Site!Refreshing
<1>4. CASE call[c].attempt = 0
  <2>1. /\ asks \in Request /\ asks.pc = "refresh" /\ asks.cookies = page.cookies
        /\ asks.attempt = 0 /\ asks.lost = call[c].lost /\ asks.runs = call[c].runs
    BY <1>1, <1>4 DEF Request, Known, Site!Refreshing
  <2>2. RunsSoFar(asks)
    BY <1>1, <1>4, <2>1 DEF RunsSoFar, Site!Refreshing, Request
  <2>3. call' = [call EXCEPT ![c] = asks] /\ denied' = denied
    BY <1>2, <1>4
  <2> HIDE DEF asks
  <2>4. /\ call' \in [Calls -> Request] /\ call'[c] = asks
        /\ \A d \in Calls : d # c => call'[d] = call[d]
        /\ \A d \in Calls : RunsSoFar(call'[d])
    BY <2>1, <2>2, <2>3, OtherCallsStay
  <2>5. \A d \in Calls : Arriving(d)' <=> Arriving(d)
    BY <1>1, <2>1, <2>4 DEF Arriving
  <2>6. SiteTyped'
    <3>1. crossed' \in BOOLEAN
      BY <1>2
    <3>2. \A d \in Calls :
              /\ call'[d].pc \in Site!Refreshing => call'[d].cookies \in 1 .. issued
              /\ Arriving(d)' => call'[d].token \in 1 .. issued
      BY <1>1, <2>1, <2>4, <2>5 DEF SiteInv, SiteTyped, Arriving
    <3> QED BY <1>2, <2>4, <3>1, <3>2 DEF SiteInv, SiteTyped
  <2>7. GrantsAreGood'
    BY <1>2, <2>1, <2>4, <2>5 DEF SiteInv, GrantsAreGood, Arriving
  <2>8. CookiesComeGood' /\ SecondIsFresh'
    BY <1>2, <2>1, <2>4, <2>5 DEF SiteInv, CookiesComeGood, SecondIsFresh
  <2>9. AloneIsCurrent'
    <3>1. Site!Rotating' = Site!Rotating \cup {c}
      BY <1>1, <2>1, <2>4 DEF Site!Rotating, Site!Refreshing
    <3>2. ~ crossed' => ~ crossed /\ Site!Rotating = {}
      BY <1>2, <1>4
    <3>3. ~ crossed' => \A d \in Calls : call'[d].pc = "refresh" => d = c
      BY <3>2, <2>4 DEF Site!Rotating, Site!Refreshing
    <3> QED BY <1>2, <2>1, <2>4, <3>1, <3>2, <3>3 DEF AloneIsCurrent
  <2>10. Site!ReadsAreServed'
    BY <2>3 DEF SiteInv, Site!ReadsAreServed
  <2> QED BY <2>4, <2>6, <2>7, <2>8, <2>9, <2>10 DEF SiteInv
<1> QED BY <1>3, <1>4

LEMMA ReadKeepsSite ==
    ASSUME SiteInv, NEW c \in Calls, Site!ReadRefreshToken(c)
    PROVE  SiteInv'
<1> DEFINE r == [call[c] EXCEPT !.pc = IF call[c].cookies \in live THEN "rotate" ELSE "over"]
<1>1. call[c] \in Request /\ call[c].pc = "refresh" /\ RunsSoFar(call[c])
  BY DEF Site!ReadRefreshToken, SiteInv, SiteTyped
<1>2. /\ UNCHANGED <<issued, live, fresh, page, faults, crossed>>
      /\ call' = [call EXCEPT ![c] = r]
      /\ IF call[c].cookies \notin live THEN Site!Denied(c) ELSE UNCHANGED denied
  BY DEF Site!ReadRefreshToken
<1>3. /\ r \in Request /\ r.pc \in {"rotate", "over"} /\ r.attempt = call[c].attempt
      /\ r.cookies = call[c].cookies /\ r.lost = call[c].lost /\ r.runs = call[c].runs
      /\ r.token = call[c].token
  BY <1>1 DEF Request, Site!Refreshing
<1>4. RunsSoFar(r)
  BY <1>1, <1>3 DEF RunsSoFar, Site!Refreshing, Request
<1> HIDE DEF r
<1>5. /\ call' \in [Calls -> Request] /\ call'[c] = r
      /\ \A d \in Calls : d # c => call'[d] = call[d]
      /\ \A d \in Calls : RunsSoFar(call'[d])
  BY <1>2, <1>3, <1>4, OtherCallsStay
<1>6. \A d \in Calls : Arriving(d)' <=> Arriving(d)
  BY <1>1, <1>3, <1>5 DEF Arriving
<1>7. SiteTyped'
  <2>1. \A d \in Calls :
            /\ call'[d].pc \in Site!Refreshing => call'[d].cookies \in 1 .. issued
            /\ Arriving(d)' => call'[d].token \in 1 .. issued
    BY <1>1, <1>3, <1>5, <1>6 DEF SiteInv, SiteTyped, Arriving, Site!Refreshing
  <2> QED BY <1>2, <1>5, <2>1 DEF SiteInv, SiteTyped
<1>8. GrantsAreGood'
  BY <1>1, <1>2, <1>3, <1>5, <1>6 DEF SiteInv, GrantsAreGood, Arriving
<1>9. CookiesComeGood' /\ SecondIsFresh'
  BY <1>2, <1>3, <1>5, <1>6 DEF SiteInv, CookiesComeGood, SecondIsFresh
<1>10. AloneIsCurrent'
  <2>1. Site!Rotating' \subseteq Site!Rotating
    BY <1>1, <1>5 DEF Site!Rotating, Site!Refreshing
  <2> QED BY <1>2, <1>3, <1>5, <2>1 DEF SiteInv, AloneIsCurrent
<1>11. Site!ReadsAreServed'
  <2>1. CASE call[c].cookies \in live
    BY <1>2, <2>1 DEF SiteInv, Site!ReadsAreServed
  <2>2. CASE call[c].cookies \notin live
    <3>1. ASSUME faults = 0, ~ crossed PROVE FALSE
      <4>1. call[c].cookies = page.cookies
        BY <1>1, <3>1 DEF SiteInv, AloneIsCurrent
      <4>2. PICK d \in Calls : Arriving(d)
        BY <2>2, <3>1, <4>1 DEF SiteInv, CookiesComeGood
      <4>3. c \in Site!Rotating /\ d \in Site!Rotating /\ c # d
        BY <1>1, <4>2 DEF Arriving, Site!Rotating, Site!Refreshing
      <4> QED BY <3>1, <4>3 DEF SiteInv, AloneIsCurrent
    <3> QED BY <1>2, <2>2, <3>1, DeniedRightly DEF SiteInv
  <2> QED BY <2>1, <2>2
<1> QED BY <1>5, <1>7, <1>8, <1>9, <1>10, <1>11 DEF SiteInv

LEMMA RefreshKeepsSite ==
    ASSUME SiteInv, NEW c \in Calls, Site!refresh(c)
    PROVE  SiteInv'
<1> DEFINE r == [call[c] EXCEPT !.pc = "granted", !.token = issued + 1]
<1>1. /\ call[c] \in Request /\ call[c].pc = "rotate" /\ RunsSoFar(call[c])
      /\ call[c].cookies \in 1 .. issued /\ issued \in Nat \ {0}
  BY DEF Site!refresh, SiteInv, SiteTyped, Site!Refreshing
<1>2. /\ UNCHANGED <<page, faults, crossed, denied>>
      /\ call' = [call EXCEPT ![c] = r]
      /\ issued' = issued + 1 /\ live' = (live \ {call[c].cookies}) \cup {issued + 1}
      /\ fresh' = fresh \cup {issued + 1}
  BY DEF Site!refresh
<1>3. /\ r \in Request /\ r.pc = "granted" /\ r.attempt = call[c].attempt
      /\ r.cookies = call[c].cookies /\ r.lost = call[c].lost /\ r.runs = call[c].runs
      /\ r.token = issued + 1
  <2>1. issued + 1 \in Known
    BY <1>1 DEF Known
  <2> QED BY <1>1, <2>1 DEF Request, Site!Refreshing
<1>4. RunsSoFar(r)
  BY <1>1, <1>3 DEF RunsSoFar, Site!Refreshing, Request
<1> HIDE DEF r
<1>5. /\ call' \in [Calls -> Request] /\ call'[c] = r
      /\ \A d \in Calls : d # c => call'[d] = call[d]
      /\ \A d \in Calls : RunsSoFar(call'[d])
  BY <1>2, <1>3, <1>4, OtherCallsStay
<1>6. /\ Arriving(c)' /\ ~ Arriving(c)
      /\ \A d \in Calls : d # c => (Arriving(d)' <=> Arriving(d))
  BY <1>1, <1>3, <1>5 DEF Arriving
<1>7. SiteTyped'
  <2>1. \A d \in Calls :
            /\ call'[d].pc \in Site!Refreshing => call'[d].cookies \in 1 .. issued'
            /\ Arriving(d)' => call'[d].token \in 1 .. issued'
    BY <1>1, <1>2, <1>3, <1>5, <1>6 DEF SiteInv, SiteTyped, Site!Refreshing
  <2>2. /\ issued' \in Nat \ {0} /\ live' \subseteq 1 .. issued' /\ fresh' \subseteq 1 .. issued'
        /\ 1 .. issued \subseteq 1 .. issued'
    <3>1. issued + 1 \in Nat \ {0} /\ \A n \in 1 .. issued : n \in 1 .. issued + 1
      BY <1>1
    <3>2. issued + 1 \in 1 .. issued + 1
      BY <1>1
    <3> QED BY <1>2, <3>1, <3>2 DEF SiteInv, SiteTyped
  <2>3. page' \in [token : 1 .. issued', cookies : 1 .. issued']
    BY <1>2, <2>2 DEF SiteInv, SiteTyped
  <2> QED BY <1>2, <1>5, <2>1, <2>2, <2>3 DEF SiteInv, SiteTyped
<1>8. GrantsAreGood'
  <2>1. ASSUME NEW d \in Calls, Arriving(d)'
        PROVE  /\ call'[d].token \in live' \cap fresh'
               /\ page'.cookies # call'[d].token
    BY <1>1, <1>2, <1>3, <1>5, <1>6, <2>1 DEF SiteInv, SiteTyped, GrantsAreGood
  <2>2. ASSUME NEW d \in Calls, Arriving(d)', NEW e \in Calls,
               call'[e].pc \in {"refresh", "rotate"}
        PROVE  call'[e].cookies # call'[d].token
    BY <1>1, <1>2, <1>3, <1>5, <1>6, <2>2
       DEF SiteInv, SiteTyped, GrantsAreGood, Site!Refreshing
  <2>3. ASSUME NEW d \in Calls, Arriving(d)', NEW e \in Calls, Arriving(e)', e # d
        PROVE  call'[e].token # call'[d].token
    BY <1>1, <1>2, <1>3, <1>5, <1>6, <2>3 DEF SiteInv, SiteTyped, GrantsAreGood
  <2> QED BY <2>1, <2>2, <2>3 DEF GrantsAreGood, Arriving
<1>9. CookiesComeGood'
  BY <1>6 DEF CookiesComeGood
<1>10. SecondIsFresh'
  BY <1>1, <1>2, <1>3, <1>4, <1>5 DEF SiteInv, SecondIsFresh, RunsSoFar, Site!Refreshing
<1>11. AloneIsCurrent'
  <2>1. Site!Rotating' = Site!Rotating
    BY <1>1, <1>3, <1>5 DEF Site!Rotating, Site!Refreshing
  <2> QED BY <1>2, <1>3, <1>5, <2>1 DEF SiteInv, AloneIsCurrent
<1>12. Site!ReadsAreServed'
  BY <1>2 DEF SiteInv, Site!ReadsAreServed
<1> QED BY <1>5, <1>7, <1>8, <1>9, <1>10, <1>11, <1>12 DEF SiteInv

LEMMA ArrivalKeepsSite ==
    ASSUME SiteInv, NEW c \in Calls, Site!refreshToken(c)
    PROVE  SiteInv'
<1> DEFINE t == call[c].token
           r == [call[c] EXCEPT !.pc = "sent", !.attempt = 1, !.cookies = call[c].token]
<1>1. /\ call[c] \in Request /\ Arriving(c) /\ RunsSoFar(call[c]) /\ t \in 1 .. issued
      /\ t \in live \cap fresh
  BY DEF Site!refreshToken, SiteInv, SiteTyped, GrantsAreGood, Arriving
<1>2. /\ UNCHANGED <<issued, live, fresh, faults, crossed, denied>>
      /\ page' = [token |-> t, cookies |-> t] /\ call' = [call EXCEPT ![c] = r]
  BY DEF Site!refreshToken
<1>3. /\ r \in Request /\ r.pc = "sent" /\ r.attempt = 1
      /\ r.lost = call[c].lost /\ r.runs = call[c].runs /\ r.token = t
  BY <1>1 DEF Request
<1>4. RunsSoFar(r)
  BY <1>1, <1>3 DEF RunsSoFar, Site!Refreshing, Request, Arriving
<1> HIDE DEF r
<1>5. /\ call' \in [Calls -> Request] /\ call'[c] = r
      /\ \A d \in Calls : d # c => call'[d] = call[d]
      /\ \A d \in Calls : RunsSoFar(call'[d])
  BY <1>2, <1>3, <1>4, OtherCallsStay
<1>6. /\ ~ Arriving(c)'
      /\ \A d \in Calls : d # c => (Arriving(d)' <=> Arriving(d))
  BY <1>3, <1>5 DEF Arriving
<1>7. SiteTyped'
  <2>1. \A d \in Calls :
            /\ call'[d].pc \in Site!Refreshing => call'[d].cookies \in 1 .. issued
            /\ Arriving(d)' => call'[d].token \in 1 .. issued
    BY <1>3, <1>5, <1>6 DEF SiteInv, SiteTyped, Site!Refreshing
  <2>2. page' \in [token : 1 .. issued, cookies : 1 .. issued]
    BY <1>1, <1>2
  <2> QED BY <1>2, <1>5, <2>1, <2>2 DEF SiteInv, SiteTyped
<1>8. GrantsAreGood'
  BY <1>1, <1>2, <1>3, <1>5, <1>6 DEF SiteInv, GrantsAreGood
<1>9. CookiesComeGood'
  BY <1>1, <1>2 DEF CookiesComeGood
<1>10. SecondIsFresh'
  BY <1>1, <1>2, <1>3, <1>5 DEF SiteInv, SecondIsFresh
<1>11. AloneIsCurrent'
  <2>1. Site!Rotating' \subseteq Site!Rotating
    BY <1>3, <1>5 DEF Site!Rotating, Site!Refreshing
  <2>2. c \in Site!Rotating
    BY <1>1 DEF Arriving, Site!Rotating, Site!Refreshing
  <2>3. ~ crossed => \A d \in Calls : call'[d].pc # "refresh"
    <3> SUFFICES ASSUME ~ crossed, NEW d \in Calls, call'[d].pc = "refresh" PROVE FALSE
      OBVIOUS
    <3>1. d # c /\ d \in Site!Rotating
      BY <1>3, <1>5 DEF Site!Rotating, Site!Refreshing
    <3> QED BY <2>2, <3>1 DEF SiteInv, AloneIsCurrent
  <2> QED BY <1>2, <2>1, <2>3 DEF SiteInv, AloneIsCurrent
<1>12. Site!ReadsAreServed'
  BY <1>2 DEF SiteInv, Site!ReadsAreServed
<1> QED BY <1>5, <1>7, <1>8, <1>9, <1>10, <1>11, <1>12 DEF SiteInv

LEMMA LossKeepsSite ==
    ASSUME SiteInv, NEW c \in Calls, Site!RefreshLost(c)
    PROVE  SiteInv'
<1> DEFINE r == [call[c] EXCEPT !.pc = "over"]
<1>1. /\ call[c] \in Request /\ call[c].pc \in {"refresh", "granted"} /\ RunsSoFar(call[c])
      /\ faults \in Nat
  BY DEF Site!RefreshLost, SiteInv, SiteTyped
<1>2. /\ UNCHANGED <<issued, live, fresh, page, crossed, denied>>
      /\ faults' = faults + 1 /\ call' = [call EXCEPT ![c] = r]
  BY DEF Site!RefreshLost
<1>3. /\ r \in Request /\ r.pc = "over" /\ r.attempt = call[c].attempt
      /\ r.lost = call[c].lost /\ r.runs = call[c].runs
  BY <1>1 DEF Request
<1>4. RunsSoFar(r)
  BY <1>1, <1>3 DEF RunsSoFar, Site!Refreshing, Request
<1> HIDE DEF r
<1>5. /\ call' \in [Calls -> Request] /\ call'[c] = r
      /\ \A d \in Calls : d # c => call'[d] = call[d]
      /\ \A d \in Calls : RunsSoFar(call'[d])
  BY <1>2, <1>3, <1>4, OtherCallsStay
<1>6. /\ ~ Arriving(c)' /\ faults' \in Nat /\ faults' # 0
      /\ \A d \in Calls : d # c => (Arriving(d)' <=> Arriving(d))
  BY <1>1, <1>2, <1>3, <1>5 DEF Arriving
<1>7. SiteTyped'
  <2>1. \A d \in Calls :
            /\ call'[d].pc \in Site!Refreshing => call'[d].cookies \in 1 .. issued
            /\ Arriving(d)' => call'[d].token \in 1 .. issued
    BY <1>3, <1>5, <1>6 DEF SiteInv, SiteTyped, Site!Refreshing
  <2> QED BY <1>2, <1>5, <1>6, <2>1 DEF SiteInv, SiteTyped
<1>8. GrantsAreGood'
  BY <1>2, <1>3, <1>5, <1>6 DEF SiteInv, GrantsAreGood
<1>9. CookiesComeGood' /\ SecondIsFresh'
  BY <1>6 DEF CookiesComeGood, SecondIsFresh
<1>10. AloneIsCurrent'
  <2>1. Site!Rotating' \subseteq Site!Rotating
    BY <1>3, <1>5 DEF Site!Rotating, Site!Refreshing
  <2> QED BY <1>2, <1>3, <1>5, <2>1 DEF SiteInv, AloneIsCurrent
<1>11. Site!ReadsAreServed'
  BY <1>2 DEF SiteInv, Site!ReadsAreServed
<1> QED BY <1>5, <1>7, <1>8, <1>9, <1>10, <1>11 DEF SiteInv

LEMMA ExpiryKeepsSite == SiteInv /\ Site!Expire => SiteInv'
<1> SUFFICES ASSUME SiteInv, Site!Expire PROVE SiteInv'
  OBVIOUS
<1>1. PICK a \in fresh :
          /\ \A c \in Calls : ~ (call[c].token = a /\ call[c].attempt = 1)
          /\ \A c \in Calls : ~ (call[c].token = a /\ call[c].pc = "granted")
          /\ fresh' = fresh \ {a}
  BY DEF Site!Expire
<1>2. UNCHANGED <<issued, live, page, call, faults, crossed, denied>>
  BY DEF Site!Expire
<1>3. SiteTyped'
  BY <1>1, <1>2 DEF SiteInv, SiteTyped, Arriving
<1>4. \A c \in Calls : RunsSoFar(call'[c])
  BY <1>2 DEF SiteInv
<1>5. GrantsAreGood'
  BY <1>1, <1>2 DEF SiteInv, GrantsAreGood, Arriving
<1>6. CookiesComeGood' /\ SecondIsFresh'
  BY <1>1, <1>2 DEF SiteInv, CookiesComeGood, SecondIsFresh, Arriving
<1>7. AloneIsCurrent' /\ Site!ReadsAreServed'
  BY <1>2 DEF SiteInv, AloneIsCurrent, Site!ReadsAreServed, Site!Rotating
<1> QED BY <1>3, <1>4, <1>5, <1>6, <1>7 DEF SiteInv

LEMMA NextSite == SiteInv /\ [Site!Next]_(Site!vars) => SiteInv'
<1> SUFFICES ASSUME SiteInv, [Site!Next]_(Site!vars) PROVE SiteInv'
  OBVIOUS
<1>1. CASE Site!Next
  BY <1>1, ExpiryKeepsSite, RequestKeepsSite, ServeKeepsSite, ForgetKeepsSite, RetryKeepsSite,
     ForbiddenKeepsSite, UnauthorizedKeepsSite, ReadKeepsSite, RefreshKeepsSite,
     ArrivalKeepsSite, LossKeepsSite DEF Site!Next
<1>2. CASE UNCHANGED Site!vars
  BY <1>2 DEF Site!vars, SiteInv, SiteTyped, GrantsAreGood, CookiesComeGood, SecondIsFresh,
              AloneIsCurrent, Arriving, Site!Rotating, Site!ReadsAreServed
<1> QED BY <1>1, <1>2

LEMMA SiteIsRight ==
    SiteInv => Site!ReadsAreServed /\ Site!RunsOnce /\ Site!CookiesStayGood
<1> SUFFICES ASSUME SiteInv
             PROVE  Site!ReadsAreServed /\ Site!RunsOnce /\ Site!CookiesStayGood
  OBVIOUS
<1>1. Site!RunsOnce
  BY DEF SiteInv, RunsSoFar, Site!RunsOnce
<1>2. Site!CookiesStayGood
  <2>1. \A c \in Calls : Arriving(c) => c \in Site!Rotating
    BY DEF Arriving, Site!Rotating, Site!Refreshing
  <2>2. faults = 0 \/ faults > 0
    BY DEF SiteInv, SiteTyped
  <2> QED BY <2>1, <2>2 DEF SiteInv, CookiesComeGood, Site!CookiesStayGood
<1> QED BY <1>1, <1>2 DEF SiteInv

-----------------------------------------------------------------------------
(* A call that only reads is served although its token expired, unless      *)
(* something is lost or another call refreshes at the same time             *)
(* (api.ts:135).                                                            *)
THEOREM ReadsSurviveExpiry == Site!Spec => []Site!ReadsAreServed
BY InitSite, NextSite, SiteIsRight, PTL DEF Site!Spec

(* A handler runs once for a call, and twice only after a loss              *)
(* (api.ts:113-132).                                                        *)
THEOREM RetriesRunOnce == Site!Spec => []Site!RunsOnce
BY InitSite, NextSite, SiteIsRight, PTL DEF Site!Spec

(* However many calls refresh at a time, the page keeps cookies the server  *)
(* accepts, unless an answer is lost (authController.js:300-312).           *)
THEOREM RefreshesLeaveGoodCookies == Site!Spec => []Site!CookiesStayGood
BY InitSite, NextSite, SiteIsRight, PTL DEF Site!Spec

-----------------------------------------------------------------------------
(* The session of a mobile app *)

CallPlaces == {"idle", "sent", "refused", "waiting", "again"}
FlightPlaces == {"none", "sent", "read", "used", "granted", "saved", "denied"}
Tokens == Nat \cup {None}

AppTyped ==
    /\ issued \in Nat /\ faults \in Nat /\ held \in Tokens /\ live \subseteq Nat
    /\ call \in [Calls -> [pc : CallPlaces, token : Tokens, on : Calls \cup {None}]]
    /\ flight \in [Calls -> [pc : FlightPlaces, token : Tokens]]
    /\ leaving \in {App!Out} \cup [pc : {"sent", "answered"}, token : Tokens]
    /\ {revoked, left, raced, ended} \subseteq BOOLEAN

(* There is one refresh at a time, and the call that began it waits. *)
OneFlight ==
    /\ \A f, g \in App!InFlight : f = g
    /\ \A f \in App!InFlight : call[f].pc = "waiting"

(* Without a cause the session has not ended, and what the app holds, or    *)
(* will hold after the refresh, is good.                                    *)
NoCause == faults = 0 /\ ~ revoked /\ ~ left

Unharmed ==
    NoCause =>
        /\ ~ ended /\ leaving = App!Out
        /\ App!InFlight = {} => held = None \/ held \in live
        /\ \A f \in App!InFlight :
               /\ flight[f].pc # "denied"
               /\ flight[f].pc = "sent" => flight[f].token = held /\ held \in live /\ held # None
               /\ flight[f].pc \in {"read", "used"} => held # None
               /\ flight[f].pc = "granted" => flight[f].token \in live /\ held # None
               /\ flight[f].pc = "saved" => held \in live

(* What the server accepts is what the app holds or the refresh brings or   *)
(* the logout is about to revoke.                                           *)
Undisturbed == faults = 0 /\ ~ raced

FlightAgrees(f) ==
    /\ flight[f].pc \in {"sent", "read", "granted"} => live \subseteq {flight[f].token}
    /\ flight[f].pc = "saved" => live \subseteq {held}
    /\ flight[f].pc \in {"used", "denied"} => live = {}
    /\ flight[f].pc # "saved" => held # None

TokensAgree ==
    Undisturbed =>
        /\ leaving = App!Out /\ App!InFlight = {} => live \subseteq {held}
        /\ \A f \in App!InFlight : FlightAgrees(f)
        /\ leaving # App!Out => App!InFlight = {}
        /\ leaving.pc = "sent" => live \subseteq {leaving.token}
        /\ leaving.pc = "answered" => live = {}

SessionInv == AppTyped /\ OneFlight /\ Unharmed /\ TokensAgree

USE DEF App!InFlight, NoCause, Undisturbed, FlightAgrees, App!Out

-----------------------------------------------------------------------------
LEMMA InitSession == App!Init => SessionInv
<1> SUFFICES ASSUME App!Init PROVE SessionInv
  OBVIOUS
<1>1. AppTyped
  BY DEF App!Init, AppTyped, Tokens, CallPlaces, FlightPlaces, App!Idle, App!NoFlight
<1>2. App!InFlight = {}
  BY DEF App!Init, App!NoFlight
<1>3. OneFlight /\ Unharmed /\ TokensAgree
  BY <1>2 DEF App!Init, OneFlight, Unharmed, TokensAgree
<1> QED BY <1>1, <1>3 DEF SessionInv

(* A call that neither refreshes nor waits. *)
LEMMA CallKeepsSession ==
    ASSUME SessionInv, NEW c \in Calls, App!request(c) \/ App!Serve(c)
    PROVE  SessionInv'
<1> USE DEF SessionInv
<1>1. UNCHANGED <<issued, live, held, flight, leaving, faults, revoked, left, raced, ended>>
  BY DEF App!request, App!Serve
<1>2. \E r \in [pc : CallPlaces, token : Tokens, on : Calls \cup {None}] :
          call[c].pc # "waiting" /\ call' = [call EXCEPT ![c] = r]
  <2>1. CASE App!request(c)
    <3>1. [pc |-> "sent", token |-> held, on |-> None]
              \in [pc : CallPlaces, token : Tokens, on : Calls \cup {None}]
      BY DEF AppTyped, CallPlaces
    <3>2. call[c].pc = "idle"
      BY <2>1 DEF App!request, App!Idle
    <3> QED BY <2>1, <3>1, <3>2 DEF App!request
  <2>2. CASE App!Serve(c)
    <3>1. [call[c] EXCEPT !.pc = "refused"]
              \in [pc : CallPlaces, token : Tokens, on : Calls \cup {None}]
      BY DEF AppTyped, CallPlaces
    <3>2. App!Idle \in [pc : CallPlaces, token : Tokens, on : Calls \cup {None}]
      BY DEF App!Idle, CallPlaces, Tokens
    <3> QED BY <2>2, <3>1, <3>2 DEF App!Serve
  <2> QED BY <2>1, <2>2
<1>3. App!InFlight' = App!InFlight
  BY <1>1
<1>4. AppTyped' /\ OneFlight'
  BY <1>1, <1>2, <1>3 DEF AppTyped, OneFlight
<1>5. Unharmed' /\ TokensAgree'
  BY <1>1, <1>3 DEF Unharmed, TokensAgree
<1> QED BY <1>4, <1>5

LEMMA BeginKeepsSession ==
    ASSUME SessionInv, NEW c \in Calls, App!refreshTokens(c)
    PROVE  SessionInv'
<1> USE DEF SessionInv
<1>1. /\ call[c].pc = "refused"
      /\ UNCHANGED <<issued, live, held, leaving, faults, revoked, left, ended>>
  BY DEF App!refreshTokens
<1>2. CASE held = None
  <2>1. call' = [call EXCEPT ![c] = App!Idle] /\ UNCHANGED <<flight, raced>>
    BY <1>2 DEF App!refreshTokens
  <2>2. App!Idle \in [pc : CallPlaces, token : Tokens, on : Calls \cup {None}]
    BY DEF App!Idle, CallPlaces, Tokens
  <2>3. AppTyped' /\ OneFlight'
    BY <1>1, <2>1, <2>2 DEF AppTyped, OneFlight
  <2>4. Unharmed' /\ TokensAgree'
    BY <1>1, <2>1 DEF Unharmed, TokensAgree
  <2> QED BY <2>3, <2>4
<1>3. CASE held # None
  <2>1. /\ call' = [call EXCEPT ![c] = [call[c] EXCEPT !.pc = "waiting", !.on = App!Shared(c)]]
        /\ raced' = (raced \/ leaving # App!Out)
        /\ flight' = IF App!Shared(c) = c
                     THEN [flight EXCEPT ![c] = [pc |-> "sent", token |-> held]] ELSE flight
    BY <1>3 DEF App!refreshTokens
  <2>2. c \notin App!InFlight
    BY <1>1 DEF OneFlight
  <2>3. App!Shared(c) \in Calls /\ (App!Shared(c) = c <=> App!InFlight = {})
    BY <2>2 DEF App!Shared
  <2>4. call'[c].pc = "waiting" /\ \A d \in Calls : d # c => call'[d] = call[d]
    BY <2>1 DEF AppTyped
  <2>5. call' \in [Calls -> [pc : CallPlaces, token : Tokens, on : Calls \cup {None}]]
    BY <2>1, <2>3 DEF AppTyped, CallPlaces
  <2>6. AppTyped'
    BY <1>1, <2>1, <2>5 DEF AppTyped, FlightPlaces
  <2>7. CASE App!InFlight = {}
    <3>1. flight' = [flight EXCEPT ![c] = [pc |-> "sent", token |-> held]]
      BY <2>1, <2>3, <2>7
    <3>2. App!InFlight' = {c} /\ flight'[c].pc = "sent" /\ flight'[c].token = held
      BY <2>7, <3>1 DEF AppTyped
    <3>3. OneFlight'
      BY <2>4, <3>2 DEF OneFlight
    <3>4. Unharmed' /\ TokensAgree'
      BY <1>1, <1>3, <2>1, <2>7, <3>2 DEF Unharmed, TokensAgree
    <3> QED BY <2>6, <3>3, <3>4
  <2>8. CASE App!InFlight # {}
    <3>1. flight' = flight /\ App!InFlight' = App!InFlight
      BY <2>1, <2>3, <2>8
    <3>2. OneFlight'
      BY <2>4, <3>1 DEF OneFlight
    <3>3. Unharmed' /\ TokensAgree'
      BY <1>1, <2>1, <3>1 DEF Unharmed, TokensAgree
    <3> QED BY <2>6, <3>2, <3>3
  <2> QED BY <2>7, <2>8
<1> QED BY <1>2, <1>3

(* A statement of the refresh, or its failure: what the steps have in common *)
(* is that the refresh goes on and nobody learns of it yet.                 *)
LEMMA RefreshGoesOn ==
    ASSUME SessionInv, NEW f \in Calls, NEW r \in [pc : FlightPlaces \ {"none"}, token : Tokens],
           flight[f].pc # "none", flight' = [flight EXCEPT ![f] = r],
           issued' \in Nat, faults' \in Nat, live' \subseteq Nat,
           UNCHANGED <<held, call, leaving, revoked, left, raced, ended>>
    PROVE  /\ AppTyped' /\ OneFlight'
           /\ App!InFlight' = App!InFlight /\ App!InFlight = {f} /\ flight'[f] = r
<1> USE DEF SessionInv
<1>1. AppTyped'
  BY DEF AppTyped, FlightPlaces
<1>2. App!InFlight' = App!InFlight /\ App!InFlight = {f} /\ flight'[f] = r
  BY DEF AppTyped, OneFlight
<1>3. OneFlight'
  BY <1>2 DEF OneFlight
<1> QED BY <1>1, <1>2, <1>3

LEMMA RefreshKeepsSession ==
    ASSUME SessionInv, NEW f \in Calls,
           App!refresh(f) \/ App!RevokeUsed(f) \/ App!ReplaceUsed(f) \/ App!RefreshFails(f)
    PROVE  SessionInv'
<1> USE DEF SessionInv
<1>1. /\ flight[f].pc \in {"sent", "read", "used", "granted"}
      /\ UNCHANGED <<held, call, leaving, revoked, left, raced, ended>>
  BY DEF App!refresh, App!RevokeUsed, App!ReplaceUsed, App!RefreshFails
<1>2. issued' \in Nat /\ faults' \in Nat /\ live' \subseteq Nat
  BY DEF App!refresh, App!RevokeUsed, App!ReplaceUsed, App!RefreshFails, App!Issue, AppTyped
<1>3. flight[f] \in [pc : FlightPlaces, token : Tokens] /\ issued + 1 \in Tokens
  BY DEF AppTyped, Tokens
<1>4. CASE App!refresh(f)
  <2> DEFINE r == [pc |-> IF flight[f].token \in live THEN "read" ELSE "denied",
                   token |-> flight[f].token]
  <2>1. flight' = [flight EXCEPT ![f] = r] /\ r \in [pc : FlightPlaces \ {"none"}, token : Tokens]
    <3>1. r \in [pc : FlightPlaces \ {"none"}, token : Tokens] /\ r = [flight[f] EXCEPT !.pc = r.pc]
      BY <1>3 DEF FlightPlaces
    <3>2. flight' = [flight EXCEPT ![f] = [flight[f] EXCEPT !.pc = r.pc]]
      BY <1>4 DEF App!refresh
    <3> QED BY <3>1, <3>2
  <2>2. flight[f].pc = "sent" /\ live' = live /\ faults' = faults
    BY <1>4 DEF App!refresh
  <2>3. /\ AppTyped' /\ OneFlight'
        /\ App!InFlight' = App!InFlight /\ App!InFlight = {f} /\ flight'[f] = r
    BY <1>1, <1>2, <2>1, RefreshGoesOn
  <2>4. Unharmed'
    BY <1>1, <2>2, <2>3 DEF Unharmed
  <2>5. TokensAgree'
    BY <1>1, <2>2, <2>3 DEF TokensAgree
  <2> QED BY <2>3, <2>4, <2>5
<1>5. CASE App!RevokeUsed(f)
  <2> DEFINE r == [pc |-> "used", token |-> flight[f].token]
  <2>1. flight' = [flight EXCEPT ![f] = r] /\ r \in [pc : FlightPlaces \ {"none"}, token : Tokens]
    <3>1. r \in [pc : FlightPlaces \ {"none"}, token : Tokens] /\ r = [flight[f] EXCEPT !.pc = r.pc]
      BY <1>3 DEF FlightPlaces
    <3>2. flight' = [flight EXCEPT ![f] = [flight[f] EXCEPT !.pc = r.pc]]
      BY <1>5 DEF App!RevokeUsed
    <3> QED BY <3>1, <3>2
  <2>2. flight[f].pc = "read" /\ live' = live \ {flight[f].token} /\ faults' = faults
    BY <1>5 DEF App!RevokeUsed
  <2>3. /\ AppTyped' /\ OneFlight'
        /\ App!InFlight' = App!InFlight /\ App!InFlight = {f} /\ flight'[f] = r
    BY <1>1, <1>2, <2>1, RefreshGoesOn
  <2>4. Unharmed'
    BY <1>1, <2>2, <2>3 DEF Unharmed
  <2>5. TokensAgree'
    BY <1>1, <2>2, <2>3 DEF TokensAgree
  <2> QED BY <2>3, <2>4, <2>5
<1>6. CASE App!ReplaceUsed(f)
  <2> DEFINE r == [pc |-> "granted", token |-> issued + 1]
  <2>1. flight' = [flight EXCEPT ![f] = r] /\ r \in [pc : FlightPlaces \ {"none"}, token : Tokens]
    BY <1>3, <1>6 DEF App!ReplaceUsed, FlightPlaces
  <2>2. flight[f].pc = "used" /\ live' = live \cup {issued + 1} /\ faults' = faults
    BY <1>6 DEF App!ReplaceUsed, App!Issue
  <2>3. /\ AppTyped' /\ OneFlight'
        /\ App!InFlight' = App!InFlight /\ App!InFlight = {f} /\ flight'[f] = r
    BY <1>1, <1>2, <2>1, <2>2, RefreshGoesOn
  <2>4. Unharmed'
    BY <1>1, <2>2, <2>3 DEF Unharmed
  <2>5. TokensAgree'
    BY <1>1, <2>2, <2>3 DEF TokensAgree
  <2> QED BY <2>3, <2>4, <2>5
<1>7. CASE App!RefreshFails(f)
  <2> DEFINE r == [pc |-> "denied", token |-> flight[f].token]
  <2>1. flight' = [flight EXCEPT ![f] = r] /\ r \in [pc : FlightPlaces \ {"none"}, token : Tokens]
    <3>1. r \in [pc : FlightPlaces \ {"none"}, token : Tokens] /\ r = [flight[f] EXCEPT !.pc = r.pc]
      BY <1>3 DEF FlightPlaces
    <3>2. flight' = [flight EXCEPT ![f] = [flight[f] EXCEPT !.pc = r.pc]]
      BY <1>7 DEF App!RefreshFails
    <3> QED BY <3>1, <3>2
  <2>2. faults' # 0
    BY <1>7 DEF App!RefreshFails, AppTyped
  <2>3. AppTyped' /\ OneFlight'
    BY <1>1, <1>2, <2>1, RefreshGoesOn
  <2> QED BY <2>2, <2>3 DEF Unharmed, TokensAgree
<1> QED BY <1>4, <1>5, <1>6, <1>7

LEMMA SaveKeepsSession ==
    ASSUME SessionInv, NEW f \in Calls, App!saveTokens(f)
    PROVE  SessionInv'
<1> USE DEF SessionInv
<1>1. /\ flight[f].pc = "granted" /\ held' = flight[f].token
      /\ UNCHANGED <<issued, live, call, leaving, faults, revoked, left, raced, ended>>
  BY DEF App!saveTokens
<1>2. flight' = [flight EXCEPT ![f] = [flight[f] EXCEPT !.pc = "saved"]]
  BY DEF App!saveTokens
<1>3. AppTyped'
  BY <1>1, <1>2 DEF AppTyped, FlightPlaces
<1>4. App!InFlight' = App!InFlight /\ App!InFlight = {f} /\ flight'[f].pc = "saved"
  BY <1>1, <1>2 DEF AppTyped, OneFlight
<1>5. OneFlight' /\ Unharmed' /\ TokensAgree'
  BY <1>1, <1>4 DEF OneFlight, Unharmed, TokensAgree
<1> QED BY <1>3, <1>5

LEMMA SettleKeepsSession ==
    ASSUME SessionInv, NEW f \in Calls, App!RefreshSettles(f)
    PROVE  SessionInv'
<1> USE DEF SessionInv
<1>1. /\ flight[f].pc \in {"saved", "denied"} /\ flight' = [flight EXCEPT ![f] = App!NoFlight]
      /\ UNCHANGED <<issued, live, leaving, faults, revoked, left, raced>>
  BY DEF App!RefreshSettles
<1>2. App!InFlight = {f} /\ App!InFlight' = {}
  BY <1>1 DEF AppTyped, OneFlight, App!NoFlight
<1>3. call' \in [Calls -> [pc : CallPlaces, token : Tokens, on : Calls \cup {None}]]
  <2>1. [pc |-> "again", token |-> held, on |-> None]
            \in [pc : CallPlaces, token : Tokens, on : Calls \cup {None}]
    BY DEF AppTyped, CallPlaces
  <2>2. App!Idle \in [pc : CallPlaces, token : Tokens, on : Calls \cup {None}]
    BY DEF App!Idle, CallPlaces, Tokens
  <2> QED BY <2>1, <2>2 DEF App!RefreshSettles, AppTyped
<1>4. App!NoFlight \in [pc : FlightPlaces, token : Tokens]
  BY DEF App!NoFlight, FlightPlaces, Tokens
<1>5. IF flight[f].pc = "saved" THEN UNCHANGED <<held, ended>> ELSE held' = None /\ ended' = TRUE
  BY DEF App!RefreshSettles
<1>6. AppTyped'
  BY <1>1, <1>3, <1>4, <1>5 DEF AppTyped, Tokens
<1>7. OneFlight'
  BY <1>2 DEF OneFlight
<1>8. Unharmed'
  BY <1>1, <1>2, <1>5 DEF Unharmed
<1>9. TokensAgree'
  BY <1>1, <1>2, <1>5 DEF TokensAgree
<1> QED BY <1>6, <1>7, <1>8, <1>9

LEMMA UserKeepsSession ==
    ASSUME SessionInv, None \notin Nat,
           \/ App!forceLogout \/ App!login \/ App!logout \/ App!LogoutServed
           \/ App!clearTokens
    PROVE  SessionInv'
<1> USE DEF SessionInv
<1>1. call' = call /\ flight' = flight /\ App!InFlight' = App!InFlight
  BY DEF App!forceLogout, App!login, App!logout, App!LogoutServed, App!clearTokens
<1>2. OneFlight'
  BY <1>1 DEF OneFlight
<1>3. CASE App!forceLogout
  <2>1. /\ live' = {} /\ revoked' = TRUE
        /\ UNCHANGED <<issued, held, leaving, faults, left, raced, ended>>
    BY <1>3 DEF App!forceLogout
  <2> QED BY <1>1, <1>2, <2>1 DEF AppTyped, Unharmed, TokensAgree
<1>4. CASE App!login
  <2>1. /\ held = None /\ leaving = App!Out /\ held' = issued + 1 /\ issued' = issued + 1
        /\ live' = live \cup {issued + 1}
        /\ UNCHANGED <<leaving, faults, revoked, left, raced, ended>>
    BY <1>4 DEF App!login, App!Issue
  <2>2. AppTyped'
    BY <1>1, <2>1 DEF AppTyped, Tokens
  <2>3. None \notin live
    BY DEF AppTyped
  <2>4. Unharmed'
    BY <1>1, <2>1 DEF Unharmed
  <2>5. TokensAgree'
    BY <1>1, <2>1, <2>3 DEF TokensAgree
  <2> QED BY <1>2, <2>2, <2>4, <2>5
<1>5. CASE App!logout
  <2>1. /\ held # None /\ leaving = App!Out /\ leaving' = [pc |-> "sent", token |-> held]
        /\ left' = TRUE /\ raced' = (raced \/ App!InFlight # {})
        /\ UNCHANGED <<issued, live, held, faults, revoked, ended>>
    BY <1>5 DEF App!logout
  <2>2. AppTyped'
    BY <1>1, <2>1 DEF AppTyped
  <2>3. Unharmed' /\ TokensAgree'
    BY <1>1, <2>1 DEF Unharmed, TokensAgree
  <2> QED BY <1>2, <2>2, <2>3
<1>6. CASE App!LogoutServed
  <2>1. /\ leaving.pc = "sent" /\ leaving' = [leaving EXCEPT !.pc = "answered"]
        /\ UNCHANGED <<issued, held, revoked, left, raced, ended>>
        /\ \/ live' = live \ {leaving.token} /\ faults' = faults
           \/ live' = live /\ faults' = faults + 1
    BY <1>6 DEF App!LogoutServed
  <2>2. leaving \in [pc : {"sent", "answered"}, token : Tokens] /\ leaving # App!Out
    BY <2>1 DEF AppTyped
  <2>3. leaving' \in [pc : {"sent", "answered"}, token : Tokens] /\ leaving'.pc = "answered"
    BY <2>1, <2>2
  <2>4. AppTyped'
    BY <1>1, <2>1, <2>3 DEF AppTyped
  <2>5. Unharmed' /\ TokensAgree'
    BY <1>1, <2>1, <2>2, <2>3 DEF AppTyped, Unharmed, TokensAgree
  <2> QED BY <1>2, <2>4, <2>5
<1>7. CASE App!clearTokens
  <2>1. /\ leaving.pc = "answered" /\ leaving' = App!Out /\ held' = None
        /\ UNCHANGED <<issued, live, faults, revoked, left, raced, ended>>
    BY <1>7 DEF App!clearTokens
  <2>2. AppTyped'
    BY <1>1, <2>1 DEF AppTyped, Tokens
  <2>3. Unharmed' /\ TokensAgree'
    BY <1>1, <2>1 DEF AppTyped, Unharmed, TokensAgree
  <2> QED BY <1>2, <2>2, <2>3
<1> QED BY <1>3, <1>4, <1>5, <1>6, <1>7

LEMMA NextSession == None \notin Nat => (SessionInv /\ [App!Next]_(App!vars) => SessionInv')
<1> SUFFICES ASSUME None \notin Nat, SessionInv, [App!Next]_(App!vars) PROVE SessionInv'
  OBVIOUS
<1>1. CASE UNCHANGED App!vars
  BY <1>1 DEF App!vars, SessionInv, AppTyped, OneFlight, Unharmed, TokensAgree
<1>2. CASE App!Expire
  <2>1. UNCHANGED <<issued, live, held, call, flight, leaving, faults, revoked, left, raced, ended>>
    BY <1>2 DEF App!Expire
  <2> QED BY <2>1 DEF SessionInv, AppTyped, OneFlight, Unharmed, TokensAgree
<1>3. CASE App!Next /\ ~ App!Expire
  BY <1>3, CallKeepsSession, BeginKeepsSession, RefreshKeepsSession, SaveKeepsSession,
     SettleKeepsSession, UserKeepsSession DEF App!Next
<1> QED BY <1>1, <1>2, <1>3

LEMMA SessionIsRight == SessionInv => App!SessionEndsForCause /\ App!SessionsAgree
<1>1. SessionInv => App!SessionEndsForCause
  BY DEF SessionInv, AppTyped, Unharmed, App!SessionEndsForCause
<1>2. SessionInv => App!SessionsAgree
  BY DEF SessionInv, TokensAgree, App!SessionsAgree
<1> QED BY <1>1, <1>2

-----------------------------------------------------------------------------
(* However many calls find their token expired at once, the app ends its    *)
(* session only for a cause (apiClient.ts:134-139).                         *)
THEOREM EndsOnlyForCause ==
    ASSUME None \notin Nat
    PROVE  App!Spec => []App!SessionEndsForCause
<1>1. SessionInv /\ [App!Next]_(App!vars) => SessionInv'
  BY NextSession
<1> QED BY <1>1, InitSession, SessionIsRight, PTL DEF App!Spec

(* The app holds the one token that the server accepts, unless something    *)
(* was lost or a refresh raced with the logout (authController.js:291-325). *)
THEOREM AppAndServerAgree ==
    ASSUME None \notin Nat
    PROVE  App!Spec => []App!SessionsAgree
<1>1. SessionInv /\ [App!Next]_(App!vars) => SessionInv'
  BY NextSession
<1> QED BY <1>1, InitSession, SessionIsRight, PTL DEF App!Spec
=============================================================================
