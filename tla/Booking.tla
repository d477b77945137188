------------------------------- MODULE Booking -------------------------------
(***************************************************************************)
(* The life of one booking: its row in jobs and the quotes made for it,    *)
(* under every endpoint and background pass that changes them.             *)
(*                                                                         *)
(* The server handles requests concurrently and each SQL statement is its  *)
(* own transaction, so a handler that reads, checks and then writes is a   *)
(* chain of steps with anything in between.  A request (or a pass of a     *)
(* background loop) occupies a slot; task[s] says which statement the slot *)
(* runs next and what it has read so far.  A handler that is one guarded   *)
(* UPDATE is one action.  The final write of transitionJob, an UPDATE that *)
(* only succeeds while the status is the one read, is the step Transition. *)
(***************************************************************************)
EXTENDS JobStateMachine, FiniteSets

CONSTANTS
    Requests,       \* slots for HTTP requests in progress
    Reapers,        \* slots for passes of the background loops
    Quotes,         \* quote rows that may be inserted
    Amounts,        \* prices
    Estimates,      \* bound: the estimates bookings are made with, None for none at all
    Callers,        \* bound: the people who make requests
    PatchTargets,   \* bound: the statuses PATCH /jobs/:id is asked for
    MayFail         \* whether a statement may fail or the process stop

ASSUME SlotsAssumption ==
    /\ Requests \cap Reapers = {}
    /\ Callers \subseteq People
    /\ PatchTargets \subseteq Status
    /\ None \notin Quotes /\ None \notin Amounts /\ None \notin Status
    /\ Amounts # {} /\ Estimates \subseteq Amounts \cup {None}
    /\ MayFail \in BOOLEAN

Slots == Requests \cup Reapers

(* the customer, or an administrator in the customer's place *)
CustomerCalls == Callers \cap {Customer, Admin} # {}

(* a member of the company with a dispatch role *)
DispatchCalls == Callers \cap Members # {}

VARIABLES
    job,        \* the row of jobs
    quotes,     \* the rows of quotes, "none" when not inserted
    task,       \* what each slot is in the middle of
    booked,     \* history: quotes whose acceptance confirmed the booking
    approved    \* history: the prices the customer agreed to, None for any

vars == <<job, quotes, task, booked, approved>>

Live == {"sent", "viewed"}
LiveQuotes == {q \in Quotes : quotes[q].status \in Live}

Idle == [pc |-> "idle", from |-> None, to |-> None, via |-> None,
         quote |-> None, amount |-> None]

-----------------------------------------------------------------------------
(* createJob.  A booking names a company or goes to the company pool, or is *)
(* an individual job, perhaps for one preferred fundi.  Only an individual  *)
(* job with a date is parked as scheduled.  The price is the pricing        *)
(* engine's, else the customer's own estimate, else none at all.            *)
NewJob(company, pool, dated, preferred, price) ==
    [status |-> IF company THEN "pending"
                ELSE IF dated /\ ~ pool THEN "scheduled" ELSE "matching",
     fundi |-> None, tech |-> None, company |-> company, pool |-> pool,
     dated |-> dated, preferred |-> preferred, est |-> price,
     confirmed |-> FALSE, otp |-> FALSE]

Init ==
    /\ \E company, pool, dated \in BOOLEAN, preferred \in Fundis \cup {None},
        price \in Estimates :
          /\ company => pool
          /\ pool => preferred = None
          /\ job = NewJob(company, pool, dated, preferred, price)
    /\ quotes = [q \in Quotes |-> [status |-> "none", amount |-> None]]
    /\ task = [s \in Slots |-> Idle]
    /\ booked = {}
    /\ approved = {job.est}

-----------------------------------------------------------------------------
(* Steps of a slot *)

At(s, pc) == task[s].pc = pc
Become(s, t) == task' = [task EXCEPT ![s] = t]
Finish(s) == Become(s, Idle)

(* transitionJob up to its UPDATE: the edge is checked against the row read. *)
Ask(s, from, to, via) ==
    /\ TransitionAllowed(from, to)
    /\ Become(s, [Idle EXCEPT !.pc = "cas", !.from = from, !.to = to, !.via = via])
    /\ UNCHANGED <<job, quotes, booked, approved>>

(* The columns written in the same UPDATE as the status (extraSet). *)
Moved(t) ==
    [job EXCEPT !.status = t.to,
                !.company = @ /\ t.via # "companyReject",
                !.otp = IF t.via = "complete" THEN TRUE ELSE @ /\ t.via # "confirm",
                !.confirmed = @ \/ t.via = "confirm"]

(* What the handler goes on to do once its transition has been written. *)
AfterTransition(t) ==
    CASE t.via = "cancel"  -> [Idle EXCEPT !.pc = "clear"]
      [] t.via = "offer"   -> [Idle EXCEPT !.pc = "price", !.quote = t.quote, !.amount = t.amount]
      [] t.via = "confirm" -> [Idle EXCEPT !.pc = "release", !.from = t.to]
      [] OTHER             -> Idle

(* Mutant: the UPDATE of transitionJob without "AND status = :from". *)
TransitionUnguarded(s) ==
    /\ At(s, "cas")
    /\ job' = Moved(task[s])
    /\ Become(s, AfterTransition(task[s]))
    /\ booked' = IF task[s].via = "accept" THEN booked \cup {task[s].quote} ELSE booked
    /\ UNCHANGED <<quotes, approved>>

Transition(s) ==
    /\ At(s, "cas")
    /\ \/ /\ job.status = task[s].from
          /\ job' = Moved(task[s])
          /\ Become(s, AfterTransition(task[s]))
          /\ booked' = IF task[s].via = "accept" THEN booked \cup {task[s].quote} ELSE booked
       \/ /\ job.status # task[s].from        \* 409: changed concurrently
          /\ Finish(s)
          /\ UNCHANGED <<job, booked>>
    /\ UNCHANGED <<quotes, approved>>

(* A statement fails or the process stops: nothing else of the request runs. *)
Fail(s) ==
    /\ MayFail
    /\ ~ At(s, "idle")
    /\ Finish(s)
    /\ UNCHANGED <<job, quotes, booked, approved>>

-----------------------------------------------------------------------------
(* jobController: the booking's participants *)

(* patchJob and updateStatus *)
PatchJob(s) ==
    /\ At(s, "idle")
    /\ \E to \in PatchTargets, who \in Callers :
          /\ HasAccess(who, job)
          /\ MayDrive(who, job, to)
          /\ Ask(s, job.status, to, "patch")

(* Mutant: an acceptance without a price writes null (no COALESCE). *)
AcceptJobUncoalesced(s) ==
    /\ At(s, "idle")
    /\ job.status \in {"pending", "matching"}
    /\ \E who \in Callers \cap (Fundis \cup {Admin}), price \in Amounts \cup {None} :
          /\ job.preferred \in {None, who}
          /\ job' = [job EXCEPT !.status = "accepted", !.fundi = who, !.est = price]
    /\ UNCHANGED <<quotes, task, booked, approved>>

(* acceptJob is one UPDATE.  Its price overwrites the estimate, which is    *)
(* why the revision check that follows it never finds a difference.         *)
AcceptJob(s) ==
    /\ At(s, "idle")
    /\ job.status \in {"pending", "matching"}
    /\ \E who \in Callers \cap (Fundis \cup {Admin}), price \in Amounts \cup {job.est} :
          /\ job.preferred \in {None, who}
          /\ job' = [job EXCEPT !.status = "accepted", !.fundi = who, !.est = price]
    /\ UNCHANGED <<quotes, task, booked, approved>>

CancelJob(s) ==
    /\ At(s, "idle")
    /\ \E who \in Callers :
          /\ HasAccess(who, job)
          /\ \/ who = Admin
             \/ job.status \in {"pending", "matching", "quote_requested", "offered",
                                "accepted", "booking_confirmed", "scheduled"}
    /\ Ask(s, job.status, "cancelled", "cancel")

(* the second statement of cancelJob *)
CancelLiveQuotes(s) ==
    /\ At(s, "clear")
    /\ quotes' = [q \in Quotes |-> IF q \in LiveQuotes
                                   THEN [quotes[q] EXCEPT !.status = "cancelled"] ELSE quotes[q]]
    /\ Finish(s)
    /\ UNCHANGED <<job, booked, approved>>

CheckIn(s) ==
    /\ At(s, "idle")
    /\ Callers \cap {job.fundi, Admin} # {}
    /\ \E to \in {"on_the_way", "arrived", "in_progress"} :
          /\ job.status \in CASE to = "on_the_way" -> {"accepted", "booking_confirmed",
                                                       "assigned", "scheduled"}
                              [] to = "arrived" -> {"on_the_way", "assigned"}
                              [] to = "in_progress" -> {"arrived"}
          /\ Ask(s, job.status, to, "patch")

CompleteJob(s) ==
    /\ At(s, "idle")
    /\ \E who \in Callers : who \in {job.fundi, Admin} \/ CompanyMember(who, job)
    /\ job.status = "in_progress"
    /\ Ask(s, "in_progress", "completion_requested", "complete")

(* resendCompletionCode: the row is read, checked, and written without a    *)
(* condition.                                                               *)
ResendCompletionCode(s) ==
    /\ At(s, "idle")
    /\ CustomerCalls
    /\ job.status \in {"completed", "completion_requested", "customer_confirmed_completion"}
    /\ ~ job.confirmed
    /\ Become(s, [Idle EXCEPT !.pc = "resend"])
    /\ UNCHANGED <<job, quotes, booked, approved>>

WriteCompletionCode(s) ==
    /\ At(s, "resend")
    /\ job' = [job EXCEPT !.otp = TRUE]
    /\ Finish(s)
    /\ UNCHANGED <<quotes, booked, approved>>

(* confirmCompletion: read, verify the code, write, release, complete.      *)
ConfirmCompletion(s) ==
    /\ At(s, "idle")
    /\ CustomerCalls
    /\ ~ job.confirmed
    /\ Become(s, [Idle EXCEPT !.pc = "verify", !.from = job.status])
    /\ UNCHANGED <<job, quotes, booked, approved>>

VerifyCompletionCode(s) ==
    LET from == task[s].from
        to == "customer_confirmed_completion"
    IN  /\ At(s, "verify")
        /\ \/ /\ job.otp
              /\ from = "completed"
              /\ Become(s, [Idle EXCEPT !.pc = "direct", !.from = from])
              /\ UNCHANGED <<job, quotes, booked, approved>>
           \/ job.otp /\ from # "completed" /\ Ask(s, from, to, "confirm")
           \/ /\ Finish(s)          \* no code issued, a wrong code, or no such edge
              /\ UNCHANGED <<job, quotes, booked, approved>>

ConfirmDirectly(s) ==
    /\ At(s, "direct")
    /\ \/ /\ job.status = "completed" /\ ~ job.confirmed
          /\ job' = [job EXCEPT !.confirmed = TRUE, !.otp = FALSE]
          /\ Become(s, [task[s] EXCEPT !.pc = "release"])
       \/ /\ job.status # "completed" \/ job.confirmed
          /\ Finish(s)
          /\ UNCHANGED job
    /\ UNCHANGED <<quotes, booked, approved>>

(* releaseJobEscrow needs a confirmed job in status completed and throws    *)
(* otherwise; a dispute or the ledger can make it throw as well.            *)
ReleaseAndFinalize(s) ==
    /\ At(s, "release")
    /\ \/ /\ job.status = "completed" /\ job.confirmed
          /\ Ask(s, task[s].from, "completed", "finalize")
       \/ /\ Finish(s)
          /\ UNCHANGED <<job, quotes, booked, approved>>

-----------------------------------------------------------------------------
(* companyController: the dispatch roles of the company *)

ClaimPoolJob(s) ==
    /\ At(s, "idle")
    /\ DispatchCalls
    /\ job.pool /\ ~ job.company
    /\ job.status \in {"pending", "matching"}
    /\ job' = [job EXCEPT !.company = TRUE]
    /\ UNCHANGED <<quotes, task, booked, approved>>

AcceptCompanyJob(s) ==
    /\ At(s, "idle")
    /\ DispatchCalls
    /\ job.company
    /\ job.status \in {"pending", "matching", "scheduled"}
    /\ Ask(s, job.status, "accepted", "patch")

RejectCompanyJob(s) ==
    /\ At(s, "idle")
    /\ DispatchCalls
    /\ job.company
    /\ job.status \in {"pending", "accepted", "scheduled"}
    /\ Ask(s, job.status, "matching", "companyReject")

(* Mutant: the UPDATE checks the company only, not the status. *)
AssignTechnicianAnytime(s) ==
    /\ At(s, "idle")
    /\ DispatchCalls
    /\ job.company
    /\ \E tech \in Members :
          job' = [job EXCEPT !.status = "assigned", !.fundi = tech, !.tech = tech]
    /\ UNCHANGED <<quotes, task, booked, approved>>

(* assignTechnician and unassignTechnician write the status themselves, in  *)
(* one guarded UPDATE each.                                                 *)
AssignTechnician(s) ==
    /\ At(s, "idle")
    /\ DispatchCalls
    /\ job.company
    /\ job.status \in {"accepted", "booking_confirmed", "offered", "scheduled",
                       "matching", "pending"}
    /\ \E tech \in Members :
          job' = [job EXCEPT !.status = "assigned", !.fundi = tech, !.tech = tech]
    /\ UNCHANGED <<quotes, task, booked, approved>>

UnassignTechnician(s) ==
    /\ At(s, "idle")
    /\ DispatchCalls
    /\ job.company
    /\ job.status \in {"assigned", "on_the_way"}
    /\ job' = [job EXCEPT !.status = "accepted", !.fundi = None, !.tech = None]
    /\ UNCHANGED <<quotes, task, booked, approved>>

(* quoteCompanyJob reads that the company holds the booking, createQuote    *)
(* then reads the row, looks for a live quote, inserts, asks for "offered"  *)
(* and finally overwrites the estimate.                                     *)
QuoteCompanyJob(s) ==
    /\ At(s, "idle")
    /\ DispatchCalls
    /\ job.company
    /\ \E q \in Quotes : quotes[q].status = "none"     \* bound: a row is left to insert
    /\ \E a \in Amounts : Become(s, [Idle EXCEPT !.pc = "brief", !.amount = a])
    /\ UNCHANGED <<job, quotes, booked, approved>>

ReadJobToQuote(s) ==
    /\ At(s, "brief")
    /\ IF job.status \in TerminalStates THEN Finish(s)
       ELSE Become(s, [task[s] EXCEPT !.pc = "check", !.from = job.status])
    /\ UNCHANGED <<job, quotes, booked, approved>>

CheckNoLiveQuote(s) ==
    /\ At(s, "check")
    /\ IF LiveQuotes # {} THEN Finish(s) ELSE Become(s, [task[s] EXCEPT !.pc = "insert"])
    /\ UNCHANGED <<job, quotes, booked, approved>>

(* Mutant: no unique index on live quotes, the check before is all there is. *)
InsertQuoteUnindexed(s) ==
    /\ At(s, "insert")
    /\ \E q \in Quotes :
          /\ quotes[q].status = "none"
          /\ quotes' = [quotes EXCEPT ![q] = [status |-> "sent", amount |-> task[s].amount]]
    /\ Finish(s)
    /\ UNCHANGED <<job, booked, approved>>

(* The insert meets the unique index on live quotes.  A status that has no  *)
(* edge to offered makes transitionJob throw with the quote in place.       *)
InsertQuote(s) ==
    /\ At(s, "insert")
    /\ \/ \E q \in Quotes :
            /\ LiveQuotes = {} /\ quotes[q].status = "none"
            /\ quotes' = [quotes EXCEPT ![q] = [status |-> "sent", amount |-> task[s].amount]]
            /\ Become(s,
                 IF task[s].from \notin {"pending", "matching", "quote_requested",
                                         "accepted", "scheduled", "booking_confirmed"}
                 THEN [task[s] EXCEPT !.pc = "price", !.quote = q]
                 ELSE IF TransitionAllowed(task[s].from, "offered")
                 THEN [task[s] EXCEPT !.pc = "cas", !.to = "offered", !.via = "offer", !.quote = q]
                 ELSE Idle)
       \/ /\ LiveQuotes # {} \/ \A q \in Quotes : quotes[q].status # "none"
          /\ Finish(s)
          /\ UNCHANGED quotes
    /\ UNCHANGED <<job, booked, approved>>

WriteEstimate(s) ==
    /\ At(s, "price")
    /\ job' = [job EXCEPT !.est = task[s].amount]
    /\ Finish(s)
    /\ UNCHANGED <<quotes, booked, approved>>

-----------------------------------------------------------------------------
(* quoteService: the customer's side of a quote *)

(* Lazy expiry, run whenever a participant reads the quotes; time is        *)
(* abstract, a live quote may be past its expiry at any moment.             *)
ExpireOnRead(s) ==
    /\ At(s, "idle")
    /\ \E who \in Callers : HasAccess(who, job)
    /\ \E q \in LiveQuotes : quotes' = [quotes EXCEPT ![q].status = "expired"]
    /\ UNCHANGED <<job, task, booked, approved>>

MarkQuoteViewed(s) ==
    /\ At(s, "idle")
    /\ Customer \in Callers
    /\ \E q \in Quotes : /\ quotes[q].status = "sent"
                         /\ quotes' = [quotes EXCEPT ![q].status = "viewed"]
    /\ UNCHANGED <<job, task, booked, approved>>

(* decideQuote reads the job, expires, picks the live quote, writes the     *)
(* decision on it by id only, and then moves the job.                       *)
DecideQuote(s) ==
    /\ At(s, "idle")
    /\ CustomerCalls
    /\ Quotes # {}                                     \* bound: else none is ever found
    /\ \E decision \in {"accept", "decline"} :
          Become(s, [Idle EXCEPT !.pc = "find", !.from = job.status, !.via = decision])
    /\ UNCHANGED <<job, quotes, booked, approved>>

FindLiveQuote(s) ==
    /\ At(s, "find")
    /\ \/ \E q \in LiveQuotes :
            \/ /\ quotes' = [quotes EXCEPT ![q].status = "expired"]
               /\ Finish(s)
            \/ /\ IF task[s].from \in QuotePhase
                  THEN Become(s, [task[s] EXCEPT !.pc = "decide", !.quote = q])
                  ELSE Finish(s)
               /\ UNCHANGED quotes
       \/ LiveQuotes = {} /\ Finish(s) /\ UNCHANGED quotes
    /\ UNCHANGED <<job, booked, approved>>

WriteDecision(s) ==
    LET t == task[s]
        to == IF t.via = "accept" THEN "booking_confirmed" ELSE "matching"
    IN  /\ At(s, "decide")
        /\ quotes' = [quotes EXCEPT ![t.quote].status =
                         IF t.via = "accept" THEN "accepted" ELSE "declined"]
        /\ approved' = IF t.via = "accept" THEN approved \cup {quotes[t.quote].amount} ELSE approved
        /\ Become(s, IF TransitionAllowed(t.from, to)
                     THEN [t EXCEPT !.pc = "cas", !.to = to] ELSE Idle)
        /\ UNCHANGED <<job, booked>>

(* addQuoteQuestion reads the live quote and marks it viewed by id only:    *)
(* it can bring a decided quote back, unless the unique index objects.      *)
AskQuestion(s) ==
    /\ At(s, "idle")
    /\ CustomerCalls
    /\ \E q \in LiveQuotes : Become(s, [Idle EXCEPT !.pc = "ask", !.quote = q])
    /\ UNCHANGED <<job, quotes, booked, approved>>

WriteQuestion(s) ==
    LET q == task[s].quote
    IN  /\ At(s, "ask")
        /\ IF LiveQuotes \subseteq {q}
           THEN quotes' = [quotes EXCEPT ![q].status = "viewed"] ELSE UNCHANGED quotes
        /\ Finish(s)
        /\ UNCHANGED <<job, booked, approved>>

-----------------------------------------------------------------------------

(* Mutant: a booking is activated into "pending", which has no edge. *)
ActivateScheduledAsPending(b) ==
    /\ At(b, "idle")
    /\ job.status = "scheduled" /\ job.dated
    /\ Ask(b, "scheduled", "pending", "reaper")

(* The background loops: server.js every minute, queueWorker every 5 s.     *)
(* Each reads the rows that are due and asks the state machine to move      *)
(* them; a conflict is logged and the next pass tries again.                *)
ActivateScheduled(b) ==
    /\ At(b, "idle")
    /\ job.status = "scheduled" /\ job.dated
    /\ Ask(b, "scheduled", "matching", "reaper")

(* Mutant: offers are requeued only while their quote is live. *)
RequeueQuotedOffer(b) ==
    /\ LiveQuotes # {}
    /\ At(b, "idle")
    /\ job.status = "offered"
    /\ Ask(b, "offered", "matching", "reaper")

RequeueStaleOffer(b) ==
    /\ At(b, "idle")
    /\ job.status = "offered"
    /\ Ask(b, "offered", "matching", "reaper")

ExpireUnmatched(b) ==
    /\ At(b, "idle")
    /\ job.status \in {"pending", "matching"}
    /\ Ask(b, job.status, "expired", "reaper")

(* Mutant: only the quotes of jobs still offered are swept. *)
ExpireOfferedQuotes(b) ==
    /\ At(b, "idle")
    /\ job.status = "offered"
    /\ \E q \in LiveQuotes : quotes' = [quotes EXCEPT ![q].status = "expired"]
    /\ Become(b, [Idle EXCEPT !.pc = "reopen"])
    /\ UNCHANGED <<job, booked, approved>>

(* expireStaleQuotes *)
ExpireStaleQuotes(b) ==
    /\ At(b, "idle")
    /\ \E q \in LiveQuotes : quotes' = [quotes EXCEPT ![q].status = "expired"]
    /\ Become(b, [Idle EXCEPT !.pc = "reopen"])
    /\ UNCHANGED <<job, booked, approved>>

ReopenMatching(b) ==
    /\ At(b, "reopen")
    /\ \/ job.status = "offered" /\ Ask(b, "offered", "matching", "reaper")
       \/ /\ job.status # "offered"
          /\ Finish(b)
          /\ UNCHANGED <<job, quotes, booked, approved>>

-----------------------------------------------------------------------------
CustomerAct(s) ==
    \/ CancelJob(s) \/ CancelLiveQuotes(s)
    \/ ResendCompletionCode(s) \/ WriteCompletionCode(s)
    \/ ConfirmCompletion(s) \/ VerifyCompletionCode(s) \/ ConfirmDirectly(s)
    \/ ReleaseAndFinalize(s)
    \/ ExpireOnRead(s) \/ MarkQuoteViewed(s)
    \/ DecideQuote(s) \/ FindLiveQuote(s) \/ WriteDecision(s)
    \/ AskQuestion(s) \/ WriteQuestion(s)

ProviderAct(s) ==
    \/ AcceptJob(s) \/ CheckIn(s) \/ CompleteJob(s)
    \/ ClaimPoolJob(s) \/ AcceptCompanyJob(s) \/ RejectCompanyJob(s)
    \/ AssignTechnician(s) \/ UnassignTechnician(s)
    \/ QuoteCompanyJob(s) \/ ReadJobToQuote(s) \/ CheckNoLiveQuote(s)
    \/ InsertQuote(s) \/ WriteEstimate(s)

ReaperAct(b) ==
    \/ ActivateScheduled(b) \/ RequeueStaleOffer(b) \/ ExpireUnmatched(b)
    \/ ExpireStaleQuotes(b) \/ ReopenMatching(b)

Next ==
    \/ \E s \in Requests : PatchJob(s) \/ CustomerAct(s) \/ ProviderAct(s)
    \/ \E b \in Reapers : ReaperAct(b)
    \/ \E s \in Slots : Transition(s) \/ Fail(s)

Spec == Init /\ [][Next]_vars

(* The loops are interval timers: every pass runs again and again and each  *)
(* of its statements returns.  Nobody obliges a user to do anything.        *)
LoopFairness ==
    \A b \in Reapers :
        /\ SF_vars(ActivateScheduled(b))
        /\ SF_vars(RequeueStaleOffer(b))
        /\ SF_vars(ExpireStaleQuotes(b))
        /\ WF_vars(ReopenMatching(b) \/ Transition(b))

FairSpec == Spec /\ LoopFairness

-----------------------------------------------------------------------------
(* Properties *)

Steps == {"idle", "cas", "clear", "price", "release", "verify", "direct", "resend",
          "brief", "check", "insert", "find", "decide", "ask", "reopen"}

Vias == {"patch", "cancel", "complete", "confirm", "finalize", "companyReject", "offer",
         "accept", "decline", "reaper"}

Jobs ==
    [status : Status, fundi : People \cup {None}, tech : Members \cup {None},
     company : BOOLEAN, pool : BOOLEAN, dated : BOOLEAN, preferred : Fundis \cup {None},
     est : Amounts \cup {None}, confirmed : BOOLEAN, otp : BOOLEAN]

Tasks ==
    [pc : Steps, from : Status \cup {None}, to : Status \cup {None}, via : Vias \cup {None},
     quote : Quotes \cup {None}, amount : Amounts \cup {None}]

QuoteStatus == {"none", "sent", "viewed", "accepted", "declined", "expired", "cancelled"}

(* What a slot holds when its next statement is t.pc: an edge that was      *)
(* allowed when it was checked, a row of quotes that was found, a price.    *)
Prepared(t, rows) ==
    /\ t.pc = "cas" =>
          /\ t.from \in Status
          /\ t.to \in JobTransitions[t.from]
          /\ t.via \in Vias
          /\ t.via = "accept" => t.quote \in Quotes
          /\ t.via = "offer" => t.amount \in Amounts
          /\ t.via = "confirm" => t.to = "customer_confirmed_completion"
    /\ t.pc \in {"brief", "check", "insert", "price"} => t.amount \in Amounts
    /\ t.pc \in {"check", "insert", "find", "decide", "verify", "direct", "release"} =>
          t.from \in Status
    /\ t.pc \in {"find", "decide"} => t.via \in {"accept", "decline"}
    /\ t.pc \in {"decide", "ask"} => t.quote \in Quotes /\ rows[t.quote].status # "none"

(* The rows have the shape the code gives them, no slot reaches a statement *)
(* without what the statement needs, and a price that was once known is not *)
(* lost: only a booking made without one has none.                          *)
TypeOK ==
    /\ job \in Jobs
    /\ quotes \in [Quotes -> [status : QuoteStatus, amount : Amounts \cup {None}]]
    /\ \A q \in Quotes : quotes[q].status # "none" => quotes[q].amount \in Amounts
    /\ task \in [Slots -> Tasks]
    /\ \A s \in Slots : Prepared(task[s], quotes)
    /\ booked \subseteq Quotes
    /\ approved \subseteq Amounts \cup {None}
    /\ job.est = None => None \in approved

(* At most one quote of a booking is live, whatever the order in which      *)
(* quotes are sent, questions asked, decisions taken and quotes expired     *)
(* (createQuote checks and then inserts; addQuoteQuestion reads and then    *)
(* writes by id).                                                           *)
OneLiveQuote == \A p, q \in LiveQuotes : p = q

(* transitionJob reads the row, checks the edge and writes later: the       *)
(* status nevertheless only ever moves along JOB_TRANSITIONS, except for    *)
(* the two edges that assignTechnician and unassignTechnician add with      *)
(* UPDATEs of their own.                                                    *)
StatusStep ==
    job'.status # job.status =>
        \/ job'.status \in JobTransitions[job.status]
        \/ <<job.status, job'.status>> \in {<<"offered", "assigned">>, <<"on_the_way", "accepted">>}

StatusFollowsEdges == [][StatusStep]_vars

(* A write decided on an old row must not undo what happened meanwhile:     *)
(* the columns of a settled booking that say who did the work and whether   *)
(* the customer confirmed it never change again, and a booking already on   *)
(* site keeps its professional until it is over (BookingPromise).           *)
Stage(status) ==
    CASE status \in {"pending", "matching", "quote_requested", "offered", "scheduled"} -> "open"
      [] status \in {"accepted", "booking_confirmed", "assigned", "on_the_way", "arrived"} -> "booked"
      [] status \in Absorbing -> "over"
      [] OTHER -> "work"

Promise == INSTANCE BookingPromise WITH
    stage <- Stage(job.status), provider <- job.fundi, confirmed <- job.confirmed

KeepsPromise == Promise!Spec

(* checkActor: once the provider has asked for completion, only the         *)
(* customer or an administrator moves the booking on.  Checked with nobody  *)
(* but providers making requests.                                           *)
AwaitsCustomer == [][job.status = "completion_requested" => job'.status = job.status]_vars

(* The provider side alone never reaches an outcome that is the customer's  *)
(* to give: a confirmed completion, a dispute, a refund or a closed booking.*)
NoUnilateralOutcome ==
    /\ ~ job.confirmed
    /\ job.status \notin {"customer_confirmed_completion", "disputed", "refund_requested",
                          "closed", "failed", "refunded"}

(* jobController.js:793-795: "The customer verifies the work with the OTP;  *)
(* only then does payment finalize and the job complete.  A provider can    *)
(* never self-complete."                                                    *)
NoSelfComplete == job.status = "completed" => job.confirmed

(* jobController.js:590-593: "if the fundi's quote differs materially from  *)
(* the customer's request, park the job in the quote phase until the        *)
(* customer approves the revised price": a customer who named a price gets  *)
(* no work at another one.                                                  *)
WorkAtApprovedPrice ==
    job.status = "in_progress" /\ None \notin approved => job.est \in approved

(* quoteService.js:175-177: "Accept: quote -> accepted, job ->              *)
(* booking_confirmed."  With no request in progress, an accepted quote is   *)
(* one that confirmed the booking.                                          *)
DecisionAndJobAgree ==
    (\A s \in Slots : At(s, "idle")) =>
        \A q \in Quotes : quotes[q].status = "accepted" => q \in booked

(* An offer does not hang: the five-minute reaper, the quote sweep, a       *)
(* decision or a cancellation ends it.                                      *)
OfferLapses == job.status = "offered" ~> job.status # "offered"

(* A live quote is decided or expires even if nobody looks at it again.     *)
QuoteLapses == \A q \in Quotes : q \in LiveQuotes ~> q \notin LiveQuotes

(* A dated booking leaves the scheduled status once its time has come.      *)
DatedJobActivates == (job.status = "scheduled" /\ job.dated) ~> job.status # "scheduled"
=============================================================================
