---------------------------- MODULE BookingProofs ----------------------------
(***************************************************************************)
(* Theorems about module Booking, for every number of requests, reapers,   *)
(* quotes, prices and people.                                              *)
(***************************************************************************)
EXTENDS Booking, TLAPS

(* Facts about the table of edges *)

LEMMA EdgesStayInStatus == \A s \in Status : JobTransitions[s] \subseteq Status
  BY DEF JobTransitions, Status

LEMMA AbsorbingIsFinal == \A s \in Absorbing : JobTransitions[s] = {}
  BY DEF JobTransitions, Status, Absorbing

LEMMA AllowedIsEdge ==
  ASSUME NEW from, NEW to, TransitionAllowed(from, to)
  PROVE  to \in JobTransitions[from]
  BY DEF TransitionAllowed

-----------------------------------------------------------------------------
(* Facts about the slots *)

LEMMA IdleIsPrepared == Idle \in Tasks /\ \A rows : Prepared(Idle, rows)
  BY DEF Idle, Tasks, Steps, Prepared

(* The part of TypeOK that the steps of a request share: when the rows are  *)
(* well formed and quotes are not deleted, only the new task of the slot    *)
(* that moves needs to be looked at.                                        *)
RowsOK ==
    /\ job \in Jobs
    /\ quotes \in [Quotes -> [status : QuoteStatus, amount : Amounts \cup {None}]]
    /\ \A q \in Quotes : quotes[q].status # "none" => quotes[q].amount \in Amounts
    /\ booked \subseteq Quotes
    /\ approved \subseteq Amounts \cup {None}
    /\ job.est = None => None \in approved

KeepsQuotes == \A q \in Quotes : quotes[q].status # "none" => quotes'[q].status # "none"

LEMMA BecomeKeepsType ==
  ASSUME TypeOK, RowsOK', KeepsQuotes, NEW s \in Slots, NEW t \in Tasks,
         Become(s, t), Prepared(t, quotes')
  PROVE  TypeOK'
<1>1. /\ task' \in [Slots -> Tasks]
      /\ task'[s] = t
      /\ \A r \in Slots : r # s => task'[r] = task[r]
  BY DEF TypeOK, Become
<1>2. \A r \in Slots : r # s => Prepared(task'[r], quotes')
  <2> SUFFICES ASSUME NEW r \in Slots, r # s
               PROVE  Prepared(task[r], quotes')
    BY <1>1
  <2>1. Prepared(task[r], quotes)
    BY DEF TypeOK
  <2> QED BY <2>1 DEF Prepared, KeepsQuotes
<1> QED BY <1>1, <1>2 DEF TypeOK, RowsOK

LEMMA FinishKeepsType ==
  ASSUME TypeOK, RowsOK', KeepsQuotes, NEW s \in Slots, Finish(s)
  PROVE  TypeOK'
  BY BecomeKeepsType, IdleIsPrepared DEF Finish

(* Asking for an allowed edge leaves the rows alone and a prepared task. *)
LEMMA AskKeepsType ==
  ASSUME TypeOK, NEW s \in Slots, NEW from \in Status, NEW to, NEW via \in Vias,
         via \notin {"accept", "offer"},
         via = "confirm" => to = "customer_confirmed_completion",
         Ask(s, from, to, via)
  PROVE  TypeOK'
<1> DEFINE t == [Idle EXCEPT !.pc = "cas", !.from = from, !.to = to, !.via = via]
<1>1. to \in JobTransitions[from] /\ to \in Status
  BY AllowedIsEdge, EdgesStayInStatus DEF Ask
<1>2. t \in Tasks /\ Prepared(t, quotes')
  BY <1>1 DEF Idle, Tasks, Steps, Prepared
<1>3. RowsOK' /\ KeepsQuotes
  BY DEF Ask, TypeOK, RowsOK, KeepsQuotes
<1> QED BY <1>2, <1>3, BecomeKeepsType DEF Ask

-----------------------------------------------------------------------------
(* Type correctness *)

LEMMA InitTypeOK == Init => TypeOK
<1> SUFFICES ASSUME Init PROVE TypeOK
  OBVIOUS
<1>1. job \in Jobs
  <2>1. ASSUME NEW company \in BOOLEAN, NEW pool \in BOOLEAN, NEW dated \in BOOLEAN,
               NEW preferred \in Fundis \cup {None}, NEW price \in Amounts \cup {None}
        PROVE  NewJob(company, pool, dated, preferred, price) \in Jobs
    BY DEF NewJob, Jobs, Status
  <2> QED BY <2>1, SlotsAssumption DEF Init
<1>2. \A s \in Slots : task[s] \in Tasks /\ Prepared(task[s], quotes)
  BY IdleIsPrepared DEF Init
<1> QED BY <1>1, <1>2 DEF Init, TypeOK, QuoteStatus, Jobs

(* A statement that writes only the booking's row, or only quotes. *)
LEMMA RowWriteKeepsType ==
  ASSUME TypeOK, RowsOK', KeepsQuotes, UNCHANGED task
  PROVE  TypeOK'
<1>1. \A s \in Slots : Prepared(task[s], quotes')
  <2> SUFFICES ASSUME NEW s \in Slots PROVE Prepared(task[s], quotes')
    OBVIOUS
  <2>1. Prepared(task[s], quotes)
    BY DEF TypeOK
  <2> QED BY <2>1 DEF Prepared, KeepsQuotes
<1> QED BY <1>1 DEF TypeOK, RowsOK

(* The columns transitionJob may write, one after the other. *)
LEMMA JobWritten ==
  ASSUME NEW j \in Jobs, NEW status \in Status, NEW c \in BOOLEAN, NEW o \in BOOLEAN,
         NEW d \in BOOLEAN
  PROVE  [j EXCEPT !.status = status, !.company = c, !.otp = o, !.confirmed = d] \in Jobs
<1>1. [j EXCEPT !.status = status] \in Jobs
  BY DEF Jobs
<1>2. \A r \in Jobs : [r EXCEPT !.company = c] \in Jobs
  BY DEF Jobs
<1>3. \A r \in Jobs : [r EXCEPT !.otp = o] \in Jobs
  BY DEF Jobs
<1>4. \A r \in Jobs : [r EXCEPT !.confirmed = d] \in Jobs
  BY DEF Jobs
<1> QED BY <1>1, <1>2, <1>3, <1>4

LEMMA TransitionKeepsType ==
  ASSUME TypeOK, NEW s \in Slots, Transition(s)
  PROVE  TypeOK'
<1> DEFINE t == task[s]
<1>1. /\ t \in Tasks /\ t.from \in Status /\ t.to \in Status
      /\ t.via = "accept" => t.quote \in Quotes
      /\ t.via = "offer" => t.amount \in Amounts
  BY EdgesStayInStatus DEF Transition, At, TypeOK, Prepared
<1>2. KeepsQuotes
  BY DEF Transition, KeepsQuotes
<1>3. CASE job.status = t.from
  <2>1. Moved(t) \in Jobs
    <3>1. /\ (job.company /\ t.via # "companyReject") \in BOOLEAN
          /\ (IF t.via = "complete" THEN TRUE ELSE job.otp /\ t.via # "confirm") \in BOOLEAN
          /\ (job.confirmed \/ t.via = "confirm") \in BOOLEAN
      OBVIOUS
    <3>2. job \in Jobs
      BY DEF TypeOK
    <3> HIDE DEF t
    <3>3. \A c, o, d \in BOOLEAN :
             [job EXCEPT !.status = t.to, !.company = c, !.otp = o, !.confirmed = d] \in Jobs
      BY <1>1, <3>2, JobWritten
    <3> QED BY <3>1, <3>3 DEF Moved
  <2>0. Moved(t).est = job.est
    <3>1. job \in Jobs
      BY DEF TypeOK
    <3> HIDE DEF t
    <3> QED BY <3>1 DEF Moved, Jobs
  <2>2. RowsOK'
    BY <1>1, <1>3, <2>0, <2>1 DEF Transition, TypeOK, RowsOK
  <2>3. AfterTransition(t) \in Tasks /\ Prepared(AfterTransition(t), quotes')
    BY <1>1 DEF AfterTransition, Idle, Tasks, Steps, Prepared
  <2> QED BY <1>2, <1>3, <2>2, <2>3, BecomeKeepsType DEF Transition
<1>4. CASE job.status # t.from
  BY <1>2, <1>4, FinishKeepsType DEF Transition, TypeOK, RowsOK
<1> QED BY <1>3, <1>4

LEMMA CustomerActKeepsType ==
  ASSUME TypeOK, NEW s \in Slots, CustomerAct(s)
  PROVE  TypeOK'
<1> USE DEF At
<1>0. job.status \in Status /\ task[s] \in Tasks /\ Prepared(task[s], quotes)
  BY DEF TypeOK, Jobs
<1>1. CASE CancelJob(s)
  BY <1>0, <1>1, AskKeepsType DEF CancelJob, Vias
<1>2. CASE CancelLiveQuotes(s)
  <2>1. RowsOK' /\ KeepsQuotes
    BY <1>2 DEF CancelLiveQuotes, LiveQuotes, Live, TypeOK, RowsOK, KeepsQuotes, QuoteStatus
  <2> QED BY <1>2, <2>1, FinishKeepsType DEF CancelLiveQuotes
<1>3. CASE ResendCompletionCode(s)
  <2>1. RowsOK' /\ KeepsQuotes
    BY <1>3 DEF ResendCompletionCode, TypeOK, RowsOK, KeepsQuotes
  <2>2. LET t == [Idle EXCEPT !.pc = "resend"] IN t \in Tasks /\ Prepared(t, quotes')
    BY DEF Idle, Tasks, Steps, Prepared
  <2> QED BY <1>3, <2>1, <2>2, BecomeKeepsType DEF ResendCompletionCode
<1>4. CASE WriteCompletionCode(s)
  <2>1. RowsOK' /\ KeepsQuotes
    BY <1>4 DEF WriteCompletionCode, TypeOK, RowsOK, KeepsQuotes, Jobs
  <2> QED BY <1>4, <2>1, FinishKeepsType DEF WriteCompletionCode
<1>5. CASE ConfirmCompletion(s)
  <2>1. RowsOK' /\ KeepsQuotes
    BY <1>5 DEF ConfirmCompletion, TypeOK, RowsOK, KeepsQuotes
  <2>2. LET t == [Idle EXCEPT !.pc = "verify", !.from = job.status]
        IN  t \in Tasks /\ Prepared(t, quotes')
    BY <1>0 DEF Idle, Tasks, Steps, Prepared
  <2> QED BY <1>5, <2>1, <2>2, BecomeKeepsType DEF ConfirmCompletion
<1>6. CASE VerifyCompletionCode(s)
  <2>1. task[s].from \in Status
    BY <1>0, <1>6 DEF VerifyCompletionCode, Prepared
  <2>2. CASE Ask(s, task[s].from, "customer_confirmed_completion", "confirm")
    BY <2>1, <2>2, AskKeepsType DEF Vias
  <2>3. CASE UNCHANGED <<job, quotes, booked, approved>>
    <3>1. RowsOK' /\ KeepsQuotes
      BY <2>3 DEF TypeOK, RowsOK, KeepsQuotes
    <3>2. LET t == [Idle EXCEPT !.pc = "direct", !.from = task[s].from]
          IN  t \in Tasks /\ Prepared(t, quotes')
      BY <2>1 DEF Idle, Tasks, Steps, Prepared
    <3>3. CASE Become(s, [Idle EXCEPT !.pc = "direct", !.from = task[s].from])
      BY <3>1, <3>2, <3>3, BecomeKeepsType
    <3>4. CASE Finish(s)
      BY <3>1, <3>4, FinishKeepsType
    <3>5. CASE Ask(s, task[s].from, "customer_confirmed_completion", "confirm")
      BY <2>2, <3>5
    <3> QED BY <1>6, <3>3, <3>4, <3>5 DEF VerifyCompletionCode
  <2> QED BY <1>6, <2>2, <2>3 DEF VerifyCompletionCode
<1>7. CASE ConfirmDirectly(s)
  <2>1. RowsOK' /\ KeepsQuotes
    BY <1>7 DEF ConfirmDirectly, TypeOK, RowsOK, KeepsQuotes, Jobs
  <2>2. LET t == [task[s] EXCEPT !.pc = "release"] IN t \in Tasks /\ Prepared(t, quotes')
    BY <1>0, <1>7 DEF ConfirmDirectly, Tasks, Steps, Prepared
  <2> QED BY <1>7, <2>1, <2>2, BecomeKeepsType, FinishKeepsType DEF ConfirmDirectly
<1>8. CASE ReleaseAndFinalize(s)
  <2>1. task[s].from \in Status
    BY <1>0, <1>8 DEF ReleaseAndFinalize, Prepared
  <2>2. CASE Ask(s, task[s].from, "completed", "finalize")
    BY <2>1, <2>2, AskKeepsType DEF Vias
  <2>3. CASE Finish(s) /\ UNCHANGED <<job, quotes, booked, approved>>
    BY <2>3, FinishKeepsType DEF TypeOK, RowsOK, KeepsQuotes
  <2> QED BY <1>8, <2>2, <2>3 DEF ReleaseAndFinalize
<1>9. CASE ExpireOnRead(s)
  <2>1. RowsOK' /\ KeepsQuotes
    BY <1>9 DEF ExpireOnRead, LiveQuotes, Live, TypeOK, RowsOK, KeepsQuotes, QuoteStatus
  <2> QED BY <1>9, <2>1, RowWriteKeepsType DEF ExpireOnRead
<1>10. CASE MarkQuoteViewed(s)
  <2>1. RowsOK' /\ KeepsQuotes
    BY <1>10 DEF MarkQuoteViewed, TypeOK, RowsOK, KeepsQuotes, QuoteStatus
  <2> QED BY <1>10, <2>1, RowWriteKeepsType DEF MarkQuoteViewed
<1>11. CASE DecideQuote(s)
  <2>1. RowsOK' /\ KeepsQuotes
    BY <1>11 DEF DecideQuote, TypeOK, RowsOK, KeepsQuotes
  <2>2. PICK d \in {"accept", "decline"} :
           Become(s, [Idle EXCEPT !.pc = "find", !.from = job.status, !.via = d])
    BY <1>11 DEF DecideQuote
  <2>3. LET t == [Idle EXCEPT !.pc = "find", !.from = job.status, !.via = d]
        IN  t \in Tasks /\ Prepared(t, quotes')
    BY <1>0 DEF Idle, Tasks, Steps, Vias, Prepared
  <2> QED BY <2>1, <2>2, <2>3, BecomeKeepsType
<1>12. CASE FindLiveQuote(s)
  <2>1. RowsOK' /\ KeepsQuotes
    BY <1>12 DEF FindLiveQuote, LiveQuotes, Live, TypeOK, RowsOK, KeepsQuotes, QuoteStatus
  <2>2. CASE Finish(s)
    BY <2>1, <2>2, FinishKeepsType
  <2>3. ASSUME NEW q \in LiveQuotes, Become(s, [task[s] EXCEPT !.pc = "decide", !.quote = q]),
               UNCHANGED quotes
        PROVE  TypeOK'
    <3>1. LET t == [task[s] EXCEPT !.pc = "decide", !.quote = q]
          IN  t \in Tasks /\ Prepared(t, quotes')
      BY <1>0, <1>12, <2>3 DEF FindLiveQuote, LiveQuotes, Live, Tasks, Steps, Prepared
    <3> QED BY <2>1, <2>3, <3>1, BecomeKeepsType
  <2> QED BY <1>12, <2>2, <2>3 DEF FindLiveQuote
<1>13. CASE WriteDecision(s)
  <2>1. /\ task[s].quote \in Quotes
        /\ quotes[task[s].quote].amount \in Amounts
        /\ task[s].from \in Status
        /\ task[s].via \in {"accept", "decline"}
    BY <1>0, <1>13 DEF WriteDecision, TypeOK, Prepared
  <2>2. RowsOK' /\ KeepsQuotes
    BY <1>13, <2>1 DEF WriteDecision, TypeOK, RowsOK, KeepsQuotes, QuoteStatus
  <2>3. ASSUME NEW to, TransitionAllowed(task[s].from, to)
        PROVE  LET t == [task[s] EXCEPT !.pc = "cas", !.to = to]
               IN  t \in Tasks /\ Prepared(t, quotes')
    <3>1. to \in JobTransitions[task[s].from] /\ to \in Status
      BY <2>1, <2>3, AllowedIsEdge, EdgesStayInStatus
    <3> QED BY <1>0, <2>1, <3>1 DEF Tasks, Steps, Vias, Prepared
  <2> QED BY <1>13, <2>2, <2>3, BecomeKeepsType, IdleIsPrepared DEF WriteDecision
<1>14. CASE AskQuestion(s)
  <2>1. RowsOK' /\ KeepsQuotes
    BY <1>14 DEF AskQuestion, TypeOK, RowsOK, KeepsQuotes
  <2>2. PICK q \in LiveQuotes : Become(s, [Idle EXCEPT !.pc = "ask", !.quote = q])
    BY <1>14 DEF AskQuestion
  <2>3. LET t == [Idle EXCEPT !.pc = "ask", !.quote = q] IN t \in Tasks /\ Prepared(t, quotes')
    BY <1>14 DEF AskQuestion, LiveQuotes, Live, Idle, Tasks, Steps, Prepared
  <2> QED BY <2>1, <2>2, <2>3, BecomeKeepsType
<1>15. CASE WriteQuestion(s)
  <2>1. task[s].quote \in Quotes /\ quotes[task[s].quote].status # "none"
    BY <1>0, <1>15 DEF WriteQuestion, Prepared
  <2>2. RowsOK' /\ KeepsQuotes
    BY <1>15, <2>1 DEF WriteQuestion, TypeOK, RowsOK, KeepsQuotes, QuoteStatus
  <2> QED BY <1>15, <2>2, FinishKeepsType DEF WriteQuestion
<1> QED BY <1>1, <1>2, <1>3, <1>4, <1>5, <1>6, <1>7, <1>8, <1>9, <1>10, <1>11, <1>12,
           <1>13, <1>14, <1>15 DEF CustomerAct

LEMMA ProviderActKeepsType ==
  ASSUME TypeOK, NEW s \in Slots, ProviderAct(s)
  PROVE  TypeOK'
<1> USE DEF At
<1>0. job \in Jobs /\ job.status \in Status /\ task[s] \in Tasks /\ Prepared(task[s], quotes)
  BY DEF TypeOK, Jobs
<1>1. CASE AcceptJob(s)
  <2>0. PICK who \in Callers \cap (Fundis \cup {Admin}), price \in Amounts \cup {job.est} :
           job' = [job EXCEPT !.status = "accepted", !.fundi = who, !.est = price]
    BY <1>1 DEF AcceptJob
  <2>a. job'.est = price /\ (price = None => job.est = None)
    BY <1>0, <2>0, SlotsAssumption DEF Jobs
  <2>b. job' \in Jobs
    BY <1>0, <2>0, PeopleAssumption, SlotsAssumption DEF Jobs, People, Status
  <2>1. RowsOK' /\ KeepsQuotes
    BY <1>1, <2>a, <2>b
    DEF AcceptJob, TypeOK, RowsOK, KeepsQuotes
  <2> QED BY <1>1, <2>1, RowWriteKeepsType DEF AcceptJob
<1>2. CASE CheckIn(s)
  BY <1>0, <1>2, AskKeepsType DEF CheckIn, Vias
<1>3. CASE CompleteJob(s)
  BY <1>0, <1>3, AskKeepsType DEF CompleteJob, Vias
<1>4. CASE ClaimPoolJob(s)
  <2>1. RowsOK' /\ KeepsQuotes
    BY <1>4 DEF ClaimPoolJob, TypeOK, RowsOK, KeepsQuotes, Jobs
  <2> QED BY <1>4, <2>1, RowWriteKeepsType DEF ClaimPoolJob
<1>5. CASE AcceptCompanyJob(s)
  BY <1>0, <1>5, AskKeepsType DEF AcceptCompanyJob, Vias
<1>6. CASE RejectCompanyJob(s)
  BY <1>0, <1>6, AskKeepsType DEF RejectCompanyJob, Vias
<1>7. CASE AssignTechnician(s)
  <2>1. RowsOK' /\ KeepsQuotes
    BY <1>0, <1>7 DEF AssignTechnician, TypeOK, RowsOK, KeepsQuotes, Jobs, People, Status
  <2> QED BY <1>7, <2>1, RowWriteKeepsType DEF AssignTechnician
<1>8. CASE UnassignTechnician(s)
  <2>1. RowsOK' /\ KeepsQuotes
    BY <1>0, <1>8 DEF UnassignTechnician, TypeOK, RowsOK, KeepsQuotes, Jobs, Status
  <2> QED BY <1>8, <2>1, RowWriteKeepsType DEF UnassignTechnician
<1>9. CASE QuoteCompanyJob(s)
  <2>1. RowsOK' /\ KeepsQuotes
    BY <1>9 DEF QuoteCompanyJob, TypeOK, RowsOK, KeepsQuotes
  <2>2. PICK a \in Amounts : Become(s, [Idle EXCEPT !.pc = "brief", !.amount = a])
    BY <1>9 DEF QuoteCompanyJob
  <2>3. LET t == [Idle EXCEPT !.pc = "brief", !.amount = a] IN t \in Tasks /\ Prepared(t, quotes')
    BY DEF Idle, Tasks, Steps, Prepared
  <2> QED BY <2>1, <2>2, <2>3, BecomeKeepsType
<1>10. CASE ReadJobToQuote(s)
  <2>1. RowsOK' /\ KeepsQuotes
    BY <1>10 DEF ReadJobToQuote, TypeOK, RowsOK, KeepsQuotes
  <2>2. LET t == [task[s] EXCEPT !.pc = "check", !.from = job.status]
        IN  t \in Tasks /\ Prepared(t, quotes')
    BY <1>0, <1>10 DEF ReadJobToQuote, Tasks, Steps, Prepared
  <2> QED BY <1>10, <2>1, <2>2, BecomeKeepsType, FinishKeepsType DEF ReadJobToQuote
<1>11. CASE CheckNoLiveQuote(s)
  <2>1. RowsOK' /\ KeepsQuotes
    BY <1>11 DEF CheckNoLiveQuote, TypeOK, RowsOK, KeepsQuotes
  <2>2. LET t == [task[s] EXCEPT !.pc = "insert"] IN t \in Tasks /\ Prepared(t, quotes')
    BY <1>0, <1>11 DEF CheckNoLiveQuote, Tasks, Steps, Prepared
  <2> QED BY <1>11, <2>1, <2>2, BecomeKeepsType, FinishKeepsType DEF CheckNoLiveQuote
<1>12. CASE InsertQuote(s)
  <2>1. task[s].amount \in Amounts /\ task[s].from \in Status
    BY <1>0, <1>12 DEF InsertQuote, Prepared
  <2>2. RowsOK' /\ KeepsQuotes
    <3>1. UNCHANGED <<job, booked, approved>>
      BY <1>12 DEF InsertQuote
    <3>2. CASE UNCHANGED quotes
      BY <3>1, <3>2 DEF TypeOK, RowsOK, KeepsQuotes
    <3>3. ASSUME NEW q \in Quotes,
                 quotes' = [quotes EXCEPT ![q] = [status |-> "sent", amount |-> task[s].amount]]
          PROVE  RowsOK' /\ KeepsQuotes
      BY <2>1, <3>1, <3>3 DEF TypeOK, RowsOK, KeepsQuotes, QuoteStatus
    <3> QED BY <1>12, <3>2, <3>3 DEF InsertQuote
  <2>3. CASE Finish(s)
    BY <2>2, <2>3, FinishKeepsType
  <2>4. ASSUME NEW q \in Quotes
        PROVE  LET t == [task[s] EXCEPT !.pc = "price", !.quote = q]
               IN  t \in Tasks /\ Prepared(t, quotes')
    BY <1>0, <2>1 DEF Tasks, Steps, Prepared
  <2>5. ASSUME NEW q \in Quotes, TransitionAllowed(task[s].from, "offered")
        PROVE  LET t == [task[s] EXCEPT !.pc = "cas", !.to = "offered", !.via = "offer",
                                        !.quote = q]
               IN  t \in Tasks /\ Prepared(t, quotes')
    <3>1. "offered" \in JobTransitions[task[s].from] /\ "offered" \in Status
      BY <2>5, AllowedIsEdge DEF Status
    <3> QED BY <1>0, <2>1, <3>1 DEF Tasks, Steps, Vias, Prepared
  <2> QED BY <1>12, <2>2, <2>3, <2>4, <2>5, BecomeKeepsType, IdleIsPrepared DEF InsertQuote
<1>13. CASE WriteEstimate(s)
  <2>1. task[s].amount \in Amounts
    BY <1>0, <1>13 DEF WriteEstimate, Prepared
  <2>2. RowsOK' /\ KeepsQuotes
    BY <1>0, <1>13, <2>1, SlotsAssumption DEF WriteEstimate, TypeOK, RowsOK, KeepsQuotes, Jobs
  <2> QED BY <1>13, <2>2, FinishKeepsType DEF WriteEstimate
<1> QED BY <1>1, <1>2, <1>3, <1>4, <1>5, <1>6, <1>7, <1>8, <1>9, <1>10, <1>11, <1>12,
           <1>13 DEF ProviderAct

LEMMA ReaperActKeepsType ==
  ASSUME TypeOK, NEW b \in Slots, ReaperAct(b)
  PROVE  TypeOK'
<1> USE DEF At
<1>0. job.status \in Status
  BY DEF TypeOK, Jobs
<1>1. CASE ActivateScheduled(b)
  BY <1>0, <1>1, AskKeepsType DEF ActivateScheduled, Vias
<1>2. CASE RequeueStaleOffer(b)
  BY <1>0, <1>2, AskKeepsType DEF RequeueStaleOffer, Vias
<1>3. CASE ExpireUnmatched(b)
  BY <1>0, <1>3, AskKeepsType DEF ExpireUnmatched, Vias
<1>4. CASE ExpireStaleQuotes(b)
  <2>1. RowsOK' /\ KeepsQuotes
    BY <1>4 DEF ExpireStaleQuotes, LiveQuotes, Live, TypeOK, RowsOK, KeepsQuotes, QuoteStatus
  <2>2. LET t == [Idle EXCEPT !.pc = "reopen"] IN t \in Tasks /\ Prepared(t, quotes')
    BY DEF Idle, Tasks, Steps, Prepared
  <2> QED BY <1>4, <2>1, <2>2, BecomeKeepsType DEF ExpireStaleQuotes
<1>5. CASE ReopenMatching(b)
  <2>1. CASE Ask(b, "offered", "matching", "reaper")
    BY <2>1, AskKeepsType DEF Vias, Status
  <2>2. CASE Finish(b) /\ UNCHANGED <<job, quotes, booked, approved>>
    BY <2>2, FinishKeepsType DEF TypeOK, RowsOK, KeepsQuotes
  <2> QED BY <1>5, <2>1, <2>2 DEF ReopenMatching
<1> QED BY <1>1, <1>2, <1>3, <1>4, <1>5 DEF ReaperAct

LEMMA NextKeepsType == TypeOK /\ [Next]_vars => TypeOK'
<1> SUFFICES ASSUME TypeOK, [Next]_vars PROVE TypeOK'
  OBVIOUS
<1>1. ASSUME NEW s \in Requests, PatchJob(s) PROVE TypeOK'
  BY <1>1, AskKeepsType DEF PatchJob, TypeOK, Jobs, Slots, Vias
<1>2. ASSUME NEW s \in Requests, CustomerAct(s) PROVE TypeOK'
  BY <1>2, CustomerActKeepsType DEF Slots
<1>3. ASSUME NEW s \in Requests, ProviderAct(s) PROVE TypeOK'
  BY <1>3, ProviderActKeepsType DEF Slots
<1>4. ASSUME NEW b \in Reapers, ReaperAct(b) PROVE TypeOK'
  BY <1>4, ReaperActKeepsType DEF Slots
<1>5. ASSUME NEW s \in Slots, Transition(s) PROVE TypeOK'
  BY <1>5, TransitionKeepsType
<1>6. ASSUME NEW s \in Slots, Fail(s) PROVE TypeOK'
  BY <1>6, FinishKeepsType DEF Fail, TypeOK, RowsOK, KeepsQuotes
<1>7. CASE UNCHANGED vars
  BY <1>7, RowWriteKeepsType DEF vars, TypeOK, RowsOK, KeepsQuotes
<1> QED BY <1>1, <1>2, <1>3, <1>4, <1>5, <1>6, <1>7 DEF Next

(* In every reachable state the rows have the shape the code gives them,    *)
(* and every write in progress holds an edge, a quote or a price that was   *)
(* valid when it was read.                                                  *)
THEOREM TypeCorrect == Spec => []TypeOK
<1>1. Init => TypeOK
  BY InitTypeOK
<1>2. TypeOK /\ [Next]_vars => TypeOK'
  BY NextKeepsType
<1> QED BY <1>1, <1>2, PTL DEF Spec

-----------------------------------------------------------------------------
(* One live quote.  No step leaves a live quote next to another: either no  *)
(* quote becomes live, or the one that does is the only one.                *)

LiveStep == LiveQuotes' \subseteq LiveQuotes \/ \E q \in Quotes : LiveQuotes' \subseteq {q}

LEMMA NextLiveStep == TypeOK /\ [Next]_vars => LiveStep
<1> SUFFICES ASSUME TypeOK, [Next]_vars PROVE LiveStep
  OBVIOUS
<1> USE DEF LiveQuotes, Live
<1>0. CASE UNCHANGED quotes
  BY <1>0 DEF LiveStep
<1>1. ASSUME NEW s \in Slots, CancelLiveQuotes(s) PROVE LiveStep
  BY <1>1 DEF CancelLiveQuotes, LiveStep, TypeOK
<1>2. ASSUME NEW s \in Slots, NEW q \in Quotes, quotes' = [quotes EXCEPT ![q].status = "expired"]
      PROVE  LiveStep
  BY <1>2 DEF LiveStep, TypeOK
<1>3. ASSUME NEW s \in Slots, MarkQuoteViewed(s) PROVE LiveStep
  BY <1>3 DEF MarkQuoteViewed, LiveStep, TypeOK
<1>4. ASSUME NEW s \in Slots, WriteDecision(s) PROVE LiveStep
  BY <1>4 DEF WriteDecision, LiveStep, TypeOK
<1>5. ASSUME NEW s \in Slots, WriteQuestion(s) PROVE LiveStep
  <2>1. task[s].quote \in Quotes
    BY <1>5 DEF WriteQuestion, At, TypeOK, Prepared
  <2> QED BY <1>5, <2>1 DEF WriteQuestion, LiveStep, TypeOK
<1>6. ASSUME NEW s \in Slots, InsertQuote(s) PROVE LiveStep
  <2>1. CASE UNCHANGED quotes
    BY <2>1, <1>0
  <2>2. ASSUME NEW q \in Quotes, LiveQuotes = {},
               quotes' = [quotes EXCEPT ![q] = [status |-> "sent", amount |-> task[s].amount]]
        PROVE  LiveStep
    BY <2>2 DEF LiveStep, TypeOK
  <2> QED BY <1>6, <2>1, <2>2 DEF InsertQuote
<1>7. ASSUME NEW s \in Slots, CustomerAct(s) PROVE LiveStep
  <2>1. CASE ExpireOnRead(s)
    BY <1>2, <1>7, <2>1 DEF ExpireOnRead
  <2>2. CASE FindLiveQuote(s)
    BY <1>0, <1>2, <1>7, <2>2 DEF FindLiveQuote
  <2>3. CASE UNCHANGED quotes
    BY <1>0, <2>3
  <2> QED BY <1>1, <1>3, <1>4, <1>5, <1>7, <2>1, <2>2, <2>3
          DEF CustomerAct, CancelJob, ResendCompletionCode, WriteCompletionCode,
              ConfirmCompletion, VerifyCompletionCode, ConfirmDirectly, ReleaseAndFinalize,
              DecideQuote, AskQuestion, Ask
<1>8. ASSUME NEW s \in Slots, ProviderAct(s) PROVE LiveStep
  BY <1>0, <1>6, <1>8 DEF ProviderAct, AcceptJob, CheckIn, CompleteJob, ClaimPoolJob,
     AcceptCompanyJob, RejectCompanyJob, AssignTechnician, UnassignTechnician,
     QuoteCompanyJob, ReadJobToQuote, CheckNoLiveQuote, WriteEstimate, Ask
<1>9. ASSUME NEW b \in Slots, ReaperAct(b) PROVE LiveStep
  BY <1>0, <1>2, <1>9 DEF ReaperAct, ActivateScheduled, RequeueStaleOffer, ExpireUnmatched,
     ExpireStaleQuotes, ReopenMatching, Ask
<1>10. ASSUME NEW s \in Slots, PatchJob(s) \/ Transition(s) \/ Fail(s) PROVE LiveStep
  BY <1>0, <1>10 DEF PatchJob, Ask, Transition, Fail
<1> QED BY <1>0, <1>7, <1>8, <1>9, <1>10 DEF Next, Slots, vars

(* A booking never has two live quotes, however many companies, questions,  *)
(* decisions and expiry passes work on it at once.                          *)
THEOREM QuotesAreExclusive == Spec => []OneLiveQuote
<1>1. Init => OneLiveQuote
  BY DEF Init, OneLiveQuote, LiveQuotes, Live
<1>2. TypeOK /\ OneLiveQuote /\ [Next]_vars => OneLiveQuote'
  BY NextLiveStep DEF LiveStep, OneLiveQuote
<1> QED BY <1>1, <1>2, TypeCorrect, PTL DEF Spec

-----------------------------------------------------------------------------
(* What a step may do to the booking's row.  Most statements leave the      *)
(* status, the professional and the confirmation alone; the others are the  *)
(* guarded write of transitionJob and four guarded UPDATEs.                 *)

SameCourse ==
    /\ job'.status = job.status
    /\ job'.fundi = job.fundi
    /\ job'.confirmed = job.confirmed

TransitionWrites(s) == job.status = task[s].from /\ At(s, "cas") /\ job' = Moved(task[s])

RowStep ==
    \/ SameCourse
    \/ \E s \in Slots : \/ TransitionWrites(s)
                        \/ AcceptJob(s) \/ AssignTechnician(s) \/ UnassignTechnician(s)
                        \/ ConfirmDirectly(s)

LEMMA NextRowStep == TypeOK /\ [Next]_vars => RowStep
<1> SUFFICES ASSUME TypeOK, [Next]_vars PROVE RowStep
  OBVIOUS
<1>0. CASE UNCHANGED job
  BY <1>0 DEF RowStep, SameCourse
<1>1. ASSUME NEW s \in Slots, WriteCompletionCode(s) \/ WriteEstimate(s) \/ ClaimPoolJob(s)
      PROVE  RowStep
  BY <1>1 DEF WriteCompletionCode, WriteEstimate, ClaimPoolJob, RowStep, SameCourse, TypeOK, Jobs
<1>2. ASSUME NEW s \in Slots, Transition(s) PROVE RowStep
  BY <1>0, <1>2 DEF Transition, RowStep, TransitionWrites
<1>3. ASSUME NEW s \in Slots, CustomerAct(s) PROVE RowStep
  BY <1>0, <1>1, <1>3
  DEF CustomerAct, CancelJob, CancelLiveQuotes, ResendCompletionCode, ConfirmCompletion,
      VerifyCompletionCode, ReleaseAndFinalize, ExpireOnRead, MarkQuoteViewed, DecideQuote,
      FindLiveQuote, WriteDecision, AskQuestion, WriteQuestion, Ask, RowStep
<1>4. ASSUME NEW s \in Slots, ProviderAct(s) PROVE RowStep
  BY <1>0, <1>1, <1>4
  DEF ProviderAct, CheckIn, CompleteJob, AcceptCompanyJob, RejectCompanyJob, QuoteCompanyJob,
      ReadJobToQuote, CheckNoLiveQuote, InsertQuote, Ask, RowStep
<1>5. ASSUME NEW s \in Slots, PatchJob(s) \/ ReaperAct(s) \/ Fail(s) PROVE RowStep
  BY <1>0, <1>5 DEF PatchJob, ReaperAct, ActivateScheduled, RequeueStaleOffer,
     ExpireUnmatched, ExpireStaleQuotes, ReopenMatching, Fail, Ask
<1> QED BY <1>0, <1>2, <1>3, <1>4, <1>5 DEF Next, Slots, vars

LEMMA NextStatusStep == TypeOK /\ [Next]_vars => [StatusStep]_vars
<1> SUFFICES ASSUME TypeOK, [Next]_vars PROVE StatusStep
  OBVIOUS
<1>1. CASE SameCourse
  BY <1>1 DEF SameCourse, StatusStep
<1>2. ASSUME NEW s \in Slots, TransitionWrites(s) PROVE StatusStep
  <2>1. task[s].to \in JobTransitions[task[s].from]
    BY <1>2 DEF TransitionWrites, At, TypeOK, Prepared
  <2>2. job'.status = task[s].to
    BY <1>2 DEF TransitionWrites, Moved, TypeOK, Jobs
  <2> QED BY <1>2, <2>1, <2>2 DEF TransitionWrites, StatusStep
<1>3. ASSUME NEW s \in Slots, AcceptJob(s) PROVE StatusStep
  <2>1. job'.status = "accepted" /\ job.status \in {"pending", "matching"}
    BY <1>3 DEF AcceptJob, TypeOK, Jobs
  <2> QED BY <2>1 DEF StatusStep, JobTransitions, Status
<1>4. ASSUME NEW s \in Slots, AssignTechnician(s) PROVE StatusStep
  <2>1. /\ job'.status = "assigned"
        /\ job.status \in {"accepted", "booking_confirmed", "offered", "scheduled",
                           "matching", "pending"}
    BY <1>4 DEF AssignTechnician, TypeOK, Jobs
  <2> QED BY <2>1 DEF StatusStep, JobTransitions, Status
<1>5. ASSUME NEW s \in Slots, UnassignTechnician(s) PROVE StatusStep
  <2>1. job'.status = "accepted" /\ job.status \in {"assigned", "on_the_way"}
    BY <1>5 DEF UnassignTechnician, TypeOK, Jobs
  <2> QED BY <2>1 DEF StatusStep, JobTransitions, Status
<1>6. ASSUME NEW s \in Slots, ConfirmDirectly(s) PROVE StatusStep
  BY <1>6 DEF ConfirmDirectly, StatusStep, TypeOK, Jobs
<1> QED BY <1>1, <1>2, <1>3, <1>4, <1>5, <1>6, NextRowStep DEF RowStep

(* The status of a booking moves along JOB_TRANSITIONS and the two edges of *)
(* technician dispatch, although every handler reads first and writes later.*)
THEOREM StatusMovesAlongEdges == Spec => StatusFollowsEdges
  BY TypeCorrect, NextStatusStep, PTL DEF Spec, StatusFollowsEdges

-----------------------------------------------------------------------------
(* Booking implements BookingPromise *)

LEMMA EdgesFollowStages ==
  ASSUME NEW s \in Status, NEW t \in JobTransitions[s]
  PROVE  /\ Stage(s) # "over"
         /\ Stage(s) = "open" => Stage(t) \in {"open", "booked", "over"}
         /\ Stage(s) = "work" => Stage(t) \in {"work", "over"}
<1> USE DEF Stage, Absorbing
<1>1. CASE s \in {"pending", "matching", "quote_requested", "offered", "scheduled"}
  BY <1>1 DEF JobTransitions, Status
<1>2. CASE s \in {"accepted", "booking_confirmed", "assigned", "on_the_way", "arrived"}
  BY <1>2
<1>3. CASE s \in Absorbing
  BY <1>3, AbsorbingIsFinal
<1>4. CASE s \in {"in_progress", "completion_requested", "customer_confirmed_completion"}
  BY <1>4 DEF JobTransitions, Status
<1>5. CASE s \in {"payment_pending", "payment_processing", "payment_confirmed"}
  BY <1>5 DEF JobTransitions, Status
<1>6. CASE s \in {"completed", "disputed", "refund_requested"}
  BY <1>6 DEF JobTransitions, Status
<1> QED BY <1>1, <1>2, <1>3, <1>4, <1>5, <1>6 DEF Status

LEMMA ConfirmationIsWork ==
  \A s \in Status : "customer_confirmed_completion" \in JobTransitions[s] => Stage(s) = "work"
  BY DEF JobTransitions, Status, Stage, Absorbing

LEMMA TransitionKeepsPromise ==
  ASSUME TypeOK, NEW s \in Slots, TransitionWrites(s)
  PROVE  [Promise!Next]_(Promise!vars)
<1> DEFINE t == task[s]
<1>1. /\ t.from \in Status /\ t.to \in JobTransitions[t.from]
      /\ t.via = "confirm" => t.to = "customer_confirmed_completion"
  BY DEF TransitionWrites, At, TypeOK, Prepared
<1>2. /\ job.status = t.from
      /\ job'.status = t.to
      /\ job'.fundi = job.fundi
      /\ job'.confirmed = (job.confirmed \/ t.via = "confirm")
  BY DEF TransitionWrites, Moved, TypeOK, Jobs
<1>3. job.fundi \in People \cup {None} /\ job.confirmed \in BOOLEAN
  BY DEF TypeOK, Jobs
<1>4. /\ Stage(t.from) \in {"open", "booked", "work"}
      /\ Stage(t.to) \in {"open", "booked", "work", "over"}
      /\ Stage(t.from) = "open" => Stage(t.to) \in {"open", "booked", "over"}
      /\ Stage(t.from) = "work" => Stage(t.to) \in {"work", "over"}
  <2>1. Stage(t.from) # "over"
    BY <1>1, EdgesFollowStages
  <2> QED BY <1>1, <2>1, EdgesFollowStages, EdgesStayInStatus DEF Stage
<1> HIDE DEF t
<1>5. CASE t.via = "confirm"
  <2>1. /\ Stage(t.from) = "work"
        /\ Stage(t.to) = "work"
    BY <1>1, <1>5, ConfirmationIsWork DEF Stage, Absorbing
  <2>2. job'.confirmed = TRUE
    BY <1>2, <1>5
  <2> QED BY <1>2, <2>1, <2>2 DEF Promise!Next, Promise!Confirm
<1>6. CASE t.via # "confirm"
  <2>1. job'.confirmed = job.confirmed
    BY <1>2, <1>3, <1>6
  <2> QED BY <1>2, <1>3, <1>4, <2>1
          DEF Promise!Next, Promise!Book, Promise!Release, Promise!StartWork, Promise!End,
              Promise!vars
<1> QED BY <1>5, <1>6

LEMMA DispatchKeepsPromise ==
  ASSUME TypeOK, NEW s \in Slots, AcceptJob(s) \/ AssignTechnician(s) \/ UnassignTechnician(s)
  PROVE  Promise!Book
<1>0. /\ job.status \in {"pending", "matching", "scheduled", "offered", "accepted",
                         "booking_confirmed", "assigned", "on_the_way"}
      /\ job'.status \in {"accepted", "assigned"}
      /\ job'.confirmed = job.confirmed
  BY DEF AcceptJob, AssignTechnician, UnassignTechnician, TypeOK, Jobs
<1>1. /\ Stage(job.status) \in {"open", "booked"}
      /\ Stage(job'.status) = "booked"
      /\ job'.confirmed = job.confirmed
  BY <1>0 DEF Stage, Absorbing
<1>2. job'.fundi \in People \cup {None}
  BY DEF AcceptJob, AssignTechnician, UnassignTechnician, TypeOK, Jobs, People
<1> QED BY <1>1, <1>2 DEF Promise!Book

LEMMA NextKeepsPromise == TypeOK /\ [Next]_vars => [Promise!Next]_(Promise!vars)
<1> SUFFICES ASSUME TypeOK, [Next]_vars PROVE [Promise!Next]_(Promise!vars)
  OBVIOUS
<1>1. CASE SameCourse
  BY <1>1 DEF SameCourse, Promise!vars
<1>2. ASSUME NEW s \in Slots, TransitionWrites(s) PROVE [Promise!Next]_(Promise!vars)
  BY <1>2, TransitionKeepsPromise
<1>3. ASSUME NEW s \in Slots, AcceptJob(s) \/ AssignTechnician(s) \/ UnassignTechnician(s)
      PROVE  [Promise!Next]_(Promise!vars)
  BY <1>3, DispatchKeepsPromise DEF Promise!Next
<1>4. ASSUME NEW s \in Slots, ConfirmDirectly(s) PROVE [Promise!Next]_(Promise!vars)
  <2>1. CASE UNCHANGED job
    BY <2>1 DEF Promise!vars
  <2>2. CASE job.status = "completed" /\ job' = [job EXCEPT !.confirmed = TRUE, !.otp = FALSE]
    <3>1. /\ Stage(job.status) = "work" /\ Stage(job'.status) = "work"
          /\ job'.fundi = job.fundi
          /\ job'.confirmed = TRUE
      BY <2>2 DEF TypeOK, Jobs, Stage, Absorbing
    <3> QED BY <3>1 DEF Promise!Next, Promise!Confirm
  <2> QED BY <1>4, <2>1, <2>2 DEF ConfirmDirectly
<1> QED BY <1>1, <1>2, <1>3, <1>4, NextRowStep DEF RowStep

(* A booking keeps the promise: work is never taken back to the market, the *)
(* professional on site is never replaced, a confirmation is never lost and *)
(* what is over stays over.                                                 *)
THEOREM BookingKeepsPromise == Spec => KeepsPromise
<1>1. Init => Promise!Init
  <2> SUFFICES ASSUME Init PROVE Promise!Init
    OBVIOUS
  <2>1. /\ job.status \in {"pending", "matching", "scheduled"}
        /\ job.fundi = None
        /\ job.confirmed = FALSE
    BY DEF Init, NewJob
  <2> QED BY <2>1 DEF Promise!Init, Stage, Absorbing
<1>2. TypeOK /\ [Next]_vars => [Promise!Next]_(Promise!vars)
  BY NextKeepsPromise
<1> QED BY <1>1, <1>2, TypeCorrect, PTL DEF Spec, KeepsPromise, Promise!Spec
-----------------------------------------------------------------------------
(* The provider side alone.  While only professionals and company members   *)
(* make requests, no request is ever in one of the customer's steps, and no *)
(* request holds a write away from a completion that was asked for.         *)

ProvidersAlone == Callers \subseteq Fundis \cup Members

(* where the provider side can bring a booking *)
ProviderReach ==
    {"pending", "matching", "quote_requested", "offered", "accepted", "booking_confirmed",
     "scheduled", "assigned", "on_the_way", "arrived", "in_progress", "completion_requested",
     "completed", "cancelled", "expired"}

NotTheCustomers(t) ==
    /\ t.pc \notin {"verify", "direct", "release", "find", "decide"}
    /\ t.pc = "cas" => /\ t.from # "completion_requested"
                      /\ t.to \in ProviderReach
                      /\ t.via # "confirm"

ProvidersInv ==
    /\ TypeOK
    /\ ~ job.confirmed
    /\ job.status \in ProviderReach
    /\ \A s \in Slots : NotTheCustomers(task[s])

LEMMA NotTheCustomersKept ==
  ASSUME ProvidersInv, NEW s \in Slots, NEW t, Become(s, t), NotTheCustomers(t)
  PROVE  \A r \in Slots : NotTheCustomers(task'[r])
  BY DEF ProvidersInv, TypeOK, Become

LEMMA IdleIsNotTheCustomers == NotTheCustomers(Idle)
  BY DEF NotTheCustomers, Idle

(* A write the provider side may prepare. *)
LEMMA ProviderAsk ==
  ASSUME ProvidersInv, NEW s \in Slots, NEW from \in Status, NEW to, NEW via,
         Ask(s, from, to, via), from # "completion_requested", to \in ProviderReach,
         via # "confirm", job' = job
  PROVE  \A r \in Slots : NotTheCustomers(task'[r])
<1> DEFINE t == [Idle EXCEPT !.pc = "cas", !.from = from, !.to = to, !.via = via]
<1>1. NotTheCustomers(t)
  BY DEF NotTheCustomers, Idle
<1> QED BY <1>1, NotTheCustomersKept DEF Ask

(* checkActor lets a provider ask for nothing that is the customer's to     *)
(* give, and for no change at all once completion was asked for.            *)
LEMMA PatchIsTheProviders ==
  ASSUME ProvidersAlone, job \in Jobs, job.status \in ProviderReach,
         NEW who \in Callers, NEW to, MayDrive(who, job, to), TransitionAllowed(job.status, to)
  PROVE  job.status # "completion_requested" /\ to \in ProviderReach
<1>1. who # Customer /\ who # Admin
  BY PeopleAssumption DEF ProvidersAlone
<1>2. to \in JobTransitions[job.status] /\ job.status \in Status
  BY AllowedIsEdge DEF Jobs
<1>3. JobStatusActor(to) # "customer" /\ JobStatusActor(to) # "admin"
  BY <1>1, <1>2 DEF MayDrive, JobStatusActor
<1>4. to = "customer_confirmed_completion" => FALSE
  BY <1>1 DEF MayDrive, JobStatusActor
<1>5. job.status = "completion_requested" => to # "completed"
  BY <1>1 DEF MayDrive, JobStatusActor
<1> QED BY <1>2, <1>3, <1>4, <1>5 DEF JobTransitions, Status, ProviderReach, JobStatusActor

LEMMA InitProviders == Init => ProvidersInv
<1> SUFFICES ASSUME Init PROVE ProvidersInv
  OBVIOUS
<1>1. ~ job.confirmed /\ job.status \in {"pending", "matching", "scheduled"}
  BY DEF Init, NewJob
<1> QED BY <1>1, InitTypeOK, IdleIsNotTheCustomers DEF Init, ProvidersInv, ProviderReach

(* What a step of the provider side does to the slots. *)
LEMMA ProvidersKeepSlots ==
  ASSUME ProvidersAlone, ProvidersInv, [Next]_vars
  PROVE  \A r \in Slots : NotTheCustomers(task'[r])
<1>0. /\ Callers \cap {Customer, Admin} = {} /\ ~ CustomerCalls
      /\ job.fundi \notin {Customer, Admin} => Callers \cap {job.fundi, Admin} \subseteq {job.fundi}
  BY PeopleAssumption DEF ProvidersAlone, CustomerCalls
<1>1. /\ job \in Jobs /\ job.status \in Status /\ task \in [Slots -> Tasks]
      /\ \A s \in Slots : NotTheCustomers(task[s]) /\ Prepared(task[s], quotes)
      /\ job.status \in ProviderReach
  BY DEF ProvidersInv, TypeOK, Jobs
<1>2. CASE UNCHANGED task
  BY <1>1, <1>2
<1>3. ASSUME NEW s \in Slots, Finish(s)
      PROVE  \A r \in Slots : NotTheCustomers(task'[r])
  BY <1>3, IdleIsNotTheCustomers, NotTheCustomersKept DEF Finish
<1>4. ASSUME NEW s \in Slots, NEW t, Become(s, t), t.pc \notin {"cas", "verify", "direct", "release", "find", "decide"}
      PROVE  \A r \in Slots : NotTheCustomers(task'[r])
  BY <1>4, NotTheCustomersKept DEF NotTheCustomers
<1>5. ASSUME NEW s \in Slots, PatchJob(s) PROVE \A r \in Slots : NotTheCustomers(task'[r])
  <2>1. PICK to \in PatchTargets, who \in Callers :
           MayDrive(who, job, to) /\ Ask(s, job.status, to, "patch")
    BY <1>5 DEF PatchJob
  <2>2. job.status # "completion_requested" /\ to \in ProviderReach
    BY <1>1, <2>1, PatchIsTheProviders DEF Ask
  <2> QED BY <1>1, <2>1, <2>2, ProviderAsk DEF Ask
<1>6. ASSUME NEW s \in Slots, CustomerAct(s) PROVE \A r \in Slots : NotTheCustomers(task'[r])
  <2>1. CASE CancelJob(s)
    <3>1. job.status # "completion_requested" /\ Ask(s, job.status, "cancelled", "cancel")
      BY <1>0, <2>1 DEF CancelJob
    <3> QED BY <1>1, <3>1, ProviderAsk DEF Ask, ProviderReach
  <2>2. CASE CancelLiveQuotes(s) \/ WriteCompletionCode(s) \/ WriteQuestion(s)
    BY <1>3, <2>2 DEF CancelLiveQuotes, WriteCompletionCode, WriteQuestion
  <2>3. CASE ExpireOnRead(s) \/ MarkQuoteViewed(s)
    BY <1>2, <2>3 DEF ExpireOnRead, MarkQuoteViewed
  <2>4. ~ (VerifyCompletionCode(s) \/ ConfirmDirectly(s) \/ ReleaseAndFinalize(s)
           \/ FindLiveQuote(s) \/ WriteDecision(s))
    BY <1>1 DEF NotTheCustomers, VerifyCompletionCode, ConfirmDirectly, ReleaseAndFinalize,
                FindLiveQuote, WriteDecision, At
  <2>5. ~ (ResendCompletionCode(s) \/ ConfirmCompletion(s) \/ DecideQuote(s) \/ AskQuestion(s))
    BY <1>0 DEF ResendCompletionCode, ConfirmCompletion, DecideQuote, AskQuestion
  <2> QED BY <1>6, <2>1, <2>2, <2>3, <2>4, <2>5 DEF CustomerAct
<1>7. ASSUME NEW s \in Slots, ProviderAct(s) PROVE \A r \in Slots : NotTheCustomers(task'[r])
  <2>1. CASE AcceptJob(s) \/ ClaimPoolJob(s) \/ AssignTechnician(s) \/ UnassignTechnician(s)
    BY <1>2, <2>1 DEF AcceptJob, ClaimPoolJob, AssignTechnician, UnassignTechnician
  <2>2. CASE CheckIn(s)
    BY <1>1, <2>2, ProviderAsk DEF CheckIn, Ask, ProviderReach
  <2>3. CASE CompleteJob(s)
    BY <1>1, <2>3, ProviderAsk DEF CompleteJob, Ask, ProviderReach
  <2>4. CASE AcceptCompanyJob(s) \/ RejectCompanyJob(s)
    BY <1>1, <2>4, ProviderAsk DEF AcceptCompanyJob, RejectCompanyJob, Ask, ProviderReach
  <2>5. CASE QuoteCompanyJob(s)
    BY <1>4, <2>5 DEF QuoteCompanyJob, Idle
  <2>6. CASE ReadJobToQuote(s) \/ CheckNoLiveQuote(s)
    BY <1>1, <1>3, <1>4, <2>6 DEF ReadJobToQuote, CheckNoLiveQuote, Tasks
  <2>7. CASE InsertQuote(s)
    <3> DEFINE cas(q) == [task[s] EXCEPT !.pc = "cas", !.to = "offered", !.via = "offer",
                                         !.quote = q]
    <3>1. task[s] \in Tasks /\ task[s].from \in Status
      BY <1>1, <2>7 DEF InsertQuote, At, Prepared
    <3>2. ASSUME NEW q \in Quotes, task[s].from \in {"pending", "matching", "quote_requested",
                 "accepted", "scheduled", "booking_confirmed"}
          PROVE  NotTheCustomers(cas(q))
      BY <3>1, <3>2 DEF NotTheCustomers, Tasks, ProviderReach
    <3>3. ASSUME NEW q \in Quotes
          PROVE  NotTheCustomers([task[s] EXCEPT !.pc = "price", !.quote = q])
      BY <3>1 DEF NotTheCustomers, Tasks
    <3> HIDE DEF cas
    <3> QED BY <1>3, <2>7, <3>2, <3>3, NotTheCustomersKept, IdleIsNotTheCustomers
            DEF InsertQuote, cas
  <2>8. CASE WriteEstimate(s)
    BY <1>3, <2>8 DEF WriteEstimate
  <2> QED BY <1>7, <2>1, <2>2, <2>3, <2>4, <2>5, <2>6, <2>7, <2>8 DEF ProviderAct
<1>8. ASSUME NEW b \in Slots, ReaperAct(b) PROVE \A r \in Slots : NotTheCustomers(task'[r])
  <2>1. CASE ExpireStaleQuotes(b)
    BY <1>4, <2>1 DEF ExpireStaleQuotes, Idle
  <2>2. CASE ReopenMatching(b)
    BY <1>1, <1>3, <2>2, ProviderAsk DEF ReopenMatching, Ask, ProviderReach
  <2>3. CASE ActivateScheduled(b) \/ RequeueStaleOffer(b) \/ ExpireUnmatched(b)
    BY <1>1, <2>3, ProviderAsk
    DEF ActivateScheduled, RequeueStaleOffer, ExpireUnmatched, Ask, ProviderReach
  <2> QED BY <1>8, <2>1, <2>2, <2>3 DEF ReaperAct
<1>9. ASSUME NEW s \in Slots, Transition(s) PROVE \A r \in Slots : NotTheCustomers(task'[r])
  <2>1. task[s].via # "confirm"
    BY <1>1, <1>9 DEF Transition, At, NotTheCustomers
  <2>2. NotTheCustomers(AfterTransition(task[s]))
    BY <2>1 DEF NotTheCustomers, AfterTransition, Idle
  <2> QED BY <1>3, <1>9, <2>2, NotTheCustomersKept DEF Transition
<1>10. ASSUME NEW s \in Slots, Fail(s) PROVE \A r \in Slots : NotTheCustomers(task'[r])
  BY <1>3, <1>10 DEF Fail
<1> QED BY <1>2, <1>5, <1>6, <1>7, <1>8, <1>9, <1>10 DEF Next, Slots, vars

(* What a step of the provider side does to the row: it does not confirm,   *)
(* stays within reach, and leaves a completion that was asked for alone.    *)
LEMMA ProvidersStep ==
  ASSUME ProvidersInv, [Next]_vars
  PROVE  /\ ~ job'.confirmed
         /\ job'.status \in ProviderReach
         /\ job.status = "completion_requested" => job'.status = job.status
<1>0. /\ TypeOK /\ job \in Jobs /\ ~ job.confirmed /\ job.status \in ProviderReach
      /\ \A s \in Slots : NotTheCustomers(task[s])
  BY DEF ProvidersInv, TypeOK
<1>1. CASE SameCourse
  BY <1>0, <1>1 DEF SameCourse
<1>2. ASSUME NEW s \in Slots, TransitionWrites(s)
      PROVE  /\ ~ job'.confirmed
             /\ job'.status \in ProviderReach
             /\ job.status # "completion_requested"
  <2>1. NotTheCustomers(task[s]) /\ job.status = task[s].from /\ At(s, "cas")
    BY <1>0, <1>2 DEF TransitionWrites
  <2>2. /\ job'.status = task[s].to
        /\ job'.confirmed = (job.confirmed \/ task[s].via = "confirm")
    BY <1>0, <1>2 DEF TransitionWrites, Moved, Jobs
  <2> QED BY <1>0, <2>1, <2>2 DEF NotTheCustomers, At
<1>3. ASSUME NEW s \in Slots, AcceptJob(s) \/ AssignTechnician(s) \/ UnassignTechnician(s)
      PROVE  /\ ~ job'.confirmed
             /\ job'.status \in ProviderReach
             /\ job.status # "completion_requested"
  BY <1>0, <1>3 DEF AcceptJob, AssignTechnician, UnassignTechnician, Jobs, ProviderReach
<1>4. ASSUME NEW s \in Slots PROVE ~ ConfirmDirectly(s)
  BY <1>0 DEF ConfirmDirectly, At, NotTheCustomers
<1> QED BY <1>0, <1>1, <1>2, <1>3, <1>4, NextRowStep DEF RowStep

LEMMA ProvidersStayWithin ==
  ASSUME ProvidersAlone
  PROVE  Spec => []ProvidersInv
<1>1. Init => ProvidersInv
  BY InitProviders
<1>2. ProvidersInv /\ [Next]_vars => ProvidersInv'
  BY ProvidersKeepSlots, ProvidersStep, NextKeepsType DEF ProvidersInv
<1> QED BY <1>1, <1>2, PTL DEF Spec

(* However many professionals and members of the company make requests, and *)
(* however these overlap, they reach no outcome that is the customer's to   *)
(* give: no confirmation, no dispute, no refund, no closed booking          *)
(* (checkActor of jobStateMachine.js).                                      *)
THEOREM ProvidersDecideNothing ==
  ASSUME ProvidersAlone
  PROVE  Spec => []NoUnilateralOutcome
<1>1. ProvidersInv => NoUnilateralOutcome
  BY DEF ProvidersInv, ProviderReach, NoUnilateralOutcome
<1> QED BY <1>1, ProvidersStayWithin, PTL

(* Once completion was asked for, nothing the provider side or the          *)
(* background loops do moves the booking on: not even a write that was      *)
(* prepared before.                                                         *)
THEOREM CompletionAwaitsCustomer ==
  ASSUME ProvidersAlone
  PROVE  Spec => AwaitsCustomer
<1>1. ProvidersInv /\ [Next]_vars
        => [job.status = "completion_requested" => job'.status = job.status]_vars
  BY ProvidersStep
<1> QED BY <1>1, ProvidersStayWithin, PTL DEF Spec, AwaitsCustomer

=============================================================================
