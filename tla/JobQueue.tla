------------------------------ MODULE JobQueue ------------------------------
(***************************************************************************)
(* queueWorker.js: the table job_queue and the worker each server process  *)
(* runs.  A step is one statement, with what the worker does until the     *)
(* next; steps of different processes interleave, and those of the staff   *)
(* who retry rows and of the platform that stops, kills and restarts       *)
(* processes interleave with all of them.                                  *)
(***************************************************************************)
EXTENDS Naturals, FiniteSets

CONSTANTS
    Rows,         \* rows job_queue may get
    Handled,      \* those whose queue_name has a registered handler
    Workers,      \* server processes
    TickJobs,     \* rows a tick takes at most (10)
    MAX_RETRIES,
    MaxAdmin,     \* bound: retries of a row by the staff
    MaxFaults,    \* bound: stops, kills and statements that fail
    None

ASSUME JobQueueAssumption ==
    /\ IsFiniteSet(Workers)
    /\ TickJobs \in Nat \ {0} /\ MAX_RETRIES \in Nat \ {0}
    /\ None \notin Rows

VARIABLES
    job,      \* the rows: status, attempts, and whether next_run_at lies ahead
    worker,   \* where each process is, the row it holds and the attempts it read
    retries,  \* history: times the staff retried each row
    starts,   \* history: times a handler was called for each row
    hit,      \* history: rows whose run, since they were last claimed, met a fault
    faults    \* history: stops, kills and failed statements

vars == <<job, worker, retries, starts, hit, faults>>

Statuses == {"none", "pending", "running", "completed", "failed"}

Holding == {"unknown",  \* no handler for the row it claimed
            "handler",  \* the handler runs
            "done",     \* it returned
            "thrown"}   \* it failed, or the update after it

Places == Holding \cup {"idle",   \* waits for the timer
                        "claim",  \* in a tick, about to look for a row
                        "down"}   \* the process is not running

JobType == [status : Statuses, attempts : Nat, delayed : BOOLEAN]

WorkerType == [at : Places, row : Rows \cup {None}, attempts : Nat, left : 0 .. TickJobs,
               stopping : BOOLEAN]

(* Rows have one of the four statuses the worker and the staff write, and a  *)
(* process holds one row at a time (queueWorker.js:31-85).                  *)
TypeOK ==
    /\ job \in [Rows -> JobType]
    /\ worker \in [Workers -> WorkerType]
    /\ retries \in [Rows -> Nat] /\ starts \in [Rows -> Nat]
    /\ hit \subseteq Rows /\ faults \in Nat

(* A process that holds no row. *)
Free(at, left, stopping) ==
    [at |-> at, row |-> None, attempts |-> 0, left |-> left, stopping |-> stopping]

Fresh == Free("idle", 0, FALSE)

Init ==
    /\ job = [j \in Rows |-> [status |-> "none", attempts |-> 0, delayed |-> FALSE]]
    /\ worker = [w \in Workers |-> Fresh]
    /\ retries = [j \in Rows |-> 0] /\ starts = [j \in Rows |-> 0]
    /\ hit = {} /\ faults = 0

Holders(j) == {w \in Workers : worker[w].at \in Holding /\ worker[w].row = j}

(* Mutant: a row that failed once is not taken again. *)
ReadyOnce == {j \in Rows : job[j].status = "pending" /\ ~ job[j].delayed /\ job[j].attempts = 0}

Ready == {j \in Rows : job[j].status = "pending" /\ ~ job[j].delayed}

-----------------------------------------------------------------------------
(* The rows *)

Enqueue(j) ==
    /\ job[j].status = "none"
    /\ job' = [job EXCEPT ![j].status = "pending"]
    /\ UNCHANGED <<worker, retries, starts, hit, faults>>

(* Mutant: what has failed is queued again when its time comes. *)
DelayPassesForAll(j) ==
    /\ job[j].delayed \/ job[j].status = "failed"
    /\ job' = [job EXCEPT ![j].delayed = FALSE, ![j].status = "pending"]
    /\ UNCHANGED <<worker, retries, starts, hit, faults>>

DelayPasses(j) ==
    /\ job[j].delayed
    /\ job' = [job EXCEPT ![j].delayed = FALSE]
    /\ UNCHANGED <<worker, retries, starts, hit, faults>>

(* Whatever the status of the row; next_run_at stays. *)
retryQueueJob(j) ==
    /\ job[j].status # "none" /\ retries[j] < MaxAdmin
    /\ job' = [job EXCEPT ![j].status = "pending", ![j].attempts = 0]
    /\ retries' = [retries EXCEPT ![j] = @ + 1]
    /\ UNCHANGED <<worker, starts, hit, faults>>

-----------------------------------------------------------------------------
(* A worker's tick *)

(* The tick ends; a process that was told to stop waited for that. *)
Rest(w) ==
    worker' = [worker EXCEPT ![w] =
                  Free(IF worker[w].stopping THEN "down" ELSE "idle", 0, worker[w].stopping)]

(* Mutant: a tick goes on for as long as there are rows. *)
GoOnForever(w) ==
    IF Ready = {}
    THEN Rest(w)
    ELSE worker' = [worker EXCEPT ![w] = Free("claim", worker[w].left, worker[w].stopping)]

(* On to the next row, if the tick may take one more. *)
GoOn(w) ==
    IF worker[w].left = 0
    THEN Rest(w)
    ELSE worker' = [worker EXCEPT ![w] = Free("claim", worker[w].left, worker[w].stopping)]

(* The row gets a status; other columns but next_run_at matter to nobody. *)
Finish(w, status, delayed) ==
    job' = [job EXCEPT ![worker[w].row].status = status,
                       ![worker[w].row].delayed = delayed]

tick(w) ==
    /\ worker[w].at = "idle" /\ ~ worker[w].stopping
    /\ worker' = [worker EXCEPT ![w].at = "claim", ![w].left = TickJobs]
    /\ UNCHANGED <<job, retries, starts, hit, faults>>

(* The statement that claims a row. *)
Take(j) == job' = [job EXCEPT ![j].status = "running", ![j].attempts = @ + 1]

(* Mutant: the rows in the hands of others are not skipped. *)
ClaimUnlocked(w) ==
    /\ worker[w].at = "claim"
    /\ \E j \in {k \in Rows : job[k].status \in {"pending", "running"}} :
          /\ Take(j)
          /\ hit' = hit \ {j}
          /\ worker' = [worker EXCEPT ![w].at = IF j \in Handled THEN "handler" ELSE "unknown",
                                      ![w].row = j, ![w].attempts = job[j].attempts + 1,
                                      ![w].left = @ - 1]
          /\ starts' = [starts EXCEPT ![j] = IF j \in Handled THEN @ + 1 ELSE @]
    /\ UNCHANGED <<retries, faults>>

(* One statement, and a row another process has locked is skipped. *)
Claim(w) ==
    /\ worker[w].at = "claim"
    /\ \E j \in Ready :
          /\ Take(j)
          /\ hit' = hit \ {j}
          /\ worker' = [worker EXCEPT ![w].at = IF j \in Handled THEN "handler" ELSE "unknown",
                                      ![w].row = j, ![w].attempts = job[j].attempts + 1,
                                      ![w].left = @ - 1]
          /\ starts' = [starts EXCEPT ![j] = IF j \in Handled THEN @ + 1 ELSE @]
    /\ UNCHANGED <<retries, faults>>

NothingReady(w) ==
    /\ worker[w].at = "claim" /\ Ready = {}
    /\ Rest(w)
    /\ UNCHANGED <<job, retries, starts, hit, faults>>

NoHandler(w) ==
    /\ worker[w].at = "unknown"
    /\ Finish(w, "failed", job[worker[w].row].delayed)
    /\ GoOn(w)
    /\ UNCHANGED <<retries, starts, hit, faults>>

HandlerEnds(w) ==
    /\ worker[w].at = "handler"
    /\ \E at \in {"done", "thrown"} : worker' = [worker EXCEPT ![w].at = at]
    /\ UNCHANGED <<job, retries, starts, hit, faults>>

Complete(w) ==
    /\ worker[w].at = "done"
    /\ Finish(w, "completed", job[worker[w].row].delayed)
    /\ GoOn(w)
    /\ UNCHANGED <<retries, starts, hit, faults>>

(* The catch, by the attempts the worker read when it claimed the row. *)
PutBack(w) ==
    IF worker[w].attempts >= MAX_RETRIES
    THEN Finish(w, "failed", job[worker[w].row].delayed)
    ELSE Finish(w, "pending", TRUE)

(* Mutant: one attempt too many. *)
RescheduleOnceMore(w) ==
    /\ worker[w].at = "thrown"
    /\ IF worker[w].attempts > MAX_RETRIES
       THEN Finish(w, "failed", job[worker[w].row].delayed)
       ELSE Finish(w, "pending", TRUE)
    /\ GoOn(w)
    /\ UNCHANGED <<retries, starts, hit, faults>>

(* Mutant: the row keeps its status until it is out of attempts. *)
RescheduleRunning(w) ==
    /\ worker[w].at = "thrown"
    /\ IF worker[w].attempts >= MAX_RETRIES
       THEN Finish(w, "failed", job[worker[w].row].delayed)
       ELSE Finish(w, job[worker[w].row].status, TRUE)
    /\ GoOn(w)
    /\ UNCHANGED <<retries, starts, hit, faults>>

Reschedule(w) ==
    /\ worker[w].at = "thrown"
    /\ PutBack(w)
    /\ GoOn(w)
    /\ UNCHANGED <<retries, starts, hit, faults>>

(* A statement fails: it is not done, or it is done and its answer lost.    *)
(* The update after the handler is inside the try, so that the job counts   *)
(* as failed either way and the catch overwrites what may say completed;    *)
(* any other failure ends the tick.                                         *)
StatementFails(w) ==
    /\ faults < MaxFaults
    /\ faults' = faults + 1
    /\ \/ /\ worker[w].at = "claim" /\ Rest(w)
          /\ \/ UNCHANGED <<job, hit>>
             \/ \E j \in Ready : Take(j) /\ hit' = hit \cup {j}
       \/ /\ worker[w].at \in {"unknown", "done", "thrown"}
          /\ hit' = hit \cup {worker[w].row}
          /\ \/ UNCHANGED job
             \/ worker[w].at = "unknown" /\ Finish(w, "failed", job[worker[w].row].delayed)
             \/ worker[w].at = "done" /\ Finish(w, "completed", job[worker[w].row].delayed)
             \/ worker[w].at = "thrown" /\ PutBack(w)
          /\ IF worker[w].at = "done" THEN worker' = [worker EXCEPT ![w].at = "thrown"]
                                     ELSE Rest(w)
    /\ UNCHANGED <<retries, starts>>

-----------------------------------------------------------------------------
(* The process *)

stopQueueWorker(w) ==
    /\ worker[w].at # "down" /\ ~ worker[w].stopping /\ faults < MaxFaults
    /\ faults' = faults + 1
    /\ worker' = [worker EXCEPT ![w].stopping = TRUE,
                                ![w].at = IF @ = "idle" THEN "down" ELSE @]
    /\ UNCHANGED <<job, retries, starts, hit>>

Crash(w) ==
    /\ worker[w].at # "down" /\ faults < MaxFaults
    /\ faults' = faults + 1
    /\ worker' = [worker EXCEPT ![w] = Free("down", 0, FALSE)]
    /\ hit' = IF worker[w].at \in Holding THEN hit \cup {worker[w].row} ELSE hit
    /\ UNCHANGED <<job, retries, starts>>

startQueueWorker(w) ==
    /\ worker[w].at = "down"
    /\ worker' = [worker EXCEPT ![w] = Fresh]
    /\ UNCHANGED <<job, retries, starts, hit, faults>>

-----------------------------------------------------------------------------
Work(w) ==
    \/ tick(w) \/ Claim(w) \/ NothingReady(w) \/ NoHandler(w)
    \/ HandlerEnds(w) \/ Complete(w) \/ Reschedule(w)
    \/ startQueueWorker(w)

Next ==
    \/ \E j \in Rows : Enqueue(j) \/ DelayPasses(j) \/ retryQueueJob(j)
    \/ \E w \in Workers : Work(w) \/ StatementFails(w) \/ stopQueueWorker(w) \/ Crash(w)

(* The timer fires, a statement is answered, the platform restarts a        *)
(* process and time passes; that a handler ends is assumed.                 *)
Fairness ==
    /\ \A w \in Workers : WF_vars(Work(w))
    /\ \A j \in Rows : WF_vars(DelayPasses(j))

Spec == Init /\ [][Next]_vars /\ Fairness

-----------------------------------------------------------------------------
(* The status says that a process has the row in hand: it runs, or it is     *)
(* completed by an update whose answer was lost, so that the process which   *)
(* made it is about to put the row back.                                     *)
InHand(j) == job[j].status = "running" \/ (job[j].status = "completed" /\ j \in hit)

(* "multiple worker instances can run concurrently without double-          *)
(* processing" (queueWorker.js:4-5), with what a retry by the staff does to  *)
(* it: a row is in the hands of one process, and of one more for each time   *)
(* it was retried; and a row nobody retried is in nobody's hands unless its  *)
(* status says so.                                                           *)
NoDoubleProcessing ==
    \A j \in Rows :
        Cardinality(Holders(j)) + (IF InHand(j) THEN 0 ELSE 1) <= 1 + retries[j]

(* "retried up to 3 times" (queueWorker.js:9-10), crashes and failed         *)
(* statements included: the handler is called at most three times, and three *)
(* more for each retry by the staff, although a retry resets the count while *)
(* an older run of the row, with an older count, may still put it back.      *)
AttemptsBounded == \A j \in Rows : starts[j] <= MAX_RETRIES * (1 + retries[j])

(* The row is marked running with no process to run it. *)
Abandoned(j) == job[j].status = "running" /\ Holders(j) = {}

(* A row that waits is in the end completed or failed, unless a fault left   *)
(* it running with nobody to run it: nothing looks for such rows             *)
(* (queueWorker.js:31-50).                                                   *)
EveryRowSettles ==
    \A j \in Rows : job[j].status = "pending" ~>
                        job[j].status \in {"completed", "failed"} \/ Abandoned(j)

(* Only a process that is killed with the row in hand, or a statement about  *)
(* the row that fails, leaves it behind: not a process that is stopped,      *)
(* which ends its tick first, nor what happens to other rows                 *)
(* (queueWorker.js:63-84, 129-140).                                          *)
OnlyFaultsAbandon == \A j \in Rows : Abandoned(j) => j \in hit

(* A completed or failed row changes only when the staff retry it, or by a   *)
(* process that still holds it, which takes an earlier retry or an update    *)
(* whose answer was lost: the updates that end a run name the row by its id  *)
(* only, and yet nothing else is overwritten by them (queueWorker.js:65-84). *)
SettledIsFinal ==
    [][\A j \in Rows :
          job[j].status \in {"completed", "failed"} /\ job'[j].status # job[j].status =>
              \/ retries'[j] > retries[j]
              \/ Holders(j) # {} /\ (retries[j] > 0 \/ j \in hit)]_vars
=============================================================================
