------------------------------ MODULE Database ------------------------------
(***************************************************************************)
(* db.js in production: the connection pool every part of the backend      *)
(* shares, its lazy creation, and its replacement after a connection error *)
(* ("Neon suspends the database").                                         *)
(*                                                                         *)
(* The state is three variables of one Node process.  A step runs from one *)
(* await to the next, so steps interleave only there, and what is ready to *)
(* go on after an await goes on before the next event.  Every run of       *)
(* initDriver has a number, and the pool it creates has the same one.      *)
(***************************************************************************)
EXTENDS Integers, FiniteSets

CONSTANTS
    Requests,   \* slots for calls of query, transaction and healthcheck
    MaxPools,   \* bound: pools created
    None

Pools == 1 .. MaxPools

VARIABLES
    pool,         \* the pool in use, None when null
    initPromise,  \* the initDriver run that callers await, None when null
    lastError,    \* lastConnectionError is set
    pools,        \* external: what pg-pool makes of each pool
    inits,        \* where each run of initDriver is
    task,         \* where each call is, and the pool or run it awaits
    up,           \* external: the database accepts connections
    overlap       \* history: two clean-ups or probes were under way at once

state == <<pool, initPromise, lastError, pools, inits, task, up>>

vars == <<state, overlap>>

Idle == [pc |-> "idle", on |-> None]

Init ==
    /\ pool = None /\ initPromise = None /\ lastError = FALSE
    /\ pools = [p \in Pools |-> "unused"]
    /\ inits = [p \in Pools |-> [pc |-> "unused", on |-> None]]
    /\ task = [r \in Requests |-> Idle]
    /\ up = TRUE /\ overlap = FALSE

-----------------------------------------------------------------------------
(* A promise somebody awaits is settled: its continuation, a microtask, runs *)
(* before any timer, socket event or new request.                            *)
Resumable(r) ==
    \/ task[r].pc = "init" /\ inits[task[r].on].pc = "done"
    \/ task[r].pc = "end" /\ pools[task[r].on] = "ended"

ProbeResumable(p) == inits[p].pc = "end" /\ pools[inits[p].on] = "ended"

Settled ==
    /\ \A r \in Requests : ~ Resumable(r)
    /\ \A p \in Pools : ~ ProbeResumable(p)

(* External: pg.Pool *)

(* A second end() of a pool rejects at once, and the rejection is swallowed. *)
Ends(p) == p # None /\ pools[p] \in {"open", "stale"}

Ending(p) == pools' = [pools EXCEPT ![p] = "ending"]

(* end() resolves when no query holds a connection of the pool. *)
Drain(p) ==
    /\ pools[p] = "ending"
    /\ inits[p].pc # "probe"
    /\ \A r \in Requests : ~ (task[r].pc = "query" /\ task[r].on = p)
    /\ pools' = [pools EXCEPT ![p] = "ended"]
    /\ UNCHANGED <<pool, initPromise, lastError, inits, task, up>>

(* The database suspends: connections made until now may be dead. *)
Suspend ==
    /\ up
    /\ up' = FALSE
    /\ pools' = [p \in Pools |-> IF pools[p] = "open" THEN "stale" ELSE pools[p]]
    /\ UNCHANGED <<pool, initPromise, lastError, inits, task>>

Resume ==
    /\ ~ up
    /\ up' = TRUE
    /\ UNCHANGED <<pool, initPromise, lastError, pools, inits, task>>

MayFail(p) == ~ up \/ pools[p] # "open"

-----------------------------------------------------------------------------
(* ensureInit up to its await.  initDriver creates a pool unless there is one. *)
Call(r) ==
    LET kept == IF lastError /\ pool = None THEN None ELSE initPromise
    IN  /\ task[r].pc = "idle"
        /\ \/ /\ kept # None
              /\ task' = [task EXCEPT ![r] = [pc |-> "init", on |-> kept]]
              /\ UNCHANGED <<pool, initPromise, pools, inits>>
           \/ /\ kept = None
              /\ \E p \in Pools :
                    /\ inits[p].pc = "unused" /\ \A q \in Pools : q < p => inits[q].pc # "unused"
                    /\ initPromise' = p
                    /\ task' = [task EXCEPT ![r] = [pc |-> "init", on |-> p]]
                    /\ IF pool = None
                       THEN /\ pool' = p
                            /\ pools' = [pools EXCEPT ![p] = IF up THEN "open" ELSE "stale"]
                            /\ inits' = [inits EXCEPT ![p].pc = "probe"]
                       ELSE /\ inits' = [inits EXCEPT ![p].pc = "done"]
                            /\ UNCHANGED <<pool, pools>>
        /\ UNCHANGED <<lastError, up>>

(* select 1 on the new pool *)
ProbeSucceeds(p) ==
    /\ inits[p].pc = "probe" /\ up
    /\ inits' = [inits EXCEPT ![p].pc = "done"]
    /\ lastError' = FALSE
    /\ UNCHANGED <<pool, initPromise, pools, task, up>>

(* It is the module's pool, not the one this run created, that is ended. *)
ProbeFails(p) ==
    /\ inits[p].pc = "probe" /\ MayFail(p)
    /\ lastError' = TRUE
    /\ \/ /\ Ends(pool)
          /\ Ending(pool)
          /\ inits' = [inits EXCEPT ![p] = [pc |-> "end", on |-> pool]]
          /\ UNCHANGED pool
       \/ /\ ~ Ends(pool)
          /\ inits' = [inits EXCEPT ![p].pc = "done"]
          /\ pool' = None
          /\ UNCHANGED pools
    /\ UNCHANGED <<initPromise, task, up>>

ProbeEnded(p) ==
    /\ ProbeResumable(p)
    /\ inits' = [inits EXCEPT ![p].pc = "done"]
    /\ pool' = None
    /\ UNCHANGED <<initPromise, lastError, pools, task, up>>

(* The statement is answered; or it is in a transaction, whose ROLLBACK on  *)
(* the dead connection fails too, so that the pool is kept.                 *)
Return(r) ==
    /\ task[r].pc = "query"
    /\ task' = [task EXCEPT ![r] = Idle]
    /\ UNCHANGED <<pool, initPromise, lastError, pools, inits, up>>

(* Mutant: only the pool is forgotten. *)
ForgottenPool(r) ==
    /\ pool' = None /\ UNCHANGED <<initPromise, lastError>>
    /\ task' = [task EXCEPT ![r] = Idle]

Forgotten(r) ==
    /\ pool' = None /\ initPromise' = None /\ lastError' = TRUE
    /\ task' = [task EXCEPT ![r] = Idle]

(* After the await: a 503, or the statement is handed to the pool, which    *)
(* rejects it when it is ending.  That is no connection error, but one to   *)
(* healthcheck, whose destroyPool does not wait for an end() that rejects.  *)
Run(r) ==
    /\ task[r].pc = "init" /\ Resumable(r)
    /\ \/ /\ task' = [task EXCEPT ![r] = IF Ends(pool) THEN [pc |-> "query", on |-> pool] ELSE Idle]
          /\ UNCHANGED <<pool, initPromise, lastError>>
       \/ pool # None /\ ~ Ends(pool) /\ Forgotten(r)
    /\ UNCHANGED <<pools, inits, up>>

(* destroyPool, after a connection error in query or healthcheck *)
Destroy(r) ==
    /\ task[r].pc = "query" /\ MayFail(task[r].on)
    /\ \/ /\ Ends(pool)
          /\ Ending(pool)
          /\ task' = [task EXCEPT ![r] = [pc |-> "end", on |-> pool]]
          /\ UNCHANGED <<pool, initPromise, lastError>>
       \/ ~ Ends(pool) /\ Forgotten(r) /\ UNCHANGED pools
    /\ UNCHANGED <<inits, up>>

Destroyed(r) ==
    /\ task[r].pc = "end" /\ Resumable(r)
    /\ Forgotten(r)
    /\ UNCHANGED <<pools, inits, up>>

-----------------------------------------------------------------------------
Busy ==
    {r \in Requests : task[r].pc = "end"} \cup {p \in Pools : inits[p].pc \in {"probe", "end"}}

Step ==
    \/ \E r \in Requests : Run(r) \/ Destroyed(r)
    \/ \E p \in Pools : ProbeEnded(p)
    \/ /\ Settled
       /\ \/ \E r \in Requests : Call(r) \/ Return(r) \/ Destroy(r)
          \/ \E p \in Pools : ProbeSucceeds(p) \/ ProbeFails(p) \/ Drain(p)
          \/ Suspend \/ Resume

Next == Step /\ overlap' = (overlap \/ Cardinality(Busy') > 1)

Spec == Init /\ [][Next]_vars

-----------------------------------------------------------------------------
Quiet ==
    /\ \A r \in Requests : task[r].pc = "idle"
    /\ \A p \in Pools : inits[p].pc \in {"unused", "done"}

(* "Destroy the pool so the next request creates a fresh pool and           *)
(* reconnects" (db.js:169-170): whenever the calls in progress have ended,  *)
(* there is a pool or the next call makes one, unless two clean-ups         *)
(* overlapped: then the second may forget the promise of the first, and the *)
(* backend stays without a pool.                                            *)
Reconnects == overlap \/ (Quiet /\ pool = None => initPromise = None \/ lastError)
=============================================================================
