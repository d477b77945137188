--------------------------- MODULE JobQueueProofs ---------------------------
(***************************************************************************)
(* Proofs about JobQueue, for any rows, processes and bounds: what a row   *)
(* can owe to the processes that hold it is counted, and the count is kept *)
(* by every step.                                                          *)
(***************************************************************************)
EXTENDS JobQueue, FiniteSetTheorems, TLAPS

(* None while the status says that a process has the row, one otherwise. *)
Weight(j) == IF InHand(j) THEN 0 ELSE 1

(* One while a call of the row's handler is still due. *)
Due(j) == IF job[j].status \in {"none", "pending"} THEN 1 ELSE 0

(* The holders that would put the row back if the handler failed. *)
Eager(j) == {w \in Holders(j) : worker[w].attempts < MAX_RETRIES}

(* What a process keeps in its hands is a row, and it never looks for a row *)
(* beyond its tick's share.                                                 *)
HandsHoldRows ==
    \A w \in Workers :
        /\ worker[w].at \in Holding => worker[w].row \in Rows
        /\ worker[w].at = "claim" => worker[w].left >= 1

(* Calls made, plus calls that may still come of the present run of the row: *)
(* every retry by the staff pays for MAX_RETRIES of them, and of the present *)
(* count of attempts each but the last pays for one.                         *)
CallsPaidFor ==
    \A j \in Rows :
        starts[j] + Due(j) + Cardinality(Eager(j))
            <= 1 + MAX_RETRIES * retries[j]
                 + (IF job[j].attempts < MAX_RETRIES THEN job[j].attempts ELSE MAX_RETRIES - 1)

QueueInv == TypeOK /\ HandsHoldRows /\ NoDoubleProcessing /\ CallsPaidFor /\ OnlyFaultsAbandon

-----------------------------------------------------------------------------
(* Sets of processes *)

LEMMA HoldersFinite ==
    ASSUME NEW j \in Rows
    PROVE  /\ IsFiniteSet(Holders(j)) /\ IsFiniteSet(Eager(j))
           /\ Cardinality(Holders(j)) \in Nat /\ Cardinality(Eager(j)) \in Nat
<1>1. IsFiniteSet(Workers)
  BY JobQueueAssumption
<1>2. Holders(j) \in SUBSET Workers /\ Eager(j) \in SUBSET Workers
  BY DEF Holders, Eager
<1>3. IsFiniteSet(Holders(j)) /\ IsFiniteSet(Eager(j))
  BY <1>1, <1>2, FS_Subset
<1>4. Cardinality(Holders(j)) \in Nat
  BY <1>3, FS_CardinalityType
<1>5. Cardinality(Eager(j)) \in Nat
  BY <1>3, FS_CardinalityType
<1> QED BY <1>3, <1>4, <1>5

(* A set that loses an element, if it had it, or gains one. *)
LEMMA OneLess ==
    ASSUME NEW S, NEW x, IsFiniteSet(S)
    PROVE  /\ Cardinality(S \ {x}) \in Nat
           /\ Cardinality(S \ {x}) <= Cardinality(S)
           /\ x \in S => Cardinality(S \ {x}) + 1 = Cardinality(S)
<1>1. Cardinality(S) \in Nat /\ Cardinality(S \ {x}) \in Nat
  BY FS_RemoveElement, FS_CardinalityType
<1> QED BY <1>1, FS_RemoveElement

LEMMA OneMore ==
    ASSUME NEW S, NEW x, IsFiniteSet(S)
    PROVE  /\ Cardinality(S \cup {x}) \in Nat
           /\ Cardinality(S \cup {x}) <= Cardinality(S) + 1
<1>1. Cardinality(S) \in Nat /\ Cardinality(S \cup {x}) \in Nat
  BY FS_AddElement, FS_CardinalityType
<1>2. Cardinality(S \cup {x}) = IF x \in S THEN Cardinality(S) ELSE Cardinality(S) + 1
  BY FS_AddElement
<1> QED BY <1>1, <1>2

(* A process that is no longer at a place where it holds a row. *)
Lets(w) ==
    \E v \in WorkerType : /\ worker' = [worker EXCEPT ![w] = v]
                          /\ v.at \notin Holding
                          /\ v.at = "claim" => v.left >= 1

(* A process that goes on with what it holds, or still holds nothing. *)
Keeps(w) ==
    \E v \in WorkerType : /\ worker' = [worker EXCEPT ![w] = v]
                          /\ v.row = worker[w].row /\ v.attempts = worker[w].attempts
                          /\ v.left = worker[w].left
                          /\ v.at \in Holding <=> worker[w].at \in Holding
                          /\ v.at = "claim" => worker[w].at = "claim"

LEMMA LetsHolders ==
    ASSUME TypeOK, NEW w \in Workers, Lets(w), NEW j \in Rows
    PROVE  Holders(j)' = Holders(j) \ {w} /\ Eager(j)' = Eager(j) \ {w}
BY DEF Lets, TypeOK, WorkerType, Holders, Eager

LEMMA KeepsHolders ==
    ASSUME TypeOK, NEW w \in Workers, Keeps(w), NEW j \in Rows
    PROVE  Holders(j)' = Holders(j) /\ Eager(j)' = Eager(j)
BY DEF Keeps, TypeOK, WorkerType, Holders, Eager

LEMMA FreeLets ==
    ASSUME NEW w \in Workers, NEW a \in {"idle", "down", "claim"}, NEW n \in 0 .. TickJobs,
           NEW b \in BOOLEAN, a = "claim" => n >= 1,
           worker' = [worker EXCEPT ![w] = Free(a, n, b)]
    PROVE  Lets(w)
<1>1. Free(a, n, b) \in WorkerType
  BY DEF Free, WorkerType, Places
<1>2. Free(a, n, b).at = a /\ Free(a, n, b).left = n
  BY DEF Free
<1>3. a \notin Holding
  BY DEF Holding
<1> QED BY <1>1, <1>2, <1>3 DEF Lets

LEMMA RestLets ==
    ASSUME TypeOK, NEW w \in Workers
    PROVE  /\ Rest(w) => Lets(w)
           /\ GoOn(w) => Lets(w)
<1>1. worker[w] \in WorkerType /\ TickJobs \in Nat
  BY JobQueueAssumption DEF TypeOK
<1>2. worker[w].stopping \in BOOLEAN /\ worker[w].left \in 0 .. TickJobs /\ 0 \in 0 .. TickJobs
  BY <1>1 DEF WorkerType
<1>3. Rest(w) => Lets(w)
  <2>1. (IF worker[w].stopping THEN "down" ELSE "idle") \in {"idle", "down", "claim"}
    OBVIOUS
  <2>2. (IF worker[w].stopping THEN "down" ELSE "idle") # "claim"
    OBVIOUS
  <2> QED BY <1>2, <2>1, <2>2, FreeLets DEF Rest
<1>4. worker[w].left # 0 => worker[w].left >= 1
  BY <1>1, <1>2
<1> QED BY <1>2, <1>3, <1>4, FreeLets DEF GoOn

-----------------------------------------------------------------------------
(* Steps that only let a process go, or go on, and leave the rows alone. *)

LEMMA LetsKeepsInv ==
    ASSUME QueueInv, NEW w \in Workers, Lets(w), UNCHANGED <<job, retries, starts>>,
           faults' \in Nat, hit \subseteq hit', hit' \subseteq Rows,
           worker[w].at \in Holding => worker[w].row \in hit'
    PROVE  QueueInv'
<1> USE DEF QueueInv
<1>1. TypeOK' /\ HandsHoldRows'
  BY DEF Lets, TypeOK, HandsHoldRows
<1>2. ASSUME NEW j \in Rows
      PROVE  /\ Cardinality(Holders(j)') <= Cardinality(Holders(j))
             /\ Cardinality(Eager(j)') <= Cardinality(Eager(j))
             /\ Cardinality(Holders(j)') \in Nat /\ Cardinality(Eager(j)') \in Nat
  <2>1. Holders(j)' = Holders(j) \ {w} /\ Eager(j)' = Eager(j) \ {w}
    BY LetsHolders
  <2>2. IsFiniteSet(Holders(j)) /\ IsFiniteSet(Eager(j))
    BY HoldersFinite
  <2>3. Cardinality(Holders(j) \ {w}) \in Nat /\ Cardinality(Holders(j) \ {w}) <= Cardinality(Holders(j))
    BY <2>2, OneLess
  <2>4. Cardinality(Eager(j) \ {w}) \in Nat /\ Cardinality(Eager(j) \ {w}) <= Cardinality(Eager(j))
    BY <2>2, OneLess
  <2> QED BY <2>1, <2>3, <2>4
<1>3. NoDoubleProcessing'
  <2>1. \A j \in Rows : InHand(j) => InHand(j)'
    BY DEF InHand
  <2> QED BY <1>2, <2>1, HoldersFinite DEF NoDoubleProcessing, TypeOK
<1>4. CallsPaidFor'
  BY <1>2, HoldersFinite, JobQueueAssumption DEF CallsPaidFor, TypeOK, JobType, Due
<1>5. OnlyFaultsAbandon'
  <2> SUFFICES ASSUME NEW j \in Rows, Abandoned(j)' PROVE j \in hit'
    BY DEF OnlyFaultsAbandon
  <2>1. job[j].status = "running" /\ Holders(j) \ {w} = {}
    BY LetsHolders DEF Abandoned
  <2>2. CASE w \in Holders(j)
    BY <2>2 DEF Holders
  <2>3. CASE w \notin Holders(j)
    BY <2>1, <2>3 DEF OnlyFaultsAbandon, Abandoned
  <2> QED BY <2>2, <2>3
<1> QED BY <1>1, <1>3, <1>4, <1>5

LEMMA QuietLets ==
    ASSUME QueueInv, NEW w \in Workers, Lets(w), worker[w].at \notin Holding,
           UNCHANGED <<job, retries, starts, hit, faults>>
    PROVE  QueueInv'
<1>1. faults' \in Nat /\ hit \subseteq hit' /\ hit' \subseteq Rows
  BY DEF QueueInv, TypeOK
<1> QED BY <1>1, LetsKeepsInv

LEMMA KeepsKeepsInv ==
    ASSUME QueueInv, NEW w \in Workers, Keeps(w), UNCHANGED <<job, retries, starts>>,
           faults' \in Nat, hit \subseteq hit', hit' \subseteq Rows
    PROVE  QueueInv'
<1> USE DEF QueueInv
<1>1. TypeOK' /\ HandsHoldRows'
  BY DEF Keeps, TypeOK, HandsHoldRows
<1>2. \A j \in Rows : Holders(j)' = Holders(j) /\ Eager(j)' = Eager(j)
  BY KeepsHolders
<1>3. NoDoubleProcessing'
  <2>1. \A j \in Rows : InHand(j) => InHand(j)'
    BY DEF InHand
  <2> QED BY <1>2, <2>1, HoldersFinite DEF NoDoubleProcessing, TypeOK
<1>4. CallsPaidFor'
  BY <1>2 DEF CallsPaidFor, Due
<1>5. OnlyFaultsAbandon'
  BY <1>2 DEF OnlyFaultsAbandon, Abandoned, TypeOK
<1> QED BY <1>1, <1>3, <1>4, <1>5

-----------------------------------------------------------------------------
(* Steps of one row that change nobody's hands. *)

LEMMA RowKeepsInv ==
    ASSUME QueueInv, NEW j \in Rows, Enqueue(j) \/ DelayPasses(j) \/ retryQueueJob(j)
    PROVE  QueueInv'
<1> USE DEF QueueInv
<1>1. TypeOK'
  <2>1. job[j] \in JobType
    BY DEF TypeOK
  <2>2. \E r \in JobType : job' = [job EXCEPT ![j] = r]
    <3>1. CASE Enqueue(j)
      <4>1. [job[j] EXCEPT !.status = "pending"] \in JobType
        BY <2>1 DEF JobType, Statuses
      <4> QED BY <3>1, <4>1 DEF Enqueue
    <3>2. CASE DelayPasses(j)
      <4>1. [job[j] EXCEPT !.delayed = FALSE] \in JobType
        BY <2>1 DEF JobType
      <4> QED BY <3>2, <4>1 DEF DelayPasses
    <3>3. CASE retryQueueJob(j)
      <4>1. [job[j] EXCEPT !.status = "pending", !.attempts = 0] \in JobType
        BY <2>1 DEF JobType, Statuses
      <4>2. job' = [job EXCEPT ![j] = [job[j] EXCEPT !.status = "pending", !.attempts = 0]]
        BY <3>3 DEF retryQueueJob, TypeOK
      <4> QED BY <4>1, <4>2
    <3> QED BY <3>1, <3>2, <3>3
  <2>3. job' \in [Rows -> JobType]
    BY <2>2 DEF TypeOK
  <2>4. retries' \in [Rows -> Nat] /\ UNCHANGED <<worker, starts, hit, faults>>
    BY DEF TypeOK, Enqueue, DelayPasses, retryQueueJob
  <2> QED BY <2>3, <2>4 DEF TypeOK
<1>2. HandsHoldRows' /\ \A i \in Rows : Holders(i)' = Holders(i) /\ Eager(i)' = Eager(i)
  BY DEF HandsHoldRows, Holders, Eager, Enqueue, DelayPasses, retryQueueJob
<1>3. /\ starts' = starts /\ hit' = hit
      /\ \A i \in Rows : /\ i # j => job'[i] = job[i] /\ retries'[i] = retries[i]
                         /\ job'[i].status = "running" => job[i].status = "running"
      /\ \/ /\ Weight(j)' = Weight(j) /\ Due(j)' = Due(j)
            /\ retries'[j] = retries[j] /\ job'[j].attempts = job[j].attempts
         \/ /\ Weight(j)' = 1 /\ Due(j)' = 1
            /\ retries'[j] = retries[j] + 1 /\ job'[j].attempts = 0
  BY DEF TypeOK, JobType, Enqueue, DelayPasses, retryQueueJob, Weight, Due, InHand
<1>4. \A i \in Rows : Cardinality(Holders(i)) \in Nat /\ Cardinality(Eager(i)) \in Nat
  BY HoldersFinite
<1>5. NoDoubleProcessing'
  <2> SUFFICES ASSUME NEW i \in Rows
               PROVE  (Cardinality(Holders(i)) + Weight(i) <= 1 + retries[i])'
    BY DEF NoDoubleProcessing, Weight
  <2>1. Cardinality(Holders(i)) + Weight(i) <= 1 + retries[i]
    BY DEF NoDoubleProcessing, Weight
  <2>2. Weight(i) \in {0, 1} /\ retries[i] \in Nat
    BY DEF Weight, TypeOK
  <2>3. i # j => Weight(i)' = Weight(i)
    BY <1>3 DEF Weight, InHand
  <2> QED BY <1>2, <1>3, <1>4, <2>1, <2>2, <2>3
<1>6. CallsPaidFor'
  <2> SUFFICES ASSUME NEW i \in Rows
               PROVE  (starts[i] + Due(i) + Cardinality(Eager(i))
                          <= 1 + MAX_RETRIES * retries[i]
                             + (IF job[i].attempts < MAX_RETRIES THEN job[i].attempts
                                                                 ELSE MAX_RETRIES - 1))'
    BY DEF CallsPaidFor
  <2>1. starts[i] + Due(i) + Cardinality(Eager(i))
                          <= 1 + MAX_RETRIES * retries[i]
                             + (IF job[i].attempts < MAX_RETRIES THEN job[i].attempts
                                                                 ELSE MAX_RETRIES - 1)
    BY DEF CallsPaidFor
  <2>2. /\ Due(i) \in {0, 1} /\ retries[i] \in Nat /\ starts[i] \in Nat
        /\ job[i].attempts \in Nat /\ MAX_RETRIES \in Nat /\ MAX_RETRIES >= 1
    BY JobQueueAssumption DEF Due, TypeOK, JobType
  <2>3. CASE i # j
    BY <1>2, <1>3, <2>1, <2>3 DEF Due
  <2>4. CASE i = j /\ retries'[i] = retries[i] + 1 /\ Due(i)' = 1 /\ job'[i].attempts = 0
    <3>1. MAX_RETRIES * (retries[i] + 1) = MAX_RETRIES * retries[i] + MAX_RETRIES
      BY <2>2
    <3>2. MAX_RETRIES * retries[i] \in Nat
      BY <2>2
    <3> QED BY <1>2, <1>3, <1>4, <2>1, <2>2, <2>4, <3>1, <3>2
  <2>5. CASE /\ i = j /\ retries'[i] = retries[i] /\ Due(i)' = Due(i)
             /\ job'[i].attempts = job[i].attempts
    BY <1>2, <1>3, <2>1, <2>5
  <2> QED BY <1>3, <2>3, <2>4, <2>5
<1>7. OnlyFaultsAbandon'
  BY <1>2, <1>3 DEF OnlyFaultsAbandon, Abandoned
<1> QED BY <1>1, <1>2, <1>5, <1>6, <1>7

-----------------------------------------------------------------------------
(* A process claims a row. *)
LEMMA ClaimKeepsInv ==
    ASSUME QueueInv, NEW w \in Workers, Claim(w)
    PROVE  QueueInv'
<1> USE DEF QueueInv
<1>1. PICK j \in Rows :
          /\ job[j].status = "pending"
          /\ job' = [job EXCEPT ![j].status = "running", ![j].attempts = @ + 1]
          /\ hit' = hit \ {j}
          /\ worker' = [worker EXCEPT ![w].at = IF j \in Handled THEN "handler" ELSE "unknown",
                                      ![w].row = j, ![w].attempts = job[j].attempts + 1,
                                      ![w].left = @ - 1]
          /\ starts' = [starts EXCEPT ![j] = IF j \in Handled THEN @ + 1 ELSE @]
  BY DEF Claim, Ready, Take
<1>2. worker[w].at = "claim" /\ worker[w].left >= 1 /\ retries' = retries /\ faults' = faults
  BY DEF Claim, HandsHoldRows
<1> DEFINE n == job[j].attempts + 1
           v == [worker[w] EXCEPT !.at = IF j \in Handled THEN "handler" ELSE "unknown",
                                  !.row = j, !.attempts = n, !.left = @ - 1]
           r == [job[j] EXCEPT !.status = "running", !.attempts = @ + 1]
<1>3. worker[w] \in WorkerType /\ job[j] \in JobType /\ TickJobs \in Nat
  BY JobQueueAssumption DEF TypeOK
<1>4. n \in Nat /\ n = job[j].attempts + 1
  BY <1>3 DEF JobType
<1>5. worker[w].left - 1 \in 0 .. TickJobs
  BY <1>2, <1>3 DEF WorkerType
<1>6. worker' = [worker EXCEPT ![w] = v]
  BY <1>1 DEF TypeOK
<1>7. /\ v \in WorkerType
      /\ v.at \in {"handler", "unknown"} /\ v.row = j /\ v.attempts = n
  BY <1>3, <1>4, <1>5 DEF WorkerType, Places, Holding
<1>8. job' = [job EXCEPT ![j] = r] /\ r \in JobType
  BY <1>1, <1>3 DEF TypeOK, JobType, Statuses
<1>9. r.status = "running" /\ r.attempts = n
  BY <1>3 DEF JobType
<1> HIDE DEF n, v, r
<1>10. /\ worker' \in [Workers -> WorkerType] /\ worker'[w] = v
       /\ \A u \in Workers : u # w => worker'[u] = worker[u]
  BY <1>6, <1>7 DEF TypeOK
<1>11. /\ job' \in [Rows -> JobType] /\ job'[j] = r
       /\ \A i \in Rows : i # j => job'[i] = job[i]
  BY <1>8 DEF TypeOK
<1>12. /\ starts' \in [Rows -> Nat] /\ starts'[j] <= starts[j] + 1
       /\ \A i \in Rows : i # j => starts'[i] = starts[i]
  BY <1>1 DEF TypeOK
<1>13. TypeOK' /\ HandsHoldRows'
  BY <1>1, <1>2, <1>7, <1>10, <1>11, <1>12 DEF TypeOK, HandsHoldRows
<1>14. v.at \in Holding /\ w \notin Holders(j)
  BY <1>2, <1>7 DEF Holding, Holders
<1>15. /\ Holders(j)' = Holders(j) \cup {w}
       /\ \A i \in Rows : i # j => Holders(i)' = Holders(i) /\ Eager(i)' = Eager(i)
       /\ Eager(j)' = IF n < MAX_RETRIES THEN Eager(j) \cup {w} ELSE Eager(j)
  BY <1>2, <1>7, <1>10, <1>14 DEF Holders, Eager, Holding
<1>16. /\ Cardinality(Holders(j) \cup {w}) \in Nat
       /\ Cardinality(Holders(j) \cup {w}) <= Cardinality(Holders(j)) + 1
  BY HoldersFinite, OneMore
<1>17. /\ Cardinality(Eager(j) \cup {w}) \in Nat
       /\ Cardinality(Eager(j) \cup {w}) <= Cardinality(Eager(j)) + 1
  BY HoldersFinite, OneMore
<1>18. Cardinality(Holders(j)) \in Nat /\ Cardinality(Eager(j)) \in Nat
  BY HoldersFinite
<1>19. /\ Weight(j) = 1 /\ Weight(j)' = 0
       /\ Due(j) = 1 /\ Due(j)' = 0
       /\ \A i \in Rows : i # j => Weight(i)' = Weight(i) /\ Due(i)' = Due(i)
  BY <1>1, <1>9, <1>11 DEF Weight, Due, InHand
<1>20. NoDoubleProcessing'
  <2> SUFFICES ASSUME NEW i \in Rows
               PROVE  (Cardinality(Holders(i)) + Weight(i) <= 1 + retries[i])'
    BY DEF NoDoubleProcessing, Weight
  <2>1. Cardinality(Holders(i)) + Weight(i) <= 1 + retries[i]
    BY DEF NoDoubleProcessing, Weight
  <2>2. CASE i # j
    BY <1>2, <1>15, <1>19, <2>1, <2>2
  <2>3. CASE i = j
    <3>1. retries[j] \in Nat
      BY DEF TypeOK
    <3>2. Cardinality(Holders(j))' <= Cardinality(Holders(j)) + 1 /\ Cardinality(Holders(j))' \in Nat
      BY <1>15, <1>16
    <3> QED BY <1>2, <1>18, <1>19, <2>1, <2>3, <3>1, <3>2
  <2> QED BY <2>2, <2>3
<1>21. CallsPaidFor'
  <2> SUFFICES ASSUME NEW i \in Rows
               PROVE  (starts[i] + Due(i) + Cardinality(Eager(i))
                          <= 1 + MAX_RETRIES * retries[i]
                             + (IF job[i].attempts < MAX_RETRIES THEN job[i].attempts
                                                                 ELSE MAX_RETRIES - 1))'
    BY DEF CallsPaidFor
  <2>1. starts[i] + Due(i) + Cardinality(Eager(i))
                          <= 1 + MAX_RETRIES * retries[i]
                             + (IF job[i].attempts < MAX_RETRIES THEN job[i].attempts
                                                                 ELSE MAX_RETRIES - 1)
    BY DEF CallsPaidFor
  <2>2. CASE i # j
    BY <1>2, <1>11, <1>12, <1>15, <1>19, <2>1, <2>2
  <2>3. CASE i = j
    <3>1. /\ retries[j] \in Nat /\ starts[j] \in Nat /\ starts'[j] \in Nat
          /\ MAX_RETRIES \in Nat /\ MAX_RETRIES >= 1 /\ job[j].attempts \in Nat
      BY <1>3, <1>12, JobQueueAssumption DEF TypeOK, JobType
    <3>2. MAX_RETRIES * retries[j] \in Nat
      BY <3>1
    <3>3. CASE n < MAX_RETRIES
      <4>1. Cardinality(Eager(j))' <= Cardinality(Eager(j)) + 1 /\ Cardinality(Eager(j))' \in Nat
        BY <1>15, <1>17, <3>3
      <4> QED BY <1>2, <1>4, <1>9, <1>11, <1>12, <1>18, <1>19, <2>1, <2>3, <3>1, <3>2, <3>3, <4>1
    <3>4. CASE ~ (n < MAX_RETRIES)
      <4>1. Cardinality(Eager(j))' = Cardinality(Eager(j))
        BY <1>15, <3>4
      <4> QED BY <1>2, <1>4, <1>9, <1>11, <1>12, <1>18, <1>19, <2>1, <2>3, <3>1, <3>2, <3>4, <4>1
    <3> QED BY <3>3, <3>4
  <2> QED BY <2>2, <2>3
<1>22. OnlyFaultsAbandon'
  <2> SUFFICES ASSUME NEW i \in Rows, Abandoned(i)'
               PROVE  i \in hit'
    BY DEF OnlyFaultsAbandon
  <2>1. CASE i # j
    BY <1>1, <1>11, <1>15, <2>1 DEF OnlyFaultsAbandon, Abandoned
  <2>2. CASE i = j
    BY <1>15, <2>2 DEF Abandoned
  <2> QED BY <2>1, <2>2
<1> QED BY <1>13, <1>20, <1>21, <1>22

-----------------------------------------------------------------------------
(* A process gives a row a status and lets it go. *)
LEMMA FinishKeepsInv ==
    ASSUME QueueInv, NEW w \in Workers, worker[w].at \in Holding, Lets(w),
           NEW s \in {"pending", "completed", "failed"}, NEW d \in BOOLEAN, Finish(w, s, d),
           s = "pending" => worker[w].attempts < MAX_RETRIES,
           UNCHANGED <<retries, starts>>, faults' \in Nat,
           hit' \in {hit, hit \cup {worker[w].row}}
    PROVE  QueueInv'
<1> USE DEF QueueInv
<1>1. PICK j \in Rows : j = worker[w].row
  BY DEF HandsHoldRows
<1>2. job' = [job EXCEPT ![j].status = s, ![j].delayed = d]
  BY <1>1 DEF Finish
<1>3. job[j] \in JobType
  BY DEF TypeOK
<1>4. [job[j] EXCEPT !.status = s, !.delayed = d] \in JobType
  BY <1>3 DEF JobType, Statuses
<1>5. job' = [job EXCEPT ![j] = [job[j] EXCEPT !.status = s, !.delayed = d]]
  BY <1>2 DEF TypeOK
<1>6. /\ job' \in [Rows -> JobType]
      /\ job'[j] = [job[j] EXCEPT !.status = s, !.delayed = d]
      /\ \A i \in Rows : i # j => job'[i] = job[i]
  BY <1>4, <1>5 DEF TypeOK
<1>7. job'[j].status = s /\ job'[j].attempts = job[j].attempts
  BY <1>3, <1>6 DEF JobType
<1>8. hit' \subseteq Rows /\ \A i \in Rows : i # j => (i \in hit' <=> i \in hit)
  BY <1>1 DEF TypeOK
<1>9. TypeOK' /\ HandsHoldRows'
  BY <1>6, <1>8 DEF Lets, TypeOK, HandsHoldRows
<1>10. /\ \A i \in Rows : Holders(i)' = Holders(i) \ {w} /\ Eager(i)' = Eager(i) \ {w}
       /\ w \in Holders(j) /\ (s = "pending" => w \in Eager(j))
       /\ \A i \in Rows : i # j => w \notin Holders(i) /\ w \notin Eager(i)
  BY <1>1, LetsHolders DEF Holders, Eager
<1>11. \A i \in Rows : i # j => Holders(i)' = Holders(i) /\ Eager(i)' = Eager(i)
  BY <1>10
<1>12. /\ Cardinality(Holders(j) \ {w}) \in Nat
       /\ Cardinality(Holders(j) \ {w}) + 1 = Cardinality(Holders(j))
  BY <1>10, HoldersFinite, OneLess
<1>13. /\ Cardinality(Eager(j) \ {w}) \in Nat
       /\ Cardinality(Eager(j) \ {w}) <= Cardinality(Eager(j))
       /\ s = "pending" => Cardinality(Eager(j) \ {w}) + 1 = Cardinality(Eager(j))
  BY <1>10, HoldersFinite, OneLess
<1>14. Cardinality(Holders(j)) \in Nat /\ Cardinality(Eager(j)) \in Nat
  BY HoldersFinite
<1>15. /\ Weight(j)' \in {0, 1} /\ Weight(j) \in {0, 1}
       /\ Due(j)' = (IF s = "pending" THEN 1 ELSE 0) /\ Due(j) \in {0, 1}
       /\ \A i \in Rows : i # j => Weight(i)' = Weight(i) /\ Due(i)' = Due(i)
  BY <1>6, <1>7, <1>8 DEF Weight, Due, InHand
<1>16. NoDoubleProcessing'
  <2> SUFFICES ASSUME NEW i \in Rows
               PROVE  (Cardinality(Holders(i)) + Weight(i) <= 1 + retries[i])'
    BY DEF NoDoubleProcessing, Weight
  <2>1. Cardinality(Holders(i)) + Weight(i) <= 1 + retries[i] /\ retries[i] \in Nat
    BY DEF NoDoubleProcessing, Weight, TypeOK
  <2>2. CASE i # j
    BY <1>11, <1>15, <2>1, <2>2
  <2>3. CASE i = j
    <3>1. Cardinality(Holders(j))' + 1 = Cardinality(Holders(j)) /\ Cardinality(Holders(j))' \in Nat
      BY <1>10, <1>12
    <3>2. retries' = retries
      OBVIOUS
    <3> QED BY <1>14, <1>15, <2>1, <2>3, <3>1, <3>2
  <2> QED BY <2>2, <2>3
<1>17. CallsPaidFor'
  <2> SUFFICES ASSUME NEW i \in Rows
               PROVE  (starts[i] + Due(i) + Cardinality(Eager(i))
                          <= 1 + MAX_RETRIES * retries[i]
                             + (IF job[i].attempts < MAX_RETRIES THEN job[i].attempts
                                                                 ELSE MAX_RETRIES - 1))'
    BY DEF CallsPaidFor
  <2>1. starts[i] + Due(i) + Cardinality(Eager(i))
                          <= 1 + MAX_RETRIES * retries[i]
                             + (IF job[i].attempts < MAX_RETRIES THEN job[i].attempts
                                                                 ELSE MAX_RETRIES - 1)
    BY DEF CallsPaidFor
  <2>2. CASE i # j
    BY <1>6, <1>11, <1>15, <2>1, <2>2
  <2>3. CASE i = j
    <3>1. /\ Cardinality(Eager(j))' \in Nat
          /\ Cardinality(Eager(j))' <= Cardinality(Eager(j))
          /\ s = "pending" => Cardinality(Eager(j))' + 1 = Cardinality(Eager(j))
      BY <1>10, <1>13
    <3>2. retries' = retries /\ starts' = starts
      OBVIOUS
    <3>3. starts[j] \in Nat /\ retries[j] \in Nat /\ MAX_RETRIES \in Nat /\ job[j].attempts \in Nat
      BY <1>3, JobQueueAssumption DEF TypeOK, JobType
    <3>4. MAX_RETRIES * retries[j] \in Nat
      BY <3>3
    <3> QED BY <1>7, <1>14, <1>15, <2>1, <2>3, <3>1, <3>2, <3>3, <3>4
  <2> QED BY <2>2, <2>3
<1>18. OnlyFaultsAbandon'
  <2> SUFFICES ASSUME NEW i \in Rows, Abandoned(i)'
               PROVE  i \in hit'
    BY DEF OnlyFaultsAbandon
  <2>1. CASE i # j
    BY <1>6, <1>8, <1>11, <2>1 DEF OnlyFaultsAbandon, Abandoned
  <2>2. CASE i = j
    BY <1>7, <2>2 DEF Abandoned
  <2> QED BY <2>1, <2>2
<1> QED BY <1>9, <1>16, <1>17, <1>18

(* A row is claimed, or a run of it completed, and the answer lost: the      *)
(* status says so, no handler is called, nobody takes or lets go the row.    *)
LEMMA LostKeepsInv ==
    ASSUME QueueInv, NEW j \in Rows, TypeOK', HandsHoldRows',
           job'[j].status \in {"running", "completed"}, job'[j].attempts >= job[j].attempts,
           \A i \in Rows : i # j => job'[i] = job[i],
           hit' = hit \cup {j}, UNCHANGED <<retries, starts>>,
           \A i \in Rows : Holders(i)' = Holders(i) /\ Eager(i)' = Eager(i)
    PROVE  QueueInv'
<1> USE DEF QueueInv
<1>1. /\ Weight(j)' = 0 /\ Weight(j) \in {0, 1}
      /\ Due(j)' = 0 /\ Due(j) \in {0, 1}
      /\ \A i \in Rows : i # j => Weight(i)' = Weight(i) /\ Due(i)' = Due(i)
  BY DEF Weight, Due, InHand
<1>2. \A i \in Rows : Cardinality(Holders(i)) \in Nat /\ Cardinality(Eager(i)) \in Nat
  BY HoldersFinite
<1>3. NoDoubleProcessing'
  <2> SUFFICES ASSUME NEW i \in Rows
               PROVE  (Cardinality(Holders(i)) + Weight(i) <= 1 + retries[i])'
    BY DEF NoDoubleProcessing, Weight
  <2>1. Cardinality(Holders(i)) + Weight(i) <= 1 + retries[i] /\ retries[i] \in Nat
    BY DEF NoDoubleProcessing, Weight, TypeOK
  <2>2. Cardinality(Holders(i))' = Cardinality(Holders(i)) /\ retries'[i] = retries[i]
    OBVIOUS
  <2> QED BY <1>1, <1>2, <2>1, <2>2
<1>4. CallsPaidFor'
  <2> SUFFICES ASSUME NEW i \in Rows
               PROVE  (starts[i] + Due(i) + Cardinality(Eager(i))
                          <= 1 + MAX_RETRIES * retries[i]
                             + (IF job[i].attempts < MAX_RETRIES THEN job[i].attempts
                                                                 ELSE MAX_RETRIES - 1))'
    BY DEF CallsPaidFor
  <2>1. starts[i] + Due(i) + Cardinality(Eager(i))
                          <= 1 + MAX_RETRIES * retries[i]
                             + (IF job[i].attempts < MAX_RETRIES THEN job[i].attempts
                                                                 ELSE MAX_RETRIES - 1)
    BY DEF CallsPaidFor
  <2>2. /\ retries[i] \in Nat /\ starts[i] \in Nat /\ job[i].attempts \in Nat
        /\ job'[i].attempts \in Nat /\ MAX_RETRIES \in Nat /\ MAX_RETRIES >= 1
    BY JobQueueAssumption DEF TypeOK, JobType
  <2>3. MAX_RETRIES * retries[i] \in Nat
    BY <2>2
  <2>4. /\ Cardinality(Eager(i))' = Cardinality(Eager(i)) /\ retries'[i] = retries[i]
        /\ starts'[i] = starts[i]
    OBVIOUS
  <2>5. CASE i # j
    BY <1>1, <2>1, <2>4, <2>5
  <2>6. CASE i = j
    BY <1>1, <1>2, <2>1, <2>2, <2>3, <2>4, <2>6
  <2> QED BY <2>5, <2>6
<1>5. OnlyFaultsAbandon'
  BY DEF OnlyFaultsAbandon, Abandoned
<1> QED BY <1>3, <1>4, <1>5

-----------------------------------------------------------------------------
LEMMA QueueStart == ASSUME Init PROVE QueueInv
<1> USE DEF Init, Fresh, Free
<1>1. TypeOK
  BY JobQueueAssumption DEF TypeOK, JobType, Statuses, WorkerType, Places
<1>2. HandsHoldRows /\ \A j \in Rows : Holders(j) = {} /\ Eager(j) = {}
  BY DEF HandsHoldRows, Holders, Eager, Holding
<1>3. \A j \in Rows : Cardinality(Holders(j)) = 0 /\ Cardinality(Eager(j)) = 0
  BY <1>2, FS_EmptySet
<1>4. \A j \in Rows : /\ job[j].status = "none" /\ job[j].attempts = 0
                      /\ retries[j] = 0 /\ starts[j] = 0
  OBVIOUS
<1>5. NoDoubleProcessing
  BY <1>3, <1>4 DEF NoDoubleProcessing
<1>6. CallsPaidFor
  <2>1. MAX_RETRIES \in Nat /\ MAX_RETRIES >= 1 /\ MAX_RETRIES * 0 = 0
    BY JobQueueAssumption
  <2> QED BY <1>3, <1>4, <2>1 DEF CallsPaidFor, Due
<1>7. OnlyFaultsAbandon
  BY DEF OnlyFaultsAbandon, Abandoned
<1> QED BY <1>1, <1>2, <1>5, <1>6, <1>7 DEF QueueInv

(* What the catch writes. *)
LEMMA PutBackFinishes ==
    ASSUME QueueInv, NEW w \in Workers, worker[w].row \in Rows, PutBack(w)
    PROVE  \E s \in {"pending", "completed", "failed"}, d \in BOOLEAN :
              Finish(w, s, d) /\ (s = "pending" => worker[w].attempts < MAX_RETRIES)
<1>1. worker[w].attempts \in Nat /\ MAX_RETRIES \in Nat
  BY JobQueueAssumption DEF QueueInv, TypeOK, WorkerType
<1>2. job[worker[w].row].delayed \in BOOLEAN
  BY DEF QueueInv, TypeOK, JobType
<1>3. CASE worker[w].attempts >= MAX_RETRIES
  BY <1>2, <1>3 DEF PutBack
<1>4. CASE ~ (worker[w].attempts >= MAX_RETRIES)
  <2>1. worker[w].attempts < MAX_RETRIES
    BY <1>1, <1>4
  <2> QED BY <1>4, <2>1 DEF PutBack
<1> QED BY <1>3, <1>4

(* The steps of one worker, one by one. *)
LEMMA WorkKeepsInv ==
    ASSUME QueueInv, NEW w \in Workers, Work(w)
    PROVE  QueueInv'
<1>1. worker[w] \in WorkerType /\ worker \in [Workers -> WorkerType]
  BY DEF QueueInv, TypeOK
<1>2. CASE tick(w)
  <2>1. [worker[w] EXCEPT !.at = "claim", !.left = TickJobs] \in WorkerType
    <3>1. TickJobs \in 0 .. TickJobs /\ "claim" \in Places
      BY JobQueueAssumption DEF Places
    <3> QED BY <1>1, <3>1 DEF WorkerType
  <2>2. worker' = [worker EXCEPT ![w] = [worker[w] EXCEPT !.at = "claim", !.left = TickJobs]]
    BY <1>1, <1>2 DEF tick
  <2>3. /\ [worker[w] EXCEPT !.at = "claim", !.left = TickJobs].at = "claim"
        /\ [worker[w] EXCEPT !.at = "claim", !.left = TickJobs].left = TickJobs
    BY <1>1 DEF WorkerType
  <2>4. TickJobs >= 1 /\ "claim" \notin Holding
    BY JobQueueAssumption DEF Holding
  <2>5. Lets(w)
    BY <2>1, <2>2, <2>3, <2>4 DEF Lets
  <2>6. worker[w].at \notin Holding
    BY <1>2 DEF tick, Holding
  <2> QED BY <1>2, <2>5, <2>6, QuietLets DEF tick
<1>3. CASE Claim(w)
  BY <1>3, ClaimKeepsInv
<1>4. CASE NothingReady(w)
  <2>1. Lets(w) /\ worker[w].at \notin Holding
    BY <1>4, RestLets DEF NothingReady, Holding, QueueInv
  <2> QED BY <1>4, <2>1, QuietLets DEF NothingReady
<1>5. CASE NoHandler(w) \/ Complete(w) \/ Reschedule(w)
  <2>1. /\ worker[w].at \in Holding /\ GoOn(w)
        /\ UNCHANGED <<retries, starts, hit, faults>>
    BY <1>5 DEF NoHandler, Complete, Reschedule, Holding
  <2>2. worker[w].row \in Rows
    BY <2>1 DEF QueueInv, HandsHoldRows
  <2>3. job[worker[w].row].delayed \in BOOLEAN
    BY <2>2 DEF QueueInv, TypeOK, JobType
  <2>4. worker[w].attempts \in Nat /\ MAX_RETRIES \in Nat
    BY <1>1, JobQueueAssumption DEF WorkerType
  <2>5. \E s \in {"pending", "completed", "failed"}, d \in BOOLEAN :
           Finish(w, s, d) /\ (s = "pending" => worker[w].attempts < MAX_RETRIES)
    <3>1. CASE NoHandler(w)
      BY <2>3, <3>1 DEF NoHandler
    <3>2. CASE Complete(w)
      BY <2>3, <3>2 DEF Complete
    <3>3. CASE Reschedule(w)
      BY <2>2, <3>3, PutBackFinishes DEF Reschedule
    <3> QED BY <1>5, <3>1, <3>2, <3>3
  <2>6. Lets(w)
    BY <2>1, RestLets DEF QueueInv
  <2>7. faults' \in Nat /\ hit' \in {hit, hit \cup {worker[w].row}}
    BY <2>1 DEF QueueInv, TypeOK
  <2> QED BY <2>1, <2>5, <2>6, <2>7, FinishKeepsInv
<1>6. CASE HandlerEnds(w)
  <2>1. PICK a \in {"done", "thrown"} : worker' = [worker EXCEPT ![w].at = a]
    BY <1>6 DEF HandlerEnds
  <2>2. worker' = [worker EXCEPT ![w] = [worker[w] EXCEPT !.at = a]]
    BY <1>1, <2>1
  <2>3. [worker[w] EXCEPT !.at = a] \in WorkerType
    BY <1>1 DEF WorkerType, Places, Holding
  <2>4. Keeps(w)
    BY <1>1, <1>6, <2>2, <2>3 DEF Keeps, WorkerType, HandlerEnds, Holding
  <2>5. /\ UNCHANGED <<job, retries, starts>> /\ faults' \in Nat
        /\ hit \subseteq hit' /\ hit' \subseteq Rows
    BY <1>6 DEF HandlerEnds, QueueInv, TypeOK
  <2> QED BY <2>4, <2>5, KeepsKeepsInv
<1>7. CASE startQueueWorker(w)
  <2>1. Lets(w)
    <3>1. worker' = [worker EXCEPT ![w] = Free("idle", 0, FALSE)]
      BY <1>7 DEF startQueueWorker, Fresh
    <3>2. 0 \in 0 .. TickJobs
      BY JobQueueAssumption
    <3> QED BY <3>1, <3>2, FreeLets
  <2>2. worker[w].at \notin Holding
    BY <1>7 DEF startQueueWorker, Holding
  <2> QED BY <1>7, <2>1, <2>2, QuietLets DEF startQueueWorker
<1> QED BY <1>2, <1>3, <1>4, <1>5, <1>6, <1>7 DEF Work

(* The statement that claims a row fails, before or after it is done. *)
LEMMA LostClaimKeepsInv ==
    ASSUME QueueInv, NEW w \in Workers, worker[w].at = "claim", Rest(w),
           UNCHANGED <<job, hit>> \/ \E j \in Ready : Take(j) /\ hit' = hit \cup {j},
           UNCHANGED <<retries, starts>>, faults' \in Nat
    PROVE  QueueInv'
<1>1. Lets(w) /\ worker[w].at \notin Holding
  BY RestLets DEF QueueInv, Holding
<1>2. CASE UNCHANGED <<job, hit>>
  <2>1. hit \subseteq hit' /\ hit' \subseteq Rows
    BY <1>2 DEF QueueInv, TypeOK
  <2> QED BY <1>1, <1>2, <2>1, LetsKeepsInv
<1>3. ASSUME NEW j \in Ready, Take(j), hit' = hit \cup {j}
      PROVE  QueueInv'
  <2>1. j \in Rows /\ job \in [Rows -> JobType] /\ job[j] \in JobType
    BY <1>3 DEF Ready, QueueInv, TypeOK
  <2>a. job[j].attempts + 1 \in Nat
    BY <2>1 DEF JobType
  <2>2. job' = [job EXCEPT ![j] = [job[j] EXCEPT !.status = "running",
                                                !.attempts = job[j].attempts + 1]]
    BY <1>3, <2>1 DEF Take
  <2>3. [job[j] EXCEPT !.status = "running", !.attempts = job[j].attempts + 1] \in JobType
    BY <2>1, <2>a DEF JobType, Statuses
  <2>4. /\ job' \in [Rows -> JobType]
        /\ \A i \in Rows : i # j => job'[i] = job[i]
        /\ job'[j] = [job[j] EXCEPT !.status = "running", !.attempts = job[j].attempts + 1]
    BY <2>1, <2>2, <2>3
  <2>5. job'[j].status \in {"running", "completed"} /\ job'[j].attempts >= job[j].attempts
    BY <2>1, <2>4 DEF JobType
  <2>6. TypeOK' /\ HandsHoldRows'
    BY <1>1, <1>3, <2>1, <2>4 DEF Lets, QueueInv, TypeOK, HandsHoldRows
  <2>7. \A i \in Rows : Holders(i)' = Holders(i) \ {w} /\ Eager(i)' = Eager(i) \ {w}
    BY <1>1, LetsHolders DEF QueueInv
  <2>8. \A i \in Rows : Holders(i)' = Holders(i) /\ Eager(i)' = Eager(i)
    BY <1>1, <2>7 DEF Holders, Eager
  <2> QED BY <1>3, <2>1, <2>4, <2>5, <2>6, <2>8, LostKeepsInv
<1> QED BY <1>2, <1>3

(* The update to completed fails, before or after it is done. *)
LEMMA LostCompletionKeepsInv ==
    ASSUME QueueInv, NEW w \in Workers, worker[w].at = "done",
           worker' = [worker EXCEPT ![w].at = "thrown"],
           \/ UNCHANGED job
           \/ Finish(w, "completed", job[worker[w].row].delayed),
           hit' = hit \cup {worker[w].row}, UNCHANGED <<retries, starts>>, faults' \in Nat
    PROVE  QueueInv'
<1>1. worker[w].at \in Holding /\ worker[w] \in WorkerType /\ worker \in [Workers -> WorkerType]
  BY DEF QueueInv, TypeOK, Holding
<1>2. PICK j \in Rows : j = worker[w].row
  BY <1>1 DEF QueueInv, HandsHoldRows
<1>3. hit \subseteq hit' /\ hit' \subseteq Rows
  BY <1>2 DEF QueueInv, TypeOK
<1>4. Keeps(w)
  <2>1. worker' = [worker EXCEPT ![w] = [worker[w] EXCEPT !.at = "thrown"]]
    BY <1>1
  <2>2. [worker[w] EXCEPT !.at = "thrown"] \in WorkerType
    BY <1>1 DEF WorkerType, Places, Holding
  <2> QED BY <1>1, <2>1, <2>2 DEF Keeps, WorkerType, Holding
<1>5. CASE UNCHANGED job
  BY <1>3, <1>4, <1>5, KeepsKeepsInv
<1>6. CASE Finish(w, "completed", job[worker[w].row].delayed)
  <2>1. job \in [Rows -> JobType] /\ job[j] \in JobType
    BY DEF QueueInv, TypeOK
  <2>2. job' = [job EXCEPT ![j] = [job[j] EXCEPT !.status = "completed", !.delayed = job[j].delayed]]
    BY <1>2, <1>6, <2>1 DEF Finish
  <2>3. [job[j] EXCEPT !.status = "completed", !.delayed = job[j].delayed] \in JobType
    BY <2>1 DEF JobType, Statuses
  <2>4. /\ job' \in [Rows -> JobType]
        /\ \A i \in Rows : i # j => job'[i] = job[i]
        /\ job'[j] = [job[j] EXCEPT !.status = "completed", !.delayed = job[j].delayed]
    BY <2>1, <2>2, <2>3
  <2>5. job'[j].status \in {"running", "completed"} /\ job'[j].attempts >= job[j].attempts
    BY <2>1, <2>4 DEF JobType
  <2>6. TypeOK' /\ HandsHoldRows'
    BY <1>3, <1>4, <2>4 DEF Keeps, QueueInv, TypeOK, HandsHoldRows
  <2>7. \A i \in Rows : Holders(i)' = Holders(i) /\ Eager(i)' = Eager(i)
    BY <1>4, KeepsHolders DEF QueueInv
  <2>8. hit' = hit \cup {j}
    BY <1>2
  <2> QED BY <2>4, <2>5, <2>6, <2>7, <2>8, LostKeepsInv
<1> QED BY <1>5, <1>6

(* An update after which the tick ends fails, before or after it is done. *)
LEMMA LostUpdateKeepsInv ==
    ASSUME QueueInv, NEW w \in Workers, worker[w].at \in {"unknown", "thrown"}, Rest(w),
           \/ UNCHANGED job
           \/ Finish(w, "failed", job[worker[w].row].delayed)
           \/ PutBack(w),
           hit' = hit \cup {worker[w].row}, UNCHANGED <<retries, starts>>, faults' \in Nat
    PROVE  QueueInv'
<1>1. Lets(w) /\ worker[w].at \in Holding /\ worker[w].row \in Rows
  BY RestLets DEF QueueInv, HandsHoldRows, Holding
<1>2. hit \subseteq hit' /\ hit' \subseteq Rows /\ worker[w].row \in hit'
  BY <1>1 DEF QueueInv, TypeOK
<1>3. CASE UNCHANGED job
  BY <1>1, <1>2, <1>3, LetsKeepsInv
<1>4. CASE Finish(w, "failed", job[worker[w].row].delayed) \/ PutBack(w)
  <2>1. job[worker[w].row].delayed \in BOOLEAN
    BY <1>1 DEF QueueInv, TypeOK, JobType
  <2>2. PICK s \in {"pending", "completed", "failed"}, d \in BOOLEAN :
           Finish(w, s, d) /\ (s = "pending" => worker[w].attempts < MAX_RETRIES)
    BY <1>1, <1>4, <2>1, PutBackFinishes
  <2>3. hit' \in {hit, hit \cup {worker[w].row}}
    OBVIOUS
  <2> QED BY <1>1, <2>2, <2>3, FinishKeepsInv
<1> QED BY <1>3, <1>4

LEMMA FaultKeepsInv ==
    ASSUME QueueInv, NEW w \in Workers, StatementFails(w) \/ stopQueueWorker(w) \/ Crash(w)
    PROVE  QueueInv'
<1>1. /\ worker[w] \in WorkerType /\ worker \in [Workers -> WorkerType]
      /\ 0 \in 0 .. TickJobs
  BY JobQueueAssumption DEF QueueInv, TypeOK
<1>2. faults' \in Nat /\ UNCHANGED <<retries, starts>>
  <2>1. faults' = faults + 1 /\ UNCHANGED <<retries, starts>>
    BY DEF StatementFails, stopQueueWorker, Crash
  <2> QED BY <2>1 DEF QueueInv, TypeOK
<1>3. hit \in SUBSET Rows /\ (worker[w].at \in Holding => worker[w].row \in Rows)
  BY DEF QueueInv, TypeOK, HandsHoldRows
<1>4. CASE StatementFails(w)
  <2>1. CASE worker[w].at = "claim"
    BY <1>2, <1>4, <2>1, LostClaimKeepsInv DEF StatementFails
  <2>2. CASE worker[w].at = "done"
    BY <1>2, <1>4, <2>2, LostCompletionKeepsInv DEF StatementFails
  <2>3. CASE worker[w].at \in {"unknown", "thrown"}
    BY <1>2, <1>4, <2>3, LostUpdateKeepsInv DEF StatementFails
  <2> QED BY <1>4, <2>1, <2>2, <2>3 DEF StatementFails
<1>5. CASE stopQueueWorker(w) /\ worker[w].at = "idle"
  <2>1. worker' = [worker EXCEPT ![w] = [worker[w] EXCEPT !.stopping = TRUE, !.at = "down"]]
    BY <1>1, <1>5 DEF stopQueueWorker
  <2>2. [worker[w] EXCEPT !.stopping = TRUE, !.at = "down"] \in WorkerType
    BY <1>1 DEF WorkerType, Places
  <2>3. [worker[w] EXCEPT !.stopping = TRUE, !.at = "down"].at = "down"
    BY <1>1 DEF WorkerType
  <2>4. Lets(w)
    BY <2>1, <2>2, <2>3 DEF Lets, Holding
  <2>5. /\ UNCHANGED job /\ hit \subseteq hit' /\ hit' \subseteq Rows
        /\ worker[w].at \notin Holding
    BY <1>3, <1>5 DEF stopQueueWorker, Holding
  <2> QED BY <1>2, <2>4, <2>5, LetsKeepsInv
<1>6. CASE stopQueueWorker(w) /\ worker[w].at # "idle"
  <2>1. worker' = [worker EXCEPT ![w] = [worker[w] EXCEPT !.stopping = TRUE]]
    BY <1>1, <1>6 DEF stopQueueWorker, WorkerType
  <2>2. [worker[w] EXCEPT !.stopping = TRUE] \in WorkerType
    BY <1>1 DEF WorkerType
  <2>3. Keeps(w)
    BY <1>1, <2>1, <2>2 DEF Keeps, WorkerType
  <2>4. UNCHANGED job /\ hit \subseteq hit' /\ hit' \subseteq Rows
    BY <1>3, <1>6 DEF stopQueueWorker
  <2> QED BY <1>2, <2>3, <2>4, KeepsKeepsInv
<1>7. CASE Crash(w)
  <2>1. Lets(w)
    BY <1>1, <1>7, FreeLets DEF Crash
  <2>2. /\ UNCHANGED job /\ hit \subseteq hit' /\ hit' \subseteq Rows
        /\ worker[w].at \in Holding => worker[w].row \in hit'
    BY <1>3, <1>7 DEF Crash
  <2> QED BY <1>2, <2>1, <2>2, LetsKeepsInv
<1> QED BY <1>4, <1>5, <1>6, <1>7

LEMMA QueueStep ==
    ASSUME QueueInv, [Next]_vars
    PROVE  QueueInv'
<1>1. CASE UNCHANGED vars
  BY <1>1 DEF vars, QueueInv, TypeOK, HandsHoldRows, NoDoubleProcessing, CallsPaidFor, Due,
              OnlyFaultsAbandon, Abandoned, Holders, Eager, InHand
<1>2. CASE Next
  BY <1>2, RowKeepsInv, WorkKeepsInv, FaultKeepsInv DEF Next
<1> QED BY <1>1, <1>2

THEOREM QueueInvariant == Spec => []QueueInv
<1>1. Init => QueueInv
  BY QueueStart
<1>2. QueueInv /\ [Next]_vars => QueueInv'
  BY QueueStep
<1> QED BY <1>1, <1>2, PTL DEF Spec

(* Every row and every worker keeps to its type (queueWorker.js). *)
THEOREM QueueTyped == Spec => []TypeOK
<1>1. QueueInv => TypeOK
  BY DEF QueueInv
<1> QED BY <1>1, QueueInvariant, PTL

(* However many processes run, a row is in the hands of one, and of one more *)
(* for each retry by the staff (queueWorker.js:4-5).                         *)
THEOREM ProcessedByOne == Spec => []NoDoubleProcessing
<1>1. QueueInv => NoDoubleProcessing
  BY DEF QueueInv
<1> QED BY <1>1, QueueInvariant, PTL

(* However crashes, failed statements and retries by the staff interleave,   *)
(* a handler is called MAX_RETRIES times for a row, and as many times more   *)
(* for each retry (queueWorker.js:9-10).                                     *)
THEOREM AttemptsAreBounded == Spec => []AttemptsBounded
<1>1. ASSUME QueueInv, NEW j \in Rows PROVE starts[j] <= MAX_RETRIES * (1 + retries[j])
  <2>1. /\ starts[j] \in Nat /\ retries[j] \in Nat /\ MAX_RETRIES \in Nat /\ MAX_RETRIES >= 1
        /\ job[j].attempts \in Nat /\ Due(j) \in {0, 1}
    BY <1>1, JobQueueAssumption DEF QueueInv, TypeOK, JobType, Due
  <2>2. Cardinality(Eager(j)) \in Nat
    BY HoldersFinite
  <2>3. MAX_RETRIES * (1 + retries[j]) = MAX_RETRIES + MAX_RETRIES * retries[j]
    BY <2>1
  <2>4. MAX_RETRIES * retries[j] \in Nat
    BY <2>1
  <2>5. starts[j] + Due(j) + Cardinality(Eager(j))
            <= 1 + MAX_RETRIES * retries[j]
                 + (IF job[j].attempts < MAX_RETRIES THEN job[j].attempts ELSE MAX_RETRIES - 1)
    BY <1>1 DEF QueueInv, CallsPaidFor
  <2> QED BY <2>1, <2>2, <2>3, <2>4, <2>5
<1>2. QueueInv => AttemptsBounded
  BY <1>1 DEF AttemptsBounded
<1> QED BY <1>2, QueueInvariant, PTL

(* A row is left running in nobody's hands only by a kill or a failed        *)
(* statement that met the row itself.                                        *)
THEOREM RowsAreNotAbandoned == Spec => []OnlyFaultsAbandon
<1>1. QueueInv => OnlyFaultsAbandon
  BY DEF QueueInv
<1> QED BY <1>1, QueueInvariant, PTL

(* A row that is completed or failed changes by a retry of the staff or at   *)
(* the hands of a process that still holds it, and a process still holds it  *)
(* only after an earlier retry or a completion whose answer was lost.        *)
THEOREM SettledRowsStay == Spec => SettledIsFinal
<1>1. ASSUME QueueInv, [Next]_vars, NEW j \in Rows,
             job[j].status \in {"completed", "failed"}, job'[j].status # job[j].status
      PROVE  \/ retries'[j] > retries[j]
             \/ Holders(j) # {} /\ (retries[j] > 0 \/ j \in hit)
  <2>1. /\ retries \in [Rows -> Nat] /\ job \in [Rows -> JobType]
        /\ worker \in [Workers -> WorkerType]
    BY <1>1 DEF QueueInv, TypeOK
  <2>2. CASE UNCHANGED vars
    BY <1>1, <2>2 DEF vars
  <2>3. ASSUME NEW i \in Rows, Enqueue(i) \/ DelayPasses(i) \/ retryQueueJob(i)
        PROVE  retries'[j] > retries[j]
    BY <1>1, <2>1, <2>3 DEF Enqueue, DelayPasses, retryQueueJob, JobType
  <2>4. ASSUME NEW w \in Workers, Work(w) \/ StatementFails(w) \/ stopQueueWorker(w) \/ Crash(w)
        PROVE  w \in Holders(j)
    <3>1. CASE NoHandler(w) \/ Complete(w) \/ Reschedule(w)
      BY <1>1, <2>1, <3>1
      DEF NoHandler, Complete, Reschedule, PutBack, Finish, Holding, Holders
    <3>2. CASE Claim(w)
      BY <1>1, <2>1, <3>2 DEF Claim, Ready, Take
    <3>3. CASE StatementFails(w)
      <4>1. CASE worker[w].at = "claim"
        BY <1>1, <2>1, <3>3, <4>1 DEF StatementFails, Ready, Take
      <4>2. CASE worker[w].at \in {"unknown", "done", "thrown"}
        BY <1>1, <2>1, <3>3, <4>2 DEF StatementFails, PutBack, Finish, Holding, Holders
      <4> QED BY <3>3, <4>1, <4>2 DEF StatementFails
    <3> QED BY <1>1, <2>4, <3>1, <3>2, <3>3
            DEF Work, tick, NothingReady, HandlerEnds, startQueueWorker, stopQueueWorker, Crash
  <2>5. ASSUME NEW w \in Holders(j)
        PROVE  retries[j] > 0 \/ j \in hit
    <3>1. Cardinality(Holders(j)) # 0 /\ Cardinality(Holders(j)) \in Nat
      BY <2>5, HoldersFinite, FS_EmptySet
    <3>2. Cardinality(Holders(j)) + (IF InHand(j) THEN 0 ELSE 1) <= 1 + retries[j]
      BY <1>1 DEF QueueInv, NoDoubleProcessing
    <3>3. retries[j] \in Nat
      BY <2>1
    <3>4. CASE InHand(j)
      BY <1>1, <3>4 DEF InHand
    <3>5. CASE ~ InHand(j)
      BY <3>1, <3>2, <3>3, <3>5
    <3> QED BY <3>4, <3>5
  <2> QED BY <1>1, <2>2, <2>3, <2>4, <2>5 DEF Next
<1>2. QueueInv /\ [Next]_vars =>
          [\A j \in Rows :
             job[j].status \in {"completed", "failed"} /\ job'[j].status # job[j].status =>
                 \/ retries'[j] > retries[j]
                 \/ Holders(j) # {} /\ (retries[j] > 0 \/ j \in hit)]_vars
  BY <1>1
<1> QED BY <1>2, QueueInvariant, PTL DEF Spec, SettledIsFinal
=============================================================================
