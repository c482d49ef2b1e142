----------------------- MODULE WebhookDelivery_proofs -----------------------
(***************************************************************************)
(* What the delivery queue promises for any number of rows, overlapping    *)
(* batches, crashes and retries.                                           *)
(***************************************************************************)
EXTENDS WebhookDelivery, TLAPS, FiniteSetTheorems

holders(i) == {b \in Batches : holds(b, i)}

\* The inductive invariant.  A row nobody queued has no history; a batch posts
\* rows that have somewhere to go and none of them twice; and every outcome
\* still to be recorded for a row is accounted for in the bound: a failure
\* takes a holder away and adds an attempt.
Fresh == \A i \in Rows : status[i] = "absent" => attempts[i] = 0 /\ holders(i) = {}

Posted == \A b \in Batches : inflight[b] \notin Unreachable /\ inflight[b] \notin todo[b]

Accounted ==
  \A i \in Rows : attempts[i] + Cardinality(holders(i)) < MaxAttempts + Cardinality(Batches)

IInv ==
  TypeOK /\ SuccessWasAcked /\ PendingHasAttemptsLeft /\ Fresh /\ Posted /\ Accounted

LEMMA NoneIsNoRow == None \notin Rows /\ None \notin Unreachable
  BY QueueAssumption DEF None

\* Any set of batches is finite and no larger than all of them.
LEMMA SomeBatches ==
  ASSUME NEW S \in SUBSET Batches
  PROVE  /\ IsFiniteSet(S)
         /\ Cardinality(S) \in Nat /\ Cardinality(Batches) \in Nat
         /\ Cardinality(S) <= Cardinality(Batches)
  BY FinitelyManyBatches, FS_Subset, FS_CardinalityType

LEMMA InitEstablishes == Init => IInv
  <1> SUFFICES ASSUME Init PROVE IInv
    OBVIOUS
  <1>1. TypeOK /\ SuccessWasAcked /\ PendingHasAttemptsLeft /\ Posted
    BY QueueAssumption, NoneIsNoRow
       DEF Init, TypeOK, SuccessWasAcked, PendingHasAttemptsLeft, Posted
  <1>2. ASSUME NEW i \in Rows PROVE holders(i) = {} /\ attempts[i] = 0
    BY NoneIsNoRow DEF Init, holders, holds
  <1>3. Accounted
    BY <1>2, SomeBatches, FS_EmptySet, QueueAssumption DEF Accounted
  <1> QED
    BY <1>1, <1>2, <1>3 DEF IInv, Fresh

\* The bound only tightens when a row's counter stays and batches let go of it.
LEMMA LettingGo ==
  ASSUME IInv, NEW i \in Rows, holders(i)' \subseteq holders(i), attempts'[i] = attempts[i]
  PROVE  attempts'[i] + Cardinality(holders(i)') < MaxAttempts + Cardinality(Batches)
  <1>1. holders(i) \in SUBSET Batches
    BY DEF holders
  <1>2. Cardinality(holders(i)') <= Cardinality(holders(i))
    BY <1>1, SomeBatches, FS_Subset
  <1>3. Cardinality(holders(i)') \in Nat /\ Cardinality(holders(i)) \in Nat
    BY <1>1, SomeBatches
  <1>4. attempts[i] \in Nat /\ Cardinality(Batches) \in Nat /\ MaxAttempts \in Nat
    BY SomeBatches, QueueAssumption DEF IInv, TypeOK
  <1> QED
    BY <1>2, <1>3, <1>4 DEF IInv, Accounted

\* A row with attempts left has room for every batch there is.
LEMMA RoomForAll ==
  ASSUME IInv, NEW i \in Rows, attempts'[i] \in Nat, attempts'[i] < MaxAttempts
  PROVE  attempts'[i] + Cardinality(holders(i)') < MaxAttempts + Cardinality(Batches)
  <1>1. holders(i)' \in SUBSET Batches
    BY DEF holders
  <1> QED
    BY <1>1, SomeBatches, QueueAssumption

\* The outcome of batch b for row i is a failure: b has let go of i, and the
\* row waits or is a dead letter as its counter says.
LEMMA FailurePreserves ==
  ASSUME IInv, NEW b \in Batches, NEW i \in Rows, holds(b, i), markFailed(i),
         todo' = [todo EXCEPT ![b] = @ \ {i}],
         inflight' \in [Batches -> Rows \union {None}],
         inflight'[b] = None,
         \A a \in Batches \ {b} : inflight'[a] = inflight[a],
         \A k \in Rows \ {i} : holders(k)' \subseteq holders(k),
         UNCHANGED <<acked, faults, retries>>
  PROVE  IInv'
  <1>1. attempts'[i] = attempts[i] + 1 /\ attempts[i] \in Nat
    BY DEF markFailed, IInv, TypeOK
  <1>2. status'[i] = IF attempts[i] + 1 >= MaxAttempts THEN "dead_letter" ELSE "pending"
    BY DEF markFailed, IInv, TypeOK
  <1>3. \A k \in Rows \ {i} : status'[k] = status[k] /\ attempts'[k] = attempts[k]
    BY DEF markFailed, IInv, TypeOK
  <1>4. TypeOK'
    <2>1. todo' \in [Batches -> SUBSET Rows]
      BY DEF IInv, TypeOK
    <2> QED
      BY <2>1 DEF markFailed, IInv, TypeOK
  <1>5. SuccessWasAcked'
    BY <1>2, <1>3 DEF IInv, SuccessWasAcked
  <1>6. PendingHasAttemptsLeft'
    BY <1>1, <1>2, <1>3, QueueAssumption DEF IInv, PendingHasAttemptsLeft
  <1>7. Fresh'
    BY <1>2, <1>3 DEF IInv, Fresh
  <1>8. Posted'
    BY NoneIsNoRow, <1>4 DEF IInv, Posted, TypeOK
  <1>9. Accounted'
    <2>1. holders(i)' \subseteq holders(i) \ {b} /\ b \in holders(i)
      BY NoneIsNoRow DEF IInv, TypeOK, holders, holds
    <2>2. holders(i) \in SUBSET Batches
      BY DEF holders
    <2>3. /\ Cardinality(holders(i) \ {b}) = Cardinality(holders(i)) - 1
          /\ IsFiniteSet(holders(i) \ {b})
      BY <2>1, <2>2, SomeBatches, FS_RemoveElement
    <2>4. Cardinality(holders(i)') <= Cardinality(holders(i) \ {b})
          /\ Cardinality(holders(i)') \in Nat
      BY <2>1, <2>3, FS_Subset, FS_CardinalityType
    <2>5. Cardinality(holders(i)) \in Nat /\ Cardinality(Batches) \in Nat
      BY <2>2, SomeBatches
    <2>6. attempts'[i] + Cardinality(holders(i)') < MaxAttempts + Cardinality(Batches)
      BY <1>1, <2>3, <2>4, <2>5, QueueAssumption DEF IInv, Accounted
    <2>7. ASSUME NEW k \in Rows \ {i}
          PROVE  attempts'[k] + Cardinality(holders(k)') < MaxAttempts + Cardinality(Batches)
      BY <1>3, LettingGo
    <2> QED
      BY <2>6, <2>7 DEF Accounted
  <1> QED
    BY <1>4, <1>5, <1>6, <1>7, <1>8, <1>9 DEF IInv

\* A batch takes pending rows, which have attempts left.
LEMMA TickStep ==
  ASSUME IInv, NEW b \in Batches, Tick(b)
  PROVE  IInv'
  <1>1. TypeOK' /\ SuccessWasAcked' /\ PendingHasAttemptsLeft'
    BY DEF Tick, fetchPending, queue, IInv, TypeOK, SuccessWasAcked, PendingHasAttemptsLeft
  <1>2. ASSUME NEW i \in Rows PROVE holders(i)' \subseteq holders(i) \/ status[i] = "pending"
    BY DEF Tick, fetchPending, holders, holds, IInv, TypeOK
  <1>3. Fresh'
    BY <1>2 DEF Tick, queue, Fresh, IInv
  <1>4. Posted'
    BY NoneIsNoRow DEF Tick, busy, fetchPending, Posted, IInv, TypeOK
  <1>5. ASSUME NEW i \in Rows
        PROVE  attempts'[i] + Cardinality(holders(i)') < MaxAttempts + Cardinality(Batches)
    <2>1. attempts'[i] = attempts[i] /\ attempts[i] \in Nat
      BY DEF Tick, queue, IInv, TypeOK
    <2>2. CASE holders(i)' \subseteq holders(i)
      BY <2>1, <2>2, LettingGo
    <2>3. CASE status[i] = "pending"
      BY <2>1, <2>3, RoomForAll DEF IInv, PendingHasAttemptsLeft
    <2> QED
      BY <1>2, <2>2, <2>3
  <1> QED
    BY <1>1, <1>3, <1>4, <1>5 DEF IInv, Accounted

\* Steps that record no failure and take no rows.
LEMMA QuietStep ==
  ASSUME IInv, TypeOK', SuccessWasAcked', PendingHasAttemptsLeft', Posted',
         UNCHANGED attempts,
         \A i \in Rows : holders(i)' \subseteq holders(i),
         \A i \in Rows : status'[i] = "absent" => status[i] = "absent"
  PROVE  IInv'
  <1>1. Accounted'
    BY LettingGo DEF Accounted
  <1>2. Fresh'
    BY DEF Fresh, IInv
  <1> QED
    BY <1>1, <1>2 DEF IInv

LEMMA ProceedStep ==
  ASSUME IInv, NEW b \in Batches, Proceed(b)
  PROVE  IInv'
  <1>1. ASSUME NEW i \in Rows, NoEndpoint(b, i) PROVE IInv'
    <2>1. holds(b, i) /\ todo' = [todo EXCEPT ![b] = @ \ {i}] /\ inflight[b] = None
      BY <1>1 DEF NoEndpoint, turn, holds
    <2>2. \A k \in Rows \ {i} : holders(k)' \subseteq holders(k)
      BY <1>1, <2>1 DEF NoEndpoint, holders, holds, IInv, TypeOK
    <2> QED
      BY <1>1, <2>1, <2>2, FailurePreserves DEF NoEndpoint, IInv, TypeOK
  <1>2. ASSUME NEW i \in Rows, Post(b, i) PROVE IInv'
    <2>1. TypeOK' /\ SuccessWasAcked' /\ PendingHasAttemptsLeft' /\ Posted'
      BY <1>2 DEF Post, turn, queue, IInv, TypeOK, SuccessWasAcked, PendingHasAttemptsLeft,
         Posted
    <2>2. \A k \in Rows : holders(k)' \subseteq holders(k)
      BY <1>2 DEF Post, turn, holders, holds, IInv, TypeOK
    <2> QED
      BY <1>2, <2>1, <2>2, QuietStep DEF Post, queue
  <1> QED
    BY <1>1, <1>2 DEF Proceed

LEMMA OutcomeStep ==
  ASSUME IInv, NEW b \in Batches, NEW i \in Rows,
         Delivered(b, i) \/ Failed(b, i) \/ HalfAnswered(b, i)
  PROVE  IInv'
  <1>1. inflight[b] = i /\ i \notin todo[b] /\ i \notin Unreachable
    BY DEF Delivered, Failed, HalfAnswered, IInv, Posted
  <1>2. \A k \in Rows : holders(k)' \subseteq holders(k)
    BY NoneIsNoRow DEF Delivered, Failed, HalfAnswered, holders, holds, IInv, TypeOK
  <1>3. CASE Delivered(b, i)
    <2>1. TypeOK' /\ SuccessWasAcked' /\ PendingHasAttemptsLeft' /\ Posted'
      BY <1>1, <1>3, NoneIsNoRow DEF Delivered, markSuccess, IInv, TypeOK, SuccessWasAcked,
         PendingHasAttemptsLeft, Posted
    <2> QED
      BY <1>2, <1>3, <2>1, QuietStep DEF Delivered, markSuccess, IInv, TypeOK
  <1>4. CASE Failed(b, i)
    <2>1. todo' = [todo EXCEPT ![b] = @ \ {i}]
      BY <1>1, <1>4 DEF Failed, IInv, TypeOK
    <2>2. holds(b, i) /\ markFailed(i) /\ UNCHANGED <<acked, faults, retries>>
      BY <1>1, <1>4 DEF Failed, holds
    <2>3. /\ inflight' \in [Batches -> Rows \union {None}]
          /\ inflight'[b] = None
          /\ \A a \in Batches \ {b} : inflight'[a] = inflight[a]
      BY <1>4 DEF Failed, IInv, TypeOK
    <2> QED
      BY <1>2, <2>1, <2>2, <2>3, FailurePreserves
  <1>5. CASE HalfAnswered(b, i)
    <2>1. TypeOK' /\ SuccessWasAcked' /\ PendingHasAttemptsLeft' /\ Posted'
      BY <1>5, NoneIsNoRow, QueueAssumption DEF HalfAnswered, queue, IInv, TypeOK,
         SuccessWasAcked, PendingHasAttemptsLeft, Posted
    <2> QED
      BY <1>2, <1>5, <2>1, QuietStep DEF HalfAnswered, queue
  <1> QED
    BY <1>3, <1>4, <1>5

\* Queueing, waiting and the administrator's retry: no batch is involved.
LEMMA QueueStep ==
  ASSUME IInv, NEW i \in Rows, Enqueue(i) \/ Elapse(i) \/ Retry(i)
  PROVE  IInv'
  <1>1. \A k \in Rows : holders(k)' = holders(k)
    BY DEF Enqueue, Elapse, Retry, batch, holders, holds
  <1>2. TypeOK' /\ SuccessWasAcked' /\ Posted'
    <2>1. UNCHANGED <<todo, inflight, acked, faults>>
      BY DEF Enqueue, Elapse, Retry, batch
    <2>2. retries' \in 0..MaxRetries
      BY QueueAssumption DEF Enqueue, Elapse, Retry, IInv, TypeOK
    <2>3. /\ status' \in [Rows -> {"absent", "pending", "success", "dead_letter"}]
          /\ attempts' \in [Rows -> Nat]
          /\ due' \in [Rows -> BOOLEAN]
          /\ \A k \in Rows : status'[k] = "success" => status[k] = "success"
      <3>1. CASE Enqueue(i)
        BY <3>1 DEF Enqueue, IInv, TypeOK
      <3>2. CASE Elapse(i)
        BY <3>2 DEF Elapse, IInv, TypeOK
      <3>3. CASE Retry(i)
        BY <3>3 DEF Retry, IInv, TypeOK
      <3> QED
        BY <3>1, <3>2, <3>3
    <2> QED
      BY <2>1, <2>2, <2>3 DEF IInv, TypeOK, SuccessWasAcked, Posted
  <1>3. CASE Enqueue(i) \/ Elapse(i)
    <2>1. PendingHasAttemptsLeft'
      BY <1>3, QueueAssumption
         DEF Enqueue, Elapse, batch, IInv, TypeOK, PendingHasAttemptsLeft, Fresh
    <2>2. \A k \in Rows : status'[k] = "absent" => status[k] = "absent"
      BY <1>3 DEF Enqueue, Elapse, IInv, TypeOK
    <2>3. UNCHANGED attempts
      BY <1>3 DEF Enqueue, Elapse
    <2> QED
      BY <1>1, <1>2, <2>1, <2>2, <2>3, QuietStep
  <1>4. CASE Retry(i)
    <2>1. /\ attempts'[i] = 0 /\ status'[i] = "pending"
          /\ \A k \in Rows \ {i} : attempts'[k] = attempts[k] /\ status'[k] = status[k]
      BY <1>4 DEF Retry, IInv, TypeOK
    <2>2. PendingHasAttemptsLeft'
      BY <2>1, QueueAssumption DEF IInv, PendingHasAttemptsLeft
    <2>3. Fresh'
      BY <1>1, <2>1 DEF IInv, Fresh
    <2>4. attempts'[i] + Cardinality(holders(i)') < MaxAttempts + Cardinality(Batches)
      BY <2>1, RoomForAll, QueueAssumption
    <2>5. Accounted'
      BY <1>1, <2>1, <2>4, LettingGo DEF Accounted
    <2> QED
      BY <1>2, <2>2, <2>3, <2>5 DEF IInv
  <1> QED
    BY <1>3, <1>4

LEMMA StepPreserves == IInv /\ [Next]_vars => IInv'
  <1> SUFFICES ASSUME IInv, [Next]_vars PROVE IInv'
    OBVIOUS
  <1>1. CASE Crash \/ UNCHANGED vars
    <2>1. TypeOK' /\ SuccessWasAcked' /\ PendingHasAttemptsLeft' /\ Posted'
      <3>1. UNCHANGED <<status, attempts, due, acked, retries>>
        BY <1>1 DEF Crash, vars, queue
      <3>2. todo' \in [Batches -> SUBSET Rows] /\ faults' \in 0..MaxFaults
        BY <1>1, QueueAssumption DEF Crash, vars, batch, IInv, TypeOK
      <3>3. /\ inflight' \in [Batches -> Rows \union {None}]
            /\ \A b \in Batches :
                 \/ inflight'[b] = None
                 \/ inflight'[b] = inflight[b] /\ todo'[b] = todo[b]
        BY <1>1 DEF Crash, vars, batch, IInv, TypeOK
      <3>4. Posted'
        BY <3>2, <3>3, NoneIsNoRow DEF IInv, Posted
      <3> QED
        BY <3>1, <3>2, <3>3, <3>4 DEF IInv, TypeOK, SuccessWasAcked, PendingHasAttemptsLeft
    <2>2. \A k \in Rows : holders(k)' \subseteq holders(k)
      BY <1>1, NoneIsNoRow DEF Crash, vars, batch, holders, holds
    <2> QED
      BY <1>1, <2>1, <2>2, QuietStep DEF Crash, vars, queue
  <1>2. ASSUME NEW b \in Batches,
               \/ Tick(b) \/ Proceed(b) \/ Outcome(b)
               \/ \E i \in Rows : HalfAnswered(b, i)
        PROVE  IInv'
    BY <1>2, TickStep, ProceedStep, OutcomeStep DEF Outcome
  <1> QED
    BY <1>1, <1>2, QueueStep DEF Next

\* The queue's invariant, for any number of rows, batches, crashes and retries.
THEOREM Invariance == Spec => []IInv
  BY InitEstablishes, StepPreserves, PTL DEF Spec

\* Rows, counters and batches keep their types; a row is never "in_flight".
THEOREM TypeCorrect == Spec => []TypeOK
  BY Invariance, PTL DEF IInv

\* markSuccess runs only after a complete 2xx: no overlap of batches, crash or
\* retry reports a row delivered that no receiver acknowledged.
THEOREM SuccessIsAcknowledged == Spec => []SuccessWasAcked
  BY Invariance, PTL DEF IInv

\* The status a failure writes fits the counter it writes, so a dead letter is
\* never fetched and a pending row always has attempts left.
THEOREM StatusFitsAttempts == Spec => []PendingHasAttemptsLeft
  BY Invariance, PTL DEF IInv

\* The price of overlapping batches: at most one more attempt for each of them.
THEOREM OvershootBound == Spec => []OvershootIsBounded
  <1>1. IInv => OvershootIsBounded
    <2> SUFFICES ASSUME IInv, NEW i \in Rows
                 PROVE  attempts[i] < MaxAttempts + Cardinality(Batches)
      BY DEF OvershootIsBounded
    <2>1. holders(i) \in SUBSET Batches
      BY DEF holders
    <2> QED
      BY <2>1, SomeBatches, QueueAssumption DEF IInv, Accounted, TypeOK
  <1> QED
    BY <1>1, Invariance, PTL
=============================================================================
