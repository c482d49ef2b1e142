-------------------------- MODULE WebhookDelivery ---------------------------
(***************************************************************************)
(* The webhook worker.  A timer starts processBatch every five seconds,    *)
(* whether or not the previous batch has come back: a batch reads the due  *)
(* rows once, then posts them one after the other, each with a timeout of  *)
(* five seconds, and records each outcome in webhook_delivery_queue.       *)
(* Between two awaits of a batch anything else may run: another batch that *)
(* read the same rows, the administrator's retry, or the end of the        *)
(* process, which loses the batches and keeps the queue.                   *)
(*                                                                         *)
(* Time is abstract: next_retry_at is past (due) or not.                   *)
(***************************************************************************)
EXTENDS Naturals, FiniteSets

CONSTANTS
  Rows,          \* ids of queue rows, in insertion order: 1..n
  Unreachable,   \* rows whose target account has no agent_endpoint
  Batches,       \* bound: batches that can be under way at a time
  BatchSize,     \* rows a batch takes
  MaxAttempts,   \* max_attempts
  MaxFaults,     \* bound: crashes and half-sent answers
  MaxRetries     \* bound: retries by the administrator

None == 0

ASSUME QueueAssumption ==
  /\ Rows \subseteq Nat \ {None}
  /\ Unreachable \subseteq Rows
  /\ BatchSize \in Nat \ {0} /\ MaxAttempts \in Nat \ {0}
  /\ MaxFaults \in Nat /\ MaxRetries \in Nat

ASSUME FinitelyManyBatches == IsFiniteSet(Batches)

VARIABLES
  status,     \* row -> "absent" before its insert, then the status column
  attempts,   \* row -> attempt_count
  due,        \* row -> next_retry_at is NULL or past
  todo,       \* batch -> rows it read and has not come to yet
  inflight,   \* batch -> the row it is posting, or None
  acked,      \* rows some receiver answered with a complete 2xx
  faults,     \* crashes and half-sent answers so far
  retries     \* administrator's retries so far

queue == <<status, attempts, due>>
batch == <<todo, inflight>>
vars  == <<queue, batch, acked, faults, retries>>

Init ==
  /\ status = [i \in Rows |-> "absent"]
  /\ attempts = [i \in Rows |-> 0]
  /\ due = [i \in Rows |-> TRUE]
  /\ todo = [b \in Batches |-> {}]
  /\ inflight = [b \in Batches |-> None]
  /\ acked = {}
  /\ faults = 0
  /\ retries = 0

settled(i) == status[i] \in {"success", "dead_letter"}
busy(b)    == todo[b] # {} \/ inflight[b] # None
\* Batch b read row i and has not recorded an outcome for it.
holds(b, i) == i \in todo[b] \/ inflight[b] = i

-----------------------------------------------------------------------------
(* The queue's statements.                                                 *)

Enqueue(i) ==
  /\ status[i] = "absent"
  /\ \A k \in Rows : k < i => status[k] # "absent"
  /\ status' = [status EXCEPT ![i] = "pending"]
  /\ UNCHANGED <<attempts, due, batch, acked, faults, retries>>

\* Mutant: dead letters whose time has come are taken again.
fetchPending_unsettled == {i \in Rows : status[i] \in {"pending", "dead_letter"} /\ due[i]}

fetchPending == {i \in Rows : status[i] = "pending" /\ due[i]}

markSuccess(i) ==
  /\ status' = [status EXCEPT ![i] = "success"]
  /\ UNCHANGED <<attempts, due>>

\* Mutant: one attempt too many is allowed.
markFailed_offByOne(i) ==
  /\ attempts' = [attempts EXCEPT ![i] = @ + 1]
  /\ due' = [due EXCEPT ![i] = FALSE]
  /\ status' = [status EXCEPT ![i] =
                  IF attempts[i] >= MaxAttempts THEN "dead_letter" ELSE "pending"]

\* Mutant: a failed row always goes back to the queue.
markFailed_forever(i) ==
  /\ attempts' = [attempts EXCEPT ![i] = IF @ < MaxAttempts THEN @ + 1 ELSE @]
  /\ due' = [due EXCEPT ![i] = FALSE]
  /\ status' = [status EXCEPT ![i] = "pending"]

\* One UPDATE, whatever the row has become since the batch read it.
markFailed(i) ==
  /\ attempts' = [attempts EXCEPT ![i] = @ + 1]
  /\ due' = [due EXCEPT ![i] = FALSE]
  /\ status' = [status EXCEPT ![i] =
                  IF attempts[i] + 1 >= MaxAttempts THEN "dead_letter" ELSE "pending"]

\* next_retry_at comes to lie in the past.
Elapse(i) ==
  /\ ~due[i]
  /\ due' = [due EXCEPT ![i] = TRUE]
  /\ UNCHANGED <<status, attempts, batch, acked, faults, retries>>

-----------------------------------------------------------------------------
(* The worker.                                                             *)

\* Mutant: the batch marks what it takes in_flight, and nothing reads that back.
Tick_claims(b) ==
  /\ ~busy(b)
  /\ fetchPending # {}
  /\ todo' = [todo EXCEPT ![b] = fetchPending]
  /\ status' = [i \in Rows |-> IF i \in fetchPending THEN "in_flight" ELSE status[i]]
  /\ UNCHANGED <<attempts, due, inflight, acked, faults, retries>>

Tick(b) ==
  /\ ~busy(b)
  /\ fetchPending # {}
  /\ todo' = [todo EXCEPT ![b] =
       {i \in fetchPending : Cardinality({k \in fetchPending : k < i}) < BatchSize}]
  /\ UNCHANGED <<queue, inflight, acked, faults, retries>>

\* The batch comes to row i, the first of those left.
turn(b, i) ==
  /\ inflight[b] = None
  /\ i \in todo[b]
  /\ \A k \in todo[b] : i <= k
  /\ todo' = [todo EXCEPT ![b] = @ \ {i}]

NoEndpoint(b, i) ==
  /\ turn(b, i)
  /\ i \in Unreachable
  /\ markFailed(i)
  /\ UNCHANGED <<inflight, acked, faults, retries>>

\* The row is not read again before it is posted.
Post(b, i) ==
  /\ turn(b, i)
  /\ i \notin Unreachable
  /\ inflight' = [inflight EXCEPT ![b] = i]
  /\ UNCHANGED <<queue, acked, faults, retries>>

Delivered(b, i) ==
  /\ inflight[b] = i
  /\ inflight' = [inflight EXCEPT ![b] = None]
  /\ acked' = acked \union {i}
  /\ markSuccess(i)
  /\ UNCHANGED <<todo, faults, retries>>

\* Mutant: an error status resolves the promise like a 2xx.
Failed_resolves(b, i) ==
  /\ inflight[b] = i
  /\ inflight' = [inflight EXCEPT ![b] = None]
  /\ markSuccess(i)
  /\ UNCHANGED <<todo, acked, faults, retries>>

\* An error status, a connection error or the timeout; the receiver may have
\* acted on the request all the same.
Failed(b, i) ==
  /\ inflight[b] = i
  /\ inflight' = [inflight EXCEPT ![b] = None]
  /\ markFailed(i)
  /\ UNCHANGED <<todo, acked, faults, retries>>

\* A 2xx whose body is cut short never emits "end": the promise stays pending
\* and the batch is never heard of again.
HalfAnswered(b, i) ==
  /\ faults < MaxFaults
  /\ faults' = faults + 1
  /\ inflight[b] = i
  /\ inflight' = [inflight EXCEPT ![b] = None]
  /\ todo' = [todo EXCEPT ![b] = {}]
  /\ UNCHANGED <<queue, acked, retries>>

Crash ==
  /\ faults < MaxFaults
  /\ \E b \in Batches : busy(b)
  /\ faults' = faults + 1
  /\ todo' = [b \in Batches |-> {}]
  /\ inflight' = [b \in Batches |-> None]
  /\ UNCHANGED <<queue, acked, retries>>

\* The administrator sends a dead letter again, from attempt zero.
Retry(i) ==
  /\ retries < MaxRetries
  /\ retries' = retries + 1
  /\ status[i] = "dead_letter"
  /\ status' = [status EXCEPT ![i] = "pending"]
  /\ attempts' = [attempts EXCEPT ![i] = 0]
  /\ due' = [due EXCEPT ![i] = TRUE]
  /\ UNCHANGED <<batch, acked, faults>>

Outcome(b) == \E i \in Rows : Delivered(b, i) \/ Failed(b, i)
Proceed(b) == \E i \in Rows : NoEndpoint(b, i) \/ Post(b, i)

Next ==
  \/ \E i \in Rows : Enqueue(i) \/ Elapse(i) \/ Retry(i)
  \/ \E b \in Batches : \/ Tick(b) \/ Proceed(b) \/ Outcome(b)
                        \/ \E i \in Rows : HalfAnswered(b, i)
  \/ Crash

Spec == Init /\ [][Next]_vars

\* The timer keeps firing, a batch goes on to its next row, a request ends in
\* an answer, an error or the timeout, and time passes.  Nobody has to queue a
\* row or retry one.
Fairness ==
  /\ \A b \in Batches : WF_vars(Tick(b)) /\ WF_vars(Proceed(b)) /\ WF_vars(Outcome(b))
  /\ \A i \in Rows : WF_vars(Elapse(i))

FairSpec == Spec /\ Fairness

-----------------------------------------------------------------------------
(* Properties.                                                             *)

\* Rows, counters and batches have their types; no row is ever "in_flight", a
\* status the schema knows and the worker does not write.
TypeOK ==
  /\ status \in [Rows -> {"absent", "pending", "success", "dead_letter"}]
  /\ attempts \in [Rows -> Nat]
  /\ due \in [Rows -> BOOLEAN]
  /\ todo \in [Batches -> SUBSET Rows]
  /\ inflight \in [Batches -> Rows \union {None}]
  /\ acked \subseteq Rows
  /\ faults \in 0..MaxFaults
  /\ retries \in 0..MaxRetries

\* A row is reported delivered only if a receiver did answer 2xx, and never
\* when its account had nowhere to send it to.
SuccessWasAcked ==
  \A i \in Rows : status[i] = "success" => i \in acked /\ i \notin Unreachable

\* A row waits exactly while it has attempts left: whichever batch, late or
\* not, counts the last failure, the row is a dead letter and stays out of
\* reach of the next batch.
PendingHasAttemptsLeft ==
  \A i \in Rows :
    /\ status[i] = "pending" => attempts[i] < MaxAttempts
    /\ status[i] = "dead_letter" => attempts[i] >= MaxAttempts

\* Overlapping batches can each count one failure more than max_attempts
\* allows, and no more than that.
OvershootIsBounded ==
  \A i \in Rows : attempts[i] < MaxAttempts + Cardinality(Batches)

\* Every queued row comes to rest as delivered or as a dead letter, however
\* the batches overlap, and whatever is lost in finitely many crashes.
EventuallyAllSettled ==
  <>[](\A i \in Rows : status[i] # "absent" => settled(i))

\* "3 retries ..., failure goes to dead_letter": after its first attempt a row
\* is tried max_attempts times more at most, even if that first one does not
\* count among them.
AtMostMaxRetries == \A i \in Rows : attempts[i] <= MaxAttempts + 1
=============================================================================
