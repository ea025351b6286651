----------------------------- MODULE Admission ------------------------------
(***************************************************************************)
(* AdmissionController for one routed model: the sequence-concurrency gate *)
(* (gate 1), the batch-waiter cap, the KV-reservation tracker, and the     *)
(* permit and reservation life cycle of admit() and release().             *)
(*                                                                         *)
(* The process runs one event loop, so an action is what one coroutine     *)
(* does between two suspensions.  The only suspension of admit() is        *)
(* wait_for(sem.acquire(), timeout): the states in between are those of    *)
(* asyncio's BoundedSemaphore, whose deque of futures is modelled because  *)
(* a permit is handed over (the future gets its result) in one turn of the *)
(* loop and picked up (the waiter resumes) in a later one, and a timeout   *)
(* or a cancellation can fall in between.                                  *)
(*                                                                         *)
(* Every structure of the controller is keyed by the model name, so models *)
(* do not interact and one key is enough.  The semaphore is created at its *)
(* full value by the first request that needs it, in the same turn; it is  *)
(* therefore modelled as present from the start.                           *)
(***************************************************************************)
EXTENDS AdmissionGates, Sequences, FiniteSets

CONSTANTS
  Requests,               \* clients, each with at most one request in flight
  Shapes,                 \* the requests they may send
  TierMaxNumSeqs,         \* VramTier.max_num_seqs, None when no tier resolved
  EntryMaxNumSeqs,        \* ModelEntry.max_num_seqs of the model, or None
  BatchWaiterMultiplier,  \* batch_waiter_multiplier (8)
  ZeroWait                \* priorities whose configured wait bound is 0 s

ASSUME AdmissionConstants ==
  /\ IsFiniteSet(Requests)
  /\ Shapes \subseteq Request
  /\ TierMaxNumSeqs \in Positive \cup {None}
  /\ EntryMaxNumSeqs \in Positive \cup {None}
  /\ (TierMaxNumSeqs = None) <=> (TierContextCap = None)
  /\ BatchWaiterMultiplier \in Nat
  /\ ZeroWait \subseteq {"interactive", "batch"}

VARIABLES
  phase,        \* where each client's request is: "idle", "waiting", "running"
  shape,        \* the request in flight, None when idle
  answer,       \* how admit() last ended for the client
  reserved,     \* AdmissionResult.reserved_tokens held while running
  value,        \* BoundedSemaphore._value
  waiters,      \* BoundedSemaphore._waiters, the deque of futures, in order
  future,       \* state of the future a waiter awaits
  wake,         \* exception a waiter will resume with
  batchWaiters, \* _batch_waiters
  tracker       \* _tracker: KV tokens reserved

semaphore == <<value, waiters, future, wake>>
vars == <<phase, shape, answer, reserved, value, waiters, future, wake,
          batchWaiters, tracker>>

-----------------------------------------------------------------------------

SequenceGateRuns == TierMaxNumSeqs # None

\* _effective_max_num_seqs(); only meaningful when the gate runs.
MaxNumSeqs == Tightened(TierMaxNumSeqs, EntryMaxNumSeqs)

WaiterCap == BatchWaiterMultiplier * MaxNumSeqs

Waiting == {r \in Requests : phase[r] = "waiting"}
Running == {r \in Requests : phase[r] = "running"}
Pending == {r \in Requests : future[r] = "pending"}
Granted == {r \in Requests : future[r] = "granted"}

\* Semaphore.locked(): no permit left, or somebody queued ahead.
Locked == value = 0 \/ Pending \cup Granted # {}

\* r stands before s in the deque.
Ahead(r, s) ==
  \E i, j \in 1..Len(waiters) : i < j /\ waiters[i] = r /\ waiters[j] = s

\* deque.remove(fut): the deque without the future of r, which is in it once.
Without(r) ==
  LET at == CHOOSE i \in 1..Len(waiters) : waiters[i] = r
  IN  [i \in 1..(Len(waiters) - 1) |-> IF i < at THEN waiters[i] ELSE waiters[i + 1]]

(***************************************************************************)
(* Semaphore._wake_up_next(), called up to `most' times while `available'  *)
(* permits last: the foremost pending futures get their result, and each   *)
(* takes a permit with it.  `left' is the futures once the caller's own is *)
(* out of the deque.                                                       *)
(***************************************************************************)
WakeUpAnybody(left, available, most) ==
  LET pending == {r \in Requests : left[r] = "pending"}
  IN  \E front \in SUBSET pending :
        /\ Cardinality(front) = Lesser(most, Cardinality(pending))
        /\ value' = available - Cardinality(front)
        /\ future' = [r \in Requests |-> IF r \in front THEN "granted" ELSE left[r]]

WakeUp(left, available, most) ==
  LET pending == {r \in Requests : left[r] = "pending"}
  IN  \E front \in SUBSET pending :
        /\ Cardinality(front) = Lesser(most, Cardinality(pending))
        /\ \A r \in front, s \in pending \ front : Ahead(r, s)
        /\ value' = available - Cardinality(front)
        /\ future' = [r \in Requests |-> IF r \in front THEN "granted" ELSE left[r]]

\* _batch_waiters.add(), which never goes below zero.
BatchWaits(q, amount) ==
  batchWaiters' = IF q.priority = "batch"
                    THEN Greater(0, batchWaiters + amount) ELSE batchWaiters

(***************************************************************************)
(* The two ends of admit(): gates 2 and 3 passed, the reservation is made  *)
(* and AdmissionResult returned; or an error raised, nothing reserved.     *)
(***************************************************************************)
Commit(r, q) ==
  LET tokens == ReservedTokens(q, tracker)
  IN  /\ Verdict(q, tracker) = "admitted"
      /\ phase' = [phase EXCEPT ![r] = "running"]
      /\ shape' = [shape EXCEPT ![r] = q]
      /\ answer' = [answer EXCEPT ![r] = "admitted"]
      /\ reserved' = [reserved EXCEPT ![r] = tokens]
      /\ tracker' = tracker + tokens

Raise(r, error) ==
  /\ phase' = [phase EXCEPT ![r] = "idle"]
  /\ shape' = [shape EXCEPT ![r] = None]
  /\ answer' = [answer EXCEPT ![r] = error]
  /\ UNCHANGED <<reserved, tracker>>

\* The errors gates 2 and 3 raise.
GatesRaise(r, q) ==
  /\ Verdict(q, tracker) # "admitted"
  /\ Raise(r, Verdict(q, tracker))

-----------------------------------------------------------------------------
(***************************************************************************)
(* admit(), up to its suspension.  A batch request first faces the waiter  *)
(* cap.                                                                    *)
(***************************************************************************)
PassesWaiterCap(q) == q.priority = "batch" => batchWaiters < WaiterCap

\* The cap is reached: 429 before the semaphore is touched.
ArriveQueueFull(r, q) ==
  /\ phase[r] = "idle" /\ SequenceGateRuns
  /\ ~PassesWaiterCap(q)
  /\ Raise(r, "queue_full")
  /\ UNCHANGED <<semaphore, batchWaiters>>

\* No gate, or a permit at once: admit() runs to its end without suspending.
\* A permit taken and given back in the same turn wakes nobody, as an
\* unlocked semaphore has no waiter.
ArriveNow(r, q) ==
  /\ phase[r] = "idle"
  /\ SequenceGateRuns => ~Locked /\ PassesWaiterCap(q) /\ q.priority \notin ZeroWait
  /\ \/ Commit(r, q) /\ value' = IF SequenceGateRuns THEN value - 1 ELSE value
     \/ GatesRaise(r, q) /\ UNCHANGED value
  /\ UNCHANGED <<waiters, future, wake, batchWaiters>>

\* The wait_for suspends: the request queues behind its own future.
ArriveWait(r, q) ==
  /\ phase[r] = "idle" /\ SequenceGateRuns
  /\ Locked /\ PassesWaiterCap(q) /\ q.priority \notin ZeroWait
  /\ phase' = [phase EXCEPT ![r] = "waiting"]
  /\ shape' = [shape EXCEPT ![r] = q]
  /\ answer' = [answer EXCEPT ![r] = "none"]
  /\ waiters' = Append(waiters, r)
  /\ future' = [future EXCEPT ![r] = "pending"]
  /\ BatchWaits(q, 1)
  /\ UNCHANGED <<reserved, value, wake, tracker>>

\* wait_for with a timeout of 0: the acquire() coroutine is wrapped in a task
\* that is cancelled before its first step, whatever the semaphore holds.
ArriveZeroWait(r, q) ==
  /\ phase[r] = "idle" /\ SequenceGateRuns
  /\ PassesWaiterCap(q) /\ q.priority \in ZeroWait
  /\ phase' = [phase EXCEPT ![r] = "waiting"]
  /\ shape' = [shape EXCEPT ![r] = q]
  /\ answer' = [answer EXCEPT ![r] = "none"]
  /\ future' = [future EXCEPT ![r] = "unstarted"]
  /\ wake' = [wake EXCEPT ![r] = "timeout"]
  /\ BatchWaits(q, 1)
  /\ UNCHANGED <<reserved, value, waiters, tracker>>

(***************************************************************************)
(* Exceptions set on a suspended waiter.  Task.cancel() cancels the future *)
(* if it is still pending; a future that already has its result keeps it,  *)
(* and so keeps its permit until the waiter resumes.  A client's           *)
(* cancellation prevails over an expired timer.                            *)
(***************************************************************************)
InterruptPending(r, exception) ==
  /\ phase[r] = "waiting"
  /\ wake' = [wake EXCEPT ![r] = exception]
  /\ UNCHANGED <<phase, shape, answer, reserved, value, waiters, future, batchWaiters, tracker>>

Interrupt(r, exception) ==
  /\ phase[r] = "waiting"
  /\ wake' = [wake EXCEPT ![r] = exception]
  /\ future' = [future EXCEPT ![r] = IF @ = "pending" THEN "cancelled" ELSE @]
  /\ UNCHANGED <<phase, shape, answer, reserved, value, waiters, batchWaiters, tracker>>

Timeout(r) == wake[r] = "none" /\ Interrupt(r, "timeout")
Cancel(r)  == wake[r] # "cancel" /\ Interrupt(r, "cancel")

(***************************************************************************)
(* The waiter resumes.  Leaving acquire(), it passes every remaining       *)
(* permit on to the foremost pending waiters; then it is no longer counted *)
(* as a batch waiter; then gates 2 and 3 run, and an error there releases  *)
(* the permit.                                                             *)
(***************************************************************************)
LeaveDequeStaying(r) ==
  /\ wake' = [wake EXCEPT ![r] = "none"]
  /\ BatchWaits(shape[r], -1)
  /\ UNCHANGED waiters

LeaveDequeCounted(r) ==
  /\ waiters' = Without(r)
  /\ wake' = [wake EXCEPT ![r] = "none"]
  /\ BatchWaits(shape[r], IF wake[r] = "none" THEN -1 ELSE 0)

LeaveDeque(r) ==
  /\ waiters' = Without(r)
  /\ wake' = [wake EXCEPT ![r] = "none"]
  /\ BatchWaits(shape[r], -1)

Left(r) == [future EXCEPT ![r] = "none"]

ResumeAcquiredAlone(r) ==
  /\ phase[r] = "waiting" /\ future[r] = "granted" /\ wake[r] = "none"
  /\ LeaveDeque(r)
  /\ \/ Commit(r, shape[r]) /\ future' = Left(r) /\ UNCHANGED value
     \/ GatesRaise(r, shape[r]) /\ WakeUp(Left(r), value + 1, 1)

ResumeAcquired(r) ==
  /\ phase[r] = "waiting" /\ future[r] = "granted" /\ wake[r] = "none"
  /\ LeaveDeque(r)
  /\ \/ Commit(r, shape[r]) /\ WakeUp(Left(r), value, value)
     \/ GatesRaise(r, shape[r]) /\ WakeUp(Left(r), value + 1, value + 1)

Outcome(exception) == IF exception = "timeout" THEN "timed_out" ELSE "cancelled"

\* The permit had been handed over, but the exception arrived first: it goes
\* back to the semaphore and on to the next waiters.
ResumeGivingBackNothing(r) ==
  /\ phase[r] = "waiting" /\ future[r] = "granted" /\ wake[r] # "none"
  /\ LeaveDeque(r)
  /\ Raise(r, Outcome(wake[r]))
  /\ WakeUp(Left(r), value, value)

ResumeGivingBack(r) ==
  /\ phase[r] = "waiting" /\ future[r] = "granted" /\ wake[r] # "none"
  /\ LeaveDeque(r)
  /\ Raise(r, Outcome(wake[r]))
  /\ WakeUp(Left(r), value + 1, value + 1)

ResumeEmptyHanded(r) ==
  /\ phase[r] = "waiting" /\ future[r] = "cancelled"
  /\ LeaveDeque(r)
  /\ Raise(r, Outcome(wake[r]))
  /\ WakeUp(Left(r), value, value)

\* acquire() never started, so it neither queued nor wakes anybody.
ResumeUnstarted(r) ==
  /\ phase[r] = "waiting" /\ future[r] = "unstarted"
  /\ Raise(r, Outcome(wake[r]))
  /\ future' = Left(r)
  /\ wake' = [wake EXCEPT ![r] = "none"]
  /\ BatchWaits(shape[r], -1)
  /\ UNCHANGED <<value, waiters>>

Resume(r) ==
  ResumeAcquired(r) \/ ResumeGivingBack(r) \/ ResumeEmptyHanded(r) \/ ResumeUnstarted(r)

(***************************************************************************)
(* release(), which the caller owes once per AdmissionResult.  It does     *)
(* what it does whether it is owed or not; a release above the bound       *)
(* raises ValueError in BoundedSemaphore, which is left as it was.         *)
(***************************************************************************)
ReleaseTwice(r) ==
  /\ phase[r] = "running"
  /\ phase' = [phase EXCEPT ![r] = "idle"]
  /\ shape' = [shape EXCEPT ![r] = None]
  /\ reserved' = [reserved EXCEPT ![r] = 0]
  /\ tracker' = Greater(0, tracker - reserved[r])
  /\ IF value < MaxNumSeqs THEN WakeUp(future, value + 2, 2) ELSE UNCHANGED <<value, future>>
  /\ UNCHANGED <<answer, waiters, wake, batchWaiters>>

ReleaseRecomputed(r) ==
  /\ phase[r] = "running"
  /\ phase' = [phase EXCEPT ![r] = "idle"]
  /\ shape' = [shape EXCEPT ![r] = None]
  /\ reserved' = [reserved EXCEPT ![r] = 0]
  /\ tracker' = Greater(0, tracker - ReservedTokens(shape[r], tracker))
  /\ IF value < MaxNumSeqs THEN WakeUp(future, value + 1, 1) ELSE UNCHANGED <<value, future>>
  /\ UNCHANGED <<answer, waiters, wake, batchWaiters>>

ReleaseStep(r) ==
  /\ phase' = [phase EXCEPT ![r] = "idle"]
  /\ shape' = [shape EXCEPT ![r] = None]
  /\ reserved' = [reserved EXCEPT ![r] = 0]
  /\ tracker' = Greater(0, tracker - reserved[r])
  /\ IF SequenceGateRuns /\ value < MaxNumSeqs
       THEN WakeUp(future, value + 1, 1)
       ELSE UNCHANGED <<value, future>>
  /\ UNCHANGED <<answer, waiters, wake, batchWaiters>>

\* A caller that keeps the protocol: the code does not check it.
Release(r) == phase[r] = "running" /\ ReleaseStep(r)

-----------------------------------------------------------------------------

Init ==
  /\ phase = [r \in Requests |-> "idle"]
  /\ shape = [r \in Requests |-> None]
  /\ answer = [r \in Requests |-> "none"]
  /\ reserved = [r \in Requests |-> 0]
  /\ value = IF SequenceGateRuns THEN MaxNumSeqs ELSE 0
  /\ waiters = <<>>
  /\ future = [r \in Requests |-> "none"]
  /\ wake = [r \in Requests |-> "none"]
  /\ batchWaiters = 0
  /\ tracker = 0

Arrive(r, q) ==
  ArriveQueueFull(r, q) \/ ArriveNow(r, q) \/ ArriveWait(r, q) \/ ArriveZeroWait(r, q)

Next ==
  \E r \in Requests :
    \/ \E q \in Shapes : Arrive(r, q)
    \/ Timeout(r) \/ Cancel(r) \/ Resume(r) \/ Release(r)

Spec == Init /\ [][Next]_vars

(***************************************************************************)
(* The event loop runs every ready waiter, and the timer of wait_for fires.*)
(* Nothing is asked of the engine: a running request may never release.    *)
(***************************************************************************)
FairSpec ==
  Spec /\ \A r \in Requests : WF_vars(Resume(r)) /\ WF_vars(Timeout(r))
=============================================================================
