------------------------ MODULE AdmissionProperties -------------------------
(***************************************************************************)
(* What the admission gate guarantees in every interleaving of arrivals,   *)
(* hand-overs, time-outs, cancellations and releases.                      *)
(***************************************************************************)
EXTENDS Admission, Functions

Answers == {"none", "admitted", "context", "strict", "saturated", "queue_full",
            "timed_out", "cancelled"}

Futures == {"none", "pending", "granted", "cancelled", "unstarted"}

\* The phase of a request and the state of its future belong together.
FutureMatchesPhase ==
  \A r \in Requests :
    /\ future[r] # "none" <=> phase[r] = "waiting"
    /\ wake[r] # "none" => phase[r] = "waiting"
    /\ future[r] = "pending" => wake[r] = "none"
    /\ future[r] \in {"cancelled", "unstarted"} => wake[r] # "none"

\* The deque holds each request that awaits a future, once.
DequeExact ==
  /\ \A i, j \in 1..Len(waiters) : waiters[i] = waiters[j] => i = j
  /\ \A r \in Requests :
       future[r] \in {"pending", "granted", "cancelled"}
         <=> \E i \in 1..Len(waiters) : waiters[i] = r

\* Every variable has its type; future, phase and deque agree.
TypeOK ==
  /\ phase \in [Requests -> {"idle", "waiting", "running"}]
  /\ shape \in [Requests -> Shapes \cup {None}]
  /\ \A r \in Requests : phase[r] # "idle" => shape[r] \in Shapes
  /\ answer \in [Requests -> Answers]
  /\ reserved \in [Requests -> Nat]
  /\ value \in Nat
  /\ waiters \in Seq(Requests)
  /\ future \in [Requests -> Futures]
  /\ wake \in [Requests -> {"none", "timeout", "cancel"}]
  /\ batchWaiters \in Nat
  /\ tracker \in Nat
  /\ FutureMatchesPhase
  /\ DequeExact

\* Every permit is in exactly one place: in the semaphore, on its way to a
\* waiter that has not resumed, or with a running request.  None is lost to a
\* time-out, a cancellation or a refusal by a later gate, and none is
\* released twice (admission.py:318-347, 441-457).
PermitConservation ==
  SequenceGateRuns => value + Cardinality(Granted \cup Running) = MaxNumSeqs

\* "The number of in-flight requests against a model must stay at or below
\* the resolved max_num_seqs" (admission.py:11-12).
InFlightBounded ==
  SequenceGateRuns => Cardinality(Running) <= MaxNumSeqs

\* A free permit with somebody still queued means a waiter ahead has been
\* woken and will pass it on when it resumes: no wake-up is lost, however
\* time-outs and cancellations fall between hand-over and resumption.
NoLostWakeUp == value > 0 /\ Pending # {} => Granted # {}

\* _batch_waiters counts the batch requests inside their wait, exactly, and
\* so stays within the cap whichever way each wait ends (admission.py:311-332).
BatchWaiting == {r \in Waiting : shape[r].priority = "batch"}

BatchAccounting ==
  /\ batchWaiters = Cardinality(BatchWaiting)
  /\ SequenceGateRuns => batchWaiters <= WaiterCap

\* The reservations admitted together fit the KV budget, when the engine
\* reported one (admission.py:404-435).
BudgetRespected == KvGateRuns => tracker <= KvBudget

\* The counter of reserved tokens is the sum of what the running requests
\* hold: nothing released twice, forgotten or clamped away by max(0, ..)
\* (admission.py:186-188, 434-435, 454).
TrackerIsSum == tracker = SumFunctionOnSet(reserved, Running)

\* A waiting request always gets its answer: a slot, or an error.
EveryWaiterAnswered ==
  \A r \in Requests : phase[r] = "waiting" ~> phase[r] # "waiting"

\* A request finding a free slot does not fail for want of one.  The waits of
\* settings.py:66-90 are said to bound how long admit() waits "for a
\* sequence-concurrency slot to free before rejecting with 429".
FreeSlotAdmits ==
  [][\A r \in Requests :
       phase[r] = "idle" /\ ~Locked /\ phase'[r] = "waiting" => FALSE]_vars
=============================================================================
