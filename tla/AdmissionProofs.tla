-------------------------- MODULE AdmissionProofs ---------------------------
(***************************************************************************)
(* The safety invariants of the admission gate, for any number of clients, *)
(* any request shapes and any limits.  Typing comes first; every later     *)
(* invariant is proved inductive on top of the earlier ones.               *)
(***************************************************************************)
EXTENDS AdmissionProperties, DataInduction

-----------------------------------------------------------------------------
(***************************************************************************)
(* Facts about the operators the actions are built from.                   *)
(***************************************************************************)

\* With a tier resolved the semaphore has at least one permit.
LEMMA MaxNumSeqsType == SequenceGateRuns => MaxNumSeqs \in Positive
BY AdmissionConstants, GateConstants
   DEF SequenceGateRuns, MaxNumSeqs, Tightened, Lesser, Positive

\* What the gates answer, what an admitted request reserves, and that the
\* reservation fits the budget together with those already made.
LEMMA ReservationFits ==
  ASSUME NEW q \in Request, NEW held \in Nat
  PROVE  /\ Verdict(q, held) \in {"context", "strict", "saturated", "admitted"}
         /\ Verdict(q, held) = "admitted" =>
              /\ ReservedTokens(q, held) \in Nat
              /\ KvGateRuns => held + ReservedTokens(q, held) <= KvBudget
<1>1. Verdict(q, held) \in {"context", "strict", "saturated", "admitted"}
  BY DEF Verdict
<1>2. ASSUME Verdict(q, held) = "admitted"
      PROVE  /\ ReservedTokens(q, held) \in Nat
             /\ KvGateRuns => held + ReservedTokens(q, held) <= KvBudget
  <2>1. /\ PromptTokens(q) \in Nat
        /\ RequestedOutput(q) \in Nat
        /\ ContextCeiling(q) \in Nat
        /\ KvGateRuns => KvBudget \in Nat
    BY GateConstants
       DEF Request, PromptTokens, RequestedOutput, ContextCeiling, Tightened, Given,
           Lesser, Greater, Positive, KvGateRuns, KvBudget
  <2>2. MinClamped \in Nat
    BY GateConstants DEF Positive
  <2>3. ~ContextRejects(q) /\ ~BudgetRejects(q, held)
    BY <1>2 DEF Verdict
  <2>4. ContextOutput(q) \in Nat
    BY <2>1, <2>2, <2>3 DEF ContextRejects, ContextOutput, ContextRoom
  <2>5. CASE OverBudget(q, held)
    <3>1. KvGateRuns /\ KvAvailable(q, held) \in Int /\ KvAvailable(q, held) >= MinClamped
      BY <2>1, <2>2, <2>3, <2>5 DEF BudgetRejects, OverBudget, KvAvailable
    <3>2. EffectiveOutput(q, held) = KvAvailable(q, held)
      BY <2>2, <2>5, <3>1 DEF EffectiveOutput, Greater
    <3>3. QED BY <2>1, <2>2, <3>1, <3>2 DEF ReservedTokens, KvAvailable
  <2>6. CASE ~OverBudget(q, held)
    <3>1. EffectiveOutput(q, held) = ContextOutput(q)
      BY <2>6 DEF EffectiveOutput
    <3>2. KvGateRuns => KvBudget - held - PromptTokens(q) >= ContextOutput(q)
      BY <2>1, <2>4, <2>6 DEF OverBudget, KvAvailable
    <3>3. QED BY <2>1, <2>4, <3>1, <3>2 DEF ReservedTokens
  <2>7. QED BY <2>5, <2>6
<1>3. QED BY <1>1, <1>2

\* Taking a request out of the deque keeps the others, each once.
LEMMA WithoutFacts ==
  ASSUME NEW r \in Requests, waiters \in Seq(Requests), NEW k \in 1..Len(waiters),
         waiters[k] = r,
         \A i, j \in 1..Len(waiters) : waiters[i] = waiters[j] => i = j
  PROVE  /\ Without(r) \in Seq(Requests)
         /\ \A i, j \in 1..Len(Without(r)) : Without(r)[i] = Without(r)[j] => i = j
         /\ \A s \in Requests :
              (\E i \in 1..Len(Without(r)) : Without(r)[i] = s)
                <=> s # r /\ \E i \in 1..Len(waiters) : waiters[i] = s
<1> DEFINE n == Len(waiters)
           left == Without(r)
<1>1. n \in Nat /\ \A i \in 1..n : waiters[i] \in Requests
  OBVIOUS
<1>2. left = [i \in 1..(n - 1) |-> IF i < k THEN waiters[i] ELSE waiters[i + 1]]
  <2>1. (CHOOSE i \in 1..n : waiters[i] = r) = k
    OBVIOUS
  <2>2. QED BY <2>1 DEF Without
<1> HIDE DEF left
<1>3. n - 1 \in Nat
  BY <1>1
<1>4. \A i \in 1..(n - 1) : left[i] \in Requests
  BY <1>1, <1>2
<1>5. left \in Seq(Requests) /\ Len(left) = n - 1
  <2>1. left \in [1..(n - 1) -> Requests]
    BY <1>2, <1>4
  <2>2. QED BY <1>3, <2>1
<1>6. \A i, j \in 1..(n - 1) : left[i] = left[j] => i = j
  <2>1. SUFFICES ASSUME NEW i \in 1..(n - 1), NEW j \in 1..(n - 1), left[i] = left[j]
                 PROVE  i = j
    OBVIOUS
  <2> DEFINE at(x) == IF x < k THEN x ELSE x + 1
  <2>2. at(i) \in 1..n /\ at(j) \in 1..n
    BY <1>1
  <2>3. left[i] = waiters[at(i)] /\ left[j] = waiters[at(j)]
    BY <1>2
  <2>4. at(i) = at(j)
    BY <2>1, <2>2, <2>3
  <2>5. QED BY <2>4, <1>1
<1>7. \A s \in Requests :
        (\E i \in 1..(n - 1) : left[i] = s) <=> s # r /\ \E i \in 1..n : waiters[i] = s
  <2>1. SUFFICES ASSUME NEW s \in Requests
                 PROVE  (\E i \in 1..(n - 1) : left[i] = s)
                          <=> s # r /\ \E i \in 1..n : waiters[i] = s
    OBVIOUS
  <2>2. ASSUME NEW i \in 1..(n - 1), left[i] = s
        PROVE  s # r /\ \E j \in 1..n : waiters[j] = s
    <3>1. CASE i < k
      BY <1>1, <1>2, <2>2, <3>1
    <3>2. CASE ~(i < k)
      <4>1. left[i] = waiters[i + 1] /\ i + 1 \in 1..n /\ i + 1 # k
        BY <1>1, <1>2, <3>2
      <4>2. QED BY <2>2, <4>1
    <3>3. QED BY <3>1, <3>2
  <2>3. ASSUME NEW j \in 1..n, waiters[j] = s, s # r
        PROVE  \E i \in 1..(n - 1) : left[i] = s
    <3>1. CASE j < k
      <4>1. j \in 1..(n - 1) /\ left[j] = waiters[j]
        BY <1>1, <1>2, <3>1
      <4>2. QED BY <2>3, <4>1
    <3>2. CASE j > k
      <4>1. j - 1 \in 1..(n - 1) /\ left[j - 1] = waiters[j]
        BY <1>1, <1>2, <3>2
      <4>2. QED BY <2>3, <4>1
    <3>3. QED BY <2>3, <3>1, <3>2
  <2>4. QED BY <2>2, <2>3
<1>8. QED BY <1>5, <1>6, <1>7 DEF left

\* What handing permits to the front of the queue does: each future it
\* settles takes one permit, nothing else changes, and it stops only when
\* permits, or waiters, or its allowance run out.
LEMMA WakeUpFacts ==
  ASSUME NEW left \in [Requests -> Futures], NEW available \in Nat, NEW most \in Nat,
         most <= available, most = 0 => available = 0,
         WakeUp(left, available, most)
  PROVE  /\ value' \in Nat
         /\ future' \in [Requests -> Futures]
         /\ \A r \in Requests :
              \/ future'[r] = left[r]
              \/ left[r] = "pending" /\ future'[r] = "granted"
         /\ value' + Cardinality({r \in Requests : future'[r] = "granted"})
              = available + Cardinality({r \in Requests : left[r] = "granted"})
         /\ value' > 0 /\ (\E r \in Requests : future'[r] = "pending")
              => \E r \in Requests : future'[r] = "granted"
<1> DEFINE pending == {r \in Requests : left[r] = "pending"}
           before  == {r \in Requests : left[r] = "granted"}
           after   == {r \in Requests : future'[r] = "granted"}
<1>1. PICK front \in SUBSET pending :
        /\ Cardinality(front) = Lesser(most, Cardinality(pending))
        /\ value' = available - Cardinality(front)
        /\ future' = [r \in Requests |-> IF r \in front THEN "granted" ELSE left[r]]
  BY DEF WakeUp
<1>2. /\ IsFiniteSet(pending) /\ IsFiniteSet(before) /\ IsFiniteSet(front)
      /\ Cardinality(pending) \in Nat /\ Cardinality(before) \in Nat
      /\ Cardinality(front) \in Nat
  <2>1. IsFiniteSet(Requests) BY AdmissionConstants
  <2>2. IsFiniteSet(pending) /\ IsFiniteSet(before) BY <2>1, FS_Subset
  <2>3. IsFiniteSet(front) BY <2>2, FS_Subset
  <2>4. QED BY <2>2, <2>3, FS_CardinalityType
<1>3. Cardinality(front) <= most /\ value' \in Nat
  BY <1>1, <1>2 DEF Lesser
<1>4. future' \in [Requests -> Futures]
  BY <1>1 DEF Futures
<1>5. \A r \in Requests : IF r \in front THEN left[r] = "pending" /\ future'[r] = "granted"
                                         ELSE future'[r] = left[r]
  BY <1>1
<1>6. after = before \cup front /\ before \cap front = {}
  BY <1>5
<1>7. value' + Cardinality(after) = available + Cardinality(before)
  <2>1. Cardinality(before \cup front)
          = Cardinality(before) + Cardinality(front) - Cardinality(before \cap front)
    BY <1>2, FS_Union
  <2>2. Cardinality({}) = 0 BY FS_EmptySet
  <2>3. Cardinality(after) = Cardinality(before) + Cardinality(front)
    <3>1. after = before \cup front /\ Cardinality(before \cap front) = 0
      BY <1>6, <2>2
    <3> HIDE DEF after, before
    <3>2. QED BY <1>2, <2>1, <3>1
  <2> HIDE DEF after, before
  <2>4. QED BY <1>1, <1>2, <2>3
<1>8. ASSUME value' > 0, NEW r \in Requests, future'[r] = "pending"
      PROVE  \E s \in Requests : future'[s] = "granted"
  <2>1. r \in pending \ front
    BY <1>5, <1>8
  <2>2. Cardinality(pending) # 0 /\ Cardinality(front) # Cardinality(pending)
    BY <1>2, <2>1, FS_EmptySet, FS_Subset
  <2>3. Cardinality(front) # 0
    BY <1>1, <1>2, <1>8, <2>2 DEF Lesser
  <2>4. front # {}
    BY <2>3, FS_EmptySet
  <2>5. QED BY <1>5, <2>4
<1>9. QED BY <1>3, <1>4, <1>5, <1>7, <1>8

-----------------------------------------------------------------------------
(***************************************************************************)
(* Type correctness.                                                       *)
(***************************************************************************)

\* Raising an error from admit() keeps the types of what it assigns.
LEMMA RaiseType ==
  ASSUME TypeOK, NEW r \in Requests, NEW error \in Answers, Raise(r, error)
  PROVE  /\ phase' = [phase EXCEPT ![r] = "idle"]
         /\ phase' \in [Requests -> {"idle", "waiting", "running"}]
         /\ shape' \in [Requests -> Shapes \cup {None}]
         /\ \A s \in Requests : phase'[s] # "idle" => shape'[s] \in Shapes
         /\ answer' \in [Requests -> Answers]
         /\ reserved' \in [Requests -> Nat]
         /\ tracker' \in Nat
BY DEF TypeOK, Raise

\* So does committing the reservation.
LEMMA CommitType ==
  ASSUME TypeOK, NEW r \in Requests, NEW q \in Shapes, Commit(r, q)
  PROVE  /\ phase' = [phase EXCEPT ![r] = "running"]
         /\ phase' \in [Requests -> {"idle", "waiting", "running"}]
         /\ shape' \in [Requests -> Shapes \cup {None}]
         /\ \A s \in Requests : phase'[s] # "idle" => shape'[s] \in Shapes
         /\ answer' \in [Requests -> Answers]
         /\ reserved' \in [Requests -> Nat]
         /\ tracker' \in Nat
<1>1. q \in Request /\ tracker \in Nat
  BY AdmissionConstants DEF TypeOK
<1>2. ReservedTokens(q, tracker) \in Nat
  BY <1>1, ReservationFits DEF Commit
<1>3. QED BY <1>2 DEF TypeOK, Commit, Answers

\* What the later gates raise is one of the answers.
LEMMA GatesRaiseType ==
  ASSUME TypeOK, NEW r \in Requests, NEW q \in Shapes, GatesRaise(r, q)
  PROVE  Verdict(q, tracker) \in Answers /\ Raise(r, Verdict(q, tracker))
<1>1. q \in Request /\ tracker \in Nat
  BY AdmissionConstants DEF TypeOK
<1>2. QED BY <1>1, ReservationFits DEF GatesRaise, Answers

\* The counter of batch waiters stays a natural number.
LEMMA BatchWaitsType ==
  ASSUME TypeOK, NEW q, NEW amount \in Int, BatchWaits(q, amount)
  PROVE  batchWaiters' \in Nat
BY DEF TypeOK, BatchWaits, Greater

\* The exception a waiter resumed with names its answer.
LEMMA OutcomeType ==
  ASSUME NEW exception PROVE Outcome(exception) \in Answers
BY DEF Outcome, Answers

(***************************************************************************)
(* A waiter leaving the deque, whatever it answers: its phase changes, its *)
(* future is cleared and the front of the queue is woken.                  *)
(***************************************************************************)
LEMMA LeaveType ==
  ASSUME TypeOK, NEW r \in Requests,
         phase[r] = "waiting", future[r] \in {"granted", "cancelled"},
         LeaveDeque(r), NEW to \in {"idle", "running"},
         phase' = [phase EXCEPT ![r] = to],
         NEW available \in Nat, WakeUp(Left(r), available, available)
  PROVE  /\ value' \in Nat
         /\ waiters' \in Seq(Requests)
         /\ future' \in [Requests -> Futures]
         /\ wake' \in [Requests -> {"none", "timeout", "cancel"}]
         /\ batchWaiters' \in Nat
         /\ FutureMatchesPhase'
         /\ DequeExact'
<1>1. Left(r) \in [Requests -> Futures]
  BY DEF TypeOK, Left, Futures
<1>2. /\ value' \in Nat /\ future' \in [Requests -> Futures]
      /\ \A s \in Requests : \/ future'[s] = Left(r)[s]
                             \/ Left(r)[s] = "pending" /\ future'[s] = "granted"
  <2>1. available <= available /\ (available = 0 => available = 0)
    OBVIOUS
  <2> DEFINE left == Left(r)
  <2>2. left \in [Requests -> Futures] /\ WakeUp(left, available, available)
    BY <1>1
  <2> HIDE DEF left
  <2>3. /\ value' \in Nat /\ future' \in [Requests -> Futures]
        /\ \A s \in Requests : \/ future'[s] = left[s]
                               \/ left[s] = "pending" /\ future'[s] = "granted"
    BY <2>1, <2>2, WakeUpFacts
  <2>4. QED BY <2>3 DEF left
<1>3. \A s \in Requests : Left(r)[s] = IF s = r THEN "none" ELSE future[s]
  BY DEF TypeOK, Left
<1>4. batchWaiters' \in Nat
  BY BatchWaitsType DEF LeaveDeque
<1>5. wake' = [wake EXCEPT ![r] = "none"] /\ waiters' = Without(r)
  BY DEF LeaveDeque
<1>6. wake' \in [Requests -> {"none", "timeout", "cancel"}]
  BY <1>5 DEF TypeOK
<1>7. FutureMatchesPhase'
  <2>1. SUFFICES ASSUME NEW s \in Requests
                 PROVE  /\ future'[s] # "none" <=> phase'[s] = "waiting"
                        /\ wake'[s] # "none" => phase'[s] = "waiting"
                        /\ future'[s] = "pending" => wake'[s] = "none"
                        /\ future'[s] \in {"cancelled", "unstarted"} => wake'[s] # "none"
    BY DEF FutureMatchesPhase
  <2>2. CASE s = r
    BY <1>2, <1>3, <1>5, <2>2 DEF TypeOK
  <2>3. CASE s # r
    <3>1. phase'[s] = phase[s] /\ wake'[s] = wake[s]
      BY <1>5, <2>3 DEF TypeOK
    <3>2. \/ future'[s] = future[s]
          \/ future[s] = "pending" /\ future'[s] = "granted"
      BY <1>2, <1>3, <2>3
    <3>3. QED BY <3>1, <3>2 DEF TypeOK, FutureMatchesPhase
  <2>4. QED BY <2>2, <2>3
<1>8. PICK k \in 1..Len(waiters) : waiters[k] = r
  BY DEF TypeOK, DequeExact
<1>9. /\ Without(r) \in Seq(Requests)
      /\ \A i, j \in 1..Len(Without(r)) : Without(r)[i] = Without(r)[j] => i = j
      /\ \A s \in Requests :
           (\E i \in 1..Len(Without(r)) : Without(r)[i] = s)
             <=> s # r /\ \E i \in 1..Len(waiters) : waiters[i] = s
  BY <1>8, WithoutFacts DEF TypeOK, DequeExact
<1>10. DequeExact'
  <2>1. \A s \in Requests :
          future'[s] \in {"pending", "granted", "cancelled"}
            <=> s # r /\ future[s] \in {"pending", "granted", "cancelled"}
    BY <1>2, <1>3
  <2>2. \A s \in Requests :
          future[s] \in {"pending", "granted", "cancelled"}
            <=> \E i \in 1..Len(waiters) : waiters[i] = s
    BY DEF TypeOK, DequeExact
  <2> DEFINE left == Without(r)
  <2>3. /\ waiters' = left
        /\ \A i, j \in 1..Len(left) : left[i] = left[j] => i = j
        /\ \A s \in Requests : (\E i \in 1..Len(left) : left[i] = s)
                               <=> s # r /\ \E i \in 1..Len(waiters) : waiters[i] = s
    BY <1>5, <1>9
  <2> HIDE DEF left
  <2>4. \A i, j \in 1..Len(waiters') : waiters'[i] = waiters'[j] => i = j
    BY <2>3
  <2>5. ASSUME NEW s \in Requests
        PROVE  future'[s] \in {"pending", "granted", "cancelled"}
                 <=> \E i \in 1..Len(waiters') : waiters'[i] = s
    <3>1. (\E i \in 1..Len(waiters') : waiters'[i] = s)
            <=> s # r /\ \E i \in 1..Len(waiters) : waiters[i] = s
      BY <2>3
    <3>2. QED BY <2>1, <2>2, <3>1
  <2>6. QED BY <2>4, <2>5 DEF DequeExact
<1>11. QED BY <1>2, <1>4, <1>5, <1>6, <1>7, <1>9, <1>10

\* Every step keeps the types.
LEMMA TypeStep == TypeOK /\ [Next]_vars => TypeOK'
<1> SUFFICES ASSUME TypeOK, [Next]_vars PROVE TypeOK'
  OBVIOUS
<1>1. CASE UNCHANGED vars
  <2>1. FutureMatchesPhase' /\ DequeExact'
    BY <1>1 DEF TypeOK, vars, FutureMatchesPhase, DequeExact
  <2>2. QED BY <1>1, <2>1 DEF TypeOK, vars
<1>2. ASSUME NEW r \in Requests, NEW q \in Shapes, ArriveQueueFull(r, q) PROVE TypeOK'
  <2>1. Raise(r, "queue_full") /\ "queue_full" \in Answers
    BY <1>2 DEF ArriveQueueFull, Answers
  <2>2. phase[r] = "idle" /\ UNCHANGED <<value, waiters, future, wake, batchWaiters>>
    BY <1>2 DEF ArriveQueueFull, semaphore
  <2>3. FutureMatchesPhase' /\ DequeExact'
    BY <2>1, <2>2, RaiseType DEF TypeOK, FutureMatchesPhase, DequeExact
  <2>4. QED BY <2>1, <2>2, <2>3, RaiseType DEF TypeOK
<1>3. ASSUME NEW r \in Requests, NEW q \in Shapes, ArriveNow(r, q) PROVE TypeOK'
  <2>1. phase[r] = "idle" /\ UNCHANGED <<waiters, future, wake, batchWaiters>>
    BY <1>3 DEF ArriveNow
  <2>2. DequeExact'
    BY <2>1 DEF TypeOK, DequeExact
  <2>3. CASE Commit(r, q) /\ value' = IF SequenceGateRuns THEN value - 1 ELSE value
    <3>1. value' \in Nat
      BY <1>3, <2>3 DEF ArriveNow, Locked, TypeOK
    <3>2. FutureMatchesPhase'
      BY <2>1, <2>3, CommitType DEF TypeOK, FutureMatchesPhase
    <3>3. QED BY <2>1, <2>2, <2>3, <3>1, <3>2, CommitType DEF TypeOK
  <2>4. CASE GatesRaise(r, q) /\ UNCHANGED value
    <3>1. Raise(r, Verdict(q, tracker)) /\ Verdict(q, tracker) \in Answers
      BY <2>4, GatesRaiseType
    <3>2. FutureMatchesPhase'
      BY <2>1, <3>1, RaiseType DEF TypeOK, FutureMatchesPhase
    <3>3. QED BY <2>1, <2>2, <2>4, <3>1, <3>2, RaiseType DEF TypeOK
  <2>5. QED BY <1>3, <2>3, <2>4 DEF ArriveNow
<1>4. ASSUME NEW r \in Requests, NEW q \in Shapes, ArriveWait(r, q) PROVE TypeOK'
  <2>1. /\ phase[r] = "idle" /\ future[r] = "none" /\ wake[r] = "none"
        /\ phase' = [phase EXCEPT ![r] = "waiting"]
        /\ shape' = [shape EXCEPT ![r] = q]
        /\ answer' = [answer EXCEPT ![r] = "none"]
        /\ waiters' = Append(waiters, r)
        /\ future' = [future EXCEPT ![r] = "pending"]
        /\ UNCHANGED <<reserved, value, wake, tracker>>
    BY <1>4 DEF ArriveWait, TypeOK, FutureMatchesPhase
  <2>2. batchWaiters' \in Nat
    BY <1>4, BatchWaitsType DEF ArriveWait
  <2>3. FutureMatchesPhase'
    BY <2>1 DEF TypeOK, FutureMatchesPhase
  <2>4. DequeExact'
    <3>1. ~\E i \in 1..Len(waiters) : waiters[i] = r
      BY <2>1 DEF TypeOK, DequeExact
    <3>2. /\ Len(waiters) \in Nat /\ Len(waiters') = Len(waiters) + 1
          /\ \A i \in 1..Len(waiters') :
               waiters'[i] = IF i = Len(waiters) + 1 THEN r ELSE waiters[i]
      BY <2>1 DEF TypeOK
    <3>3. ASSUME NEW i \in 1..Len(waiters'), NEW j \in 1..Len(waiters'),
                 waiters'[i] = waiters'[j]
          PROVE  i = j
      <4>1. \A k \in 1..Len(waiters') : k = Len(waiters) + 1 \/ k \in 1..Len(waiters)
        BY <3>2
      <4>2. CASE i \in 1..Len(waiters) /\ j \in 1..Len(waiters)
        <5>1. waiters[i] = waiters[j]
          BY <3>2, <3>3, <4>2
        <5>2. QED BY <4>2, <5>1 DEF TypeOK, DequeExact
      <4>3. CASE i = Len(waiters) + 1 \/ j = Len(waiters) + 1
        BY <3>1, <3>2, <3>3, <4>1, <4>3
      <4>4. QED BY <4>1, <4>2, <4>3
    <3>4. ASSUME NEW s \in Requests
          PROVE  (\E i \in 1..Len(waiters') : waiters'[i] = s)
                   <=> s = r \/ \E i \in 1..Len(waiters) : waiters[i] = s
      <4>1. Len(waiters) + 1 \in 1..Len(waiters')
            /\ \A i \in 1..Len(waiters) : i \in 1..Len(waiters') /\ waiters'[i] = waiters[i]
        BY <3>2
      <4>2. \A i \in 1..Len(waiters') : i # Len(waiters) + 1 => i \in 1..Len(waiters)
        BY <3>2
      <4>3. waiters'[Len(waiters) + 1] = r
        BY <3>2, <4>1
      <4>4. QED BY <3>2, <4>1, <4>2, <4>3
    <3>5. \A s \in Requests :
            future'[s] \in {"pending", "granted", "cancelled"}
              <=> s = r \/ future[s] \in {"pending", "granted", "cancelled"}
      BY <2>1 DEF TypeOK
    <3>6. QED BY <3>3, <3>4, <3>5 DEF TypeOK, DequeExact
  <2>5. future' \in [Requests -> Futures]
    BY <2>1 DEF TypeOK, Futures
  <2>6. answer' \in [Requests -> Answers]
    BY <2>1 DEF TypeOK, Answers
  <2>7. QED BY <2>1, <2>2, <2>3, <2>4, <2>5, <2>6 DEF TypeOK
<1>5. ASSUME NEW r \in Requests, NEW q \in Shapes, ArriveZeroWait(r, q) PROVE TypeOK'
  <2>1. /\ phase[r] = "idle" /\ future[r] = "none" /\ wake[r] = "none"
        /\ phase' = [phase EXCEPT ![r] = "waiting"]
        /\ shape' = [shape EXCEPT ![r] = q]
        /\ answer' = [answer EXCEPT ![r] = "none"]
        /\ future' = [future EXCEPT ![r] = "unstarted"]
        /\ wake' = [wake EXCEPT ![r] = "timeout"]
        /\ UNCHANGED <<reserved, value, waiters, tracker>>
    BY <1>5 DEF ArriveZeroWait, TypeOK, FutureMatchesPhase
  <2>2. batchWaiters' \in Nat
    BY <1>5, BatchWaitsType DEF ArriveZeroWait
  <2>3. FutureMatchesPhase'
    BY <2>1 DEF TypeOK, FutureMatchesPhase
  <2>4. DequeExact'
    BY <2>1 DEF TypeOK, DequeExact
  <2>5. future' \in [Requests -> Futures] /\ answer' \in [Requests -> Answers]
    BY <2>1 DEF TypeOK, Futures, Answers
  <2>6. QED BY <2>1, <2>2, <2>3, <2>4, <2>5 DEF TypeOK
<1>6. ASSUME NEW r \in Requests, NEW exception \in {"timeout", "cancel"},
             Interrupt(r, exception)
      PROVE  TypeOK'
  <2>1. /\ phase[r] = "waiting"
        /\ wake' = [wake EXCEPT ![r] = exception]
        /\ future' = [future EXCEPT ![r] = IF @ = "pending" THEN "cancelled" ELSE @]
        /\ UNCHANGED <<phase, shape, answer, reserved, value, waiters, batchWaiters, tracker>>
    BY <1>6 DEF Interrupt
  <2>2. FutureMatchesPhase'
    BY <2>1 DEF TypeOK, FutureMatchesPhase
  <2>3. DequeExact'
    BY <2>1 DEF TypeOK, DequeExact
  <2>4. future' \in [Requests -> Futures]
    BY <2>1 DEF TypeOK, Futures
  <2>5. QED BY <2>1, <2>2, <2>3, <2>4 DEF TypeOK
<1>7. ASSUME NEW r \in Requests, ResumeAcquired(r) PROVE TypeOK'
  <2>1. phase[r] = "waiting" /\ future[r] = "granted" /\ LeaveDeque(r) /\ shape[r] \in Shapes
    BY <1>7 DEF ResumeAcquired, TypeOK
  <2>2. CASE Commit(r, shape[r]) /\ WakeUp(Left(r), value, value)
    <3>1. value \in Nat BY DEF TypeOK
    <3>2. QED BY <2>1, <2>2, <3>1, CommitType, LeaveType DEF TypeOK
  <2>3. CASE GatesRaise(r, shape[r]) /\ WakeUp(Left(r), value + 1, value + 1)
    <3>1. value + 1 \in Nat BY DEF TypeOK
    <3>2. Raise(r, Verdict(shape[r], tracker)) /\ Verdict(shape[r], tracker) \in Answers
      BY <2>1, <2>3, GatesRaiseType
    <3>3. QED BY <2>1, <2>3, <3>1, <3>2, RaiseType, LeaveType DEF TypeOK
  <2>4. QED BY <1>7, <2>2, <2>3 DEF ResumeAcquired
<1>8. ASSUME NEW r \in Requests, ResumeGivingBack(r) PROVE TypeOK'
  <2>1. /\ phase[r] = "waiting" /\ future[r] = "granted" /\ LeaveDeque(r)
        /\ Raise(r, Outcome(wake[r])) /\ WakeUp(Left(r), value + 1, value + 1)
    BY <1>8 DEF ResumeGivingBack
  <2>2. value + 1 \in Nat BY DEF TypeOK
  <2>3. QED BY <2>1, <2>2, RaiseType, OutcomeType, LeaveType DEF TypeOK
<1>9. ASSUME NEW r \in Requests, ResumeEmptyHanded(r) PROVE TypeOK'
  <2>1. /\ phase[r] = "waiting" /\ future[r] = "cancelled" /\ LeaveDeque(r)
        /\ Raise(r, Outcome(wake[r])) /\ WakeUp(Left(r), value, value)
    BY <1>9 DEF ResumeEmptyHanded
  <2>2. value \in Nat BY DEF TypeOK
  <2>3. QED BY <2>1, <2>2, RaiseType, OutcomeType, LeaveType DEF TypeOK
<1>10. ASSUME NEW r \in Requests, ResumeUnstarted(r) PROVE TypeOK'
  <2>1. /\ phase[r] = "waiting" /\ future[r] = "unstarted"
        /\ Raise(r, Outcome(wake[r]))
        /\ future' = [future EXCEPT ![r] = "none"]
        /\ wake' = [wake EXCEPT ![r] = "none"]
        /\ UNCHANGED <<value, waiters>>
    BY <1>10 DEF ResumeUnstarted, Left
  <2>2. batchWaiters' \in Nat
    BY <1>10, BatchWaitsType DEF ResumeUnstarted
  <2>3. FutureMatchesPhase'
    BY <2>1, RaiseType, OutcomeType DEF TypeOK, FutureMatchesPhase
  <2>4. DequeExact'
    BY <2>1 DEF TypeOK, DequeExact
  <2>5. future' \in [Requests -> Futures]
    BY <2>1 DEF TypeOK, Futures
  <2>6. QED BY <2>1, <2>2, <2>3, <2>4, <2>5, RaiseType, OutcomeType DEF TypeOK
<1>11. ASSUME NEW r \in Requests, Release(r) PROVE TypeOK'
  <2>1. /\ phase[r] = "running"
        /\ phase' = [phase EXCEPT ![r] = "idle"]
        /\ shape' = [shape EXCEPT ![r] = None]
        /\ reserved' = [reserved EXCEPT ![r] = 0]
        /\ tracker' = Greater(0, tracker - reserved[r])
        /\ UNCHANGED <<answer, waiters, wake, batchWaiters>>
    BY <1>11 DEF Release, ReleaseStep
  <2>2. tracker' \in Nat
    BY <2>1 DEF TypeOK, Greater
  <2>3. /\ value' \in Nat /\ future' \in [Requests -> Futures]
        /\ \A s \in Requests : \/ future'[s] = future[s]
                               \/ future[s] = "pending" /\ future'[s] = "granted"
    <3>1. CASE SequenceGateRuns /\ value < MaxNumSeqs
      <4>1. WakeUp(future, value + 1, 1)
        BY <1>11, <3>1 DEF Release, ReleaseStep
      <4>2. /\ value + 1 \in Nat /\ 1 \in Nat /\ 1 <= value + 1
            /\ 1 = 0 => value + 1 = 0
            /\ future \in [Requests -> Futures]
        BY DEF TypeOK
      <4> DEFINE available == value + 1
                 most == 1
      <4>3. WakeUp(future, available, most)
        BY <4>1
      <4> HIDE DEF available, most
      <4>4. QED BY <4>2, <4>3, WakeUpFacts DEF available, most
    <3>2. CASE ~(SequenceGateRuns /\ value < MaxNumSeqs)
      BY <1>11, <3>2 DEF Release, ReleaseStep, TypeOK
    <3>3. QED BY <3>1, <3>2
  <2>4. FutureMatchesPhase'
    BY <2>1, <2>3 DEF TypeOK, FutureMatchesPhase
  <2>5. DequeExact'
    BY <2>1, <2>3 DEF TypeOK, DequeExact
  <2>6. QED BY <2>1, <2>2, <2>3, <2>4, <2>5 DEF TypeOK
<1>12. QED
  BY <1>1, <1>2, <1>3, <1>4, <1>5, <1>6, <1>7, <1>8, <1>9, <1>10, <1>11
     DEF Next, Arrive, Timeout, Cancel, Resume

\* The types of the admission state, and the agreement of each request's
\* phase with its future and with the deque.
THEOREM TypeCorrect == Spec => []TypeOK
<1>1. Init => TypeOK
  <2> SUFFICES ASSUME Init PROVE TypeOK
    OBVIOUS
  <2>1. value \in Nat
    BY MaxNumSeqsType DEF Init, Positive
  <2>2. FutureMatchesPhase /\ DequeExact
    BY DEF Init, FutureMatchesPhase, DequeExact
  <2>3. QED BY <2>1, <2>2 DEF Init, TypeOK, Futures, Answers
<1>2. QED BY <1>1, TypeStep, PTL DEF Spec

-----------------------------------------------------------------------------
(***************************************************************************)
(* The KV budget: only Commit adds to the tracker, and the gates let it    *)
(* add no more than what is left.                                          *)
(***************************************************************************)

\* Every step keeps the reservations within the budget.
LEMMA BudgetStep == TypeOK /\ BudgetRespected /\ [Next]_vars => BudgetRespected'
<1> SUFFICES ASSUME TypeOK, BudgetRespected, [Next]_vars, KvGateRuns
             PROVE  tracker' <= KvBudget
  BY DEF BudgetRespected
<1>1. tracker \in Nat /\ tracker <= KvBudget /\ KvBudget \in Nat
  BY GateConstants DEF TypeOK, BudgetRespected, KvGateRuns, KvBudget
<1>2. ASSUME NEW r \in Requests, NEW q \in Shapes, Commit(r, q)
      PROVE  tracker' <= KvBudget
  <2>1. q \in Request BY AdmissionConstants
  <2>2. QED BY <1>1, <1>2, <2>1, ReservationFits DEF Commit
<1>3. ASSUME NEW r \in Requests, NEW error, Raise(r, error) PROVE tracker' <= KvBudget
  BY <1>1, <1>3 DEF Raise
<1>4. CASE UNCHANGED vars
  BY <1>1, <1>4 DEF vars
<1>5. ASSUME NEW r \in Requests, NEW q \in Shapes, Arrive(r, q) PROVE tracker' <= KvBudget
  BY <1>1, <1>2, <1>3, <1>5
     DEF Arrive, ArriveQueueFull, ArriveNow, ArriveWait, ArriveZeroWait, GatesRaise
<1>6. ASSUME NEW r \in Requests, Timeout(r) \/ Cancel(r) PROVE tracker' <= KvBudget
  BY <1>1, <1>6 DEF Timeout, Cancel, Interrupt
<1>7. ASSUME NEW r \in Requests, Resume(r) PROVE tracker' <= KvBudget
  <2>1. CASE ResumeAcquired(r)
    <3>1. shape[r] \in Shapes BY <2>1 DEF ResumeAcquired, TypeOK
    <3>2. QED BY <1>2, <1>3, <2>1, <3>1 DEF ResumeAcquired, GatesRaise
  <2>2. QED
    BY <1>3, <1>7, <2>1 DEF Resume, ResumeGivingBack, ResumeEmptyHanded, ResumeUnstarted
<1>8. ASSUME NEW r \in Requests, Release(r) PROVE tracker' <= KvBudget
  <2>1. tracker' = Greater(0, tracker - reserved[r]) /\ reserved[r] \in Nat
    BY <1>8 DEF Release, ReleaseStep, TypeOK
  <2>2. QED BY <1>1, <2>1 DEF Greater
<1>9. QED BY <1>4, <1>5, <1>6, <1>7, <1>8 DEF Next

\* Reservations admitted together never exceed the KV budget the engine
\* reported, scaled by the safety margin.
THEOREM BudgetNeverExceeded == Spec => []BudgetRespected
<1>1. Init => BudgetRespected
  BY GateConstants DEF Init, BudgetRespected, KvGateRuns, KvBudget
<1>2. QED BY <1>1, BudgetStep, TypeCorrect, PTL DEF Spec

-----------------------------------------------------------------------------
(***************************************************************************)
(* The wake-up invariant.                                                  *)
(***************************************************************************)

\* Leaving the deque passes permits on until none or no waiter is left.
LEMMA WakeUpWakes ==
  ASSUME NEW left \in [Requests -> Futures], NEW available \in Nat, NEW most \in Nat,
         most <= available, most = 0 => available = 0,
         WakeUp(left, available, most)
  PROVE  NoLostWakeUp'
<1>1. value' > 0 /\ (\E r \in Requests : future'[r] = "pending")
        => \E r \in Requests : future'[r] = "granted"
  BY WakeUpFacts
<1>2. QED BY <1>1 DEF NoLostWakeUp, Pending, Granted

\* No step leaves a free permit and a queued request with nobody woken.
LEMMA WakeUpStep == TypeOK /\ NoLostWakeUp /\ [Next]_vars => NoLostWakeUp'
<1> SUFFICES ASSUME TypeOK, NoLostWakeUp, [Next]_vars PROVE NoLostWakeUp'
  OBVIOUS
<1>1. ASSUME NEW r \in Requests, NEW available \in Nat, WakeUp(Left(r), available, available)
      PROVE  NoLostWakeUp'
  <2> DEFINE left == Left(r)
  <2>1. left \in [Requests -> Futures]
    BY DEF TypeOK, Left, Futures
  <2>2. WakeUp(left, available, available) /\ available <= available
    BY <1>1
  <2> HIDE DEF left
  <2>3. QED BY <2>1, <2>2, WakeUpWakes
<1>2. CASE UNCHANGED vars
  BY <1>2 DEF vars, NoLostWakeUp, Pending, Granted
<1>3. ASSUME NEW r \in Requests, NEW q \in Shapes, Arrive(r, q) PROVE NoLostWakeUp'
  <2>1. CASE ArriveQueueFull(r, q)
    BY <2>1 DEF ArriveQueueFull, semaphore, NoLostWakeUp, Pending, Granted
  <2>2. CASE ArriveNow(r, q)
    <3>1. UNCHANGED future /\ (SequenceGateRuns => Pending = {})
      BY <2>2 DEF ArriveNow, Locked
    <3>2. CASE SequenceGateRuns
      BY <3>1, <3>2 DEF NoLostWakeUp, Pending
    <3>3. CASE ~SequenceGateRuns
      BY <2>2, <3>1, <3>3 DEF ArriveNow, NoLostWakeUp, Pending, Granted
    <3>4. QED BY <3>2, <3>3
  <2>3. CASE ArriveWait(r, q)
    <3>1. /\ future[r] = "none" /\ future' = [future EXCEPT ![r] = "pending"]
          /\ UNCHANGED value /\ value \in Nat
          /\ value = 0 \/ Pending # {} \/ Granted # {}
      BY <2>3 DEF ArriveWait, Locked, TypeOK, FutureMatchesPhase
    <3>2. Granted \subseteq Granted'
      BY <3>1 DEF Granted, TypeOK
    <3>3. QED BY <3>1, <3>2 DEF NoLostWakeUp
  <2>4. CASE ArriveZeroWait(r, q)
    <3>1. /\ future[r] = "none" /\ future' = [future EXCEPT ![r] = "unstarted"]
          /\ UNCHANGED value
      BY <2>4 DEF ArriveZeroWait, TypeOK, FutureMatchesPhase
    <3>2. Granted' = Granted /\ Pending' = Pending
      BY <3>1 DEF Granted, Pending, TypeOK
    <3>3. QED BY <3>1, <3>2 DEF NoLostWakeUp
  <2>5. QED BY <1>3, <2>1, <2>2, <2>3, <2>4 DEF Arrive
<1>4. ASSUME NEW r \in Requests, Timeout(r) \/ Cancel(r) PROVE NoLostWakeUp'
  <2>1. /\ future' = [future EXCEPT ![r] = IF @ = "pending" THEN "cancelled" ELSE @]
        /\ UNCHANGED value
    BY <1>4 DEF Timeout, Cancel, Interrupt
  <2>2. Granted' = Granted /\ Pending' \subseteq Pending
    BY <2>1 DEF Granted, Pending, TypeOK
  <2>3. QED BY <2>1, <2>2 DEF NoLostWakeUp
<1>5. ASSUME NEW r \in Requests, Resume(r) PROVE NoLostWakeUp'
  <2>1. value \in Nat /\ value + 1 \in Nat
    BY DEF TypeOK
  <2>2. CASE ResumeUnstarted(r)
    <3>1. /\ future[r] = "unstarted" /\ future' = [future EXCEPT ![r] = "none"]
          /\ UNCHANGED value
      BY <2>2 DEF ResumeUnstarted, Left
    <3>2. Granted' = Granted /\ Pending' = Pending
      BY <3>1 DEF Granted, Pending, TypeOK
    <3>3. QED BY <3>1, <3>2 DEF NoLostWakeUp
  <2>3. QED
    BY <1>1, <1>5, <2>1, <2>2
       DEF Resume, ResumeAcquired, ResumeGivingBack, ResumeEmptyHanded
<1>6. ASSUME NEW r \in Requests, Release(r) PROVE NoLostWakeUp'
  <2>1. CASE SequenceGateRuns /\ value < MaxNumSeqs
    <3> DEFINE available == value + 1
               most == 1
    <3>1. WakeUp(future, available, most)
      BY <1>6, <2>1 DEF Release, ReleaseStep
    <3>2. /\ available \in Nat /\ most \in Nat /\ most <= available
          /\ most = 0 => available = 0
          /\ future \in [Requests -> Futures]
      BY DEF TypeOK
    <3> HIDE DEF available, most
    <3>3. QED BY <3>1, <3>2, WakeUpWakes
  <2>2. CASE ~(SequenceGateRuns /\ value < MaxNumSeqs)
    BY <1>6, <2>2 DEF Release, ReleaseStep, NoLostWakeUp, Pending, Granted
  <2>3. QED BY <2>1, <2>2
<1>7. QED BY <1>2, <1>3, <1>4, <1>5, <1>6 DEF Next

\* No wake-up is lost: a free permit and a queued request mean that somebody
\* has been woken and will pass the permit on.
THEOREM WakeUpNeverLost == Spec => []NoLostWakeUp
<1>1. Init => NoLostWakeUp
  BY DEF Init, NoLostWakeUp, Pending
<1>2. QED BY <1>1, WakeUpStep, TypeCorrect, PTL DEF Spec

-----------------------------------------------------------------------------
(***************************************************************************)
(* Conservation of permits.                                                *)
(***************************************************************************)

\* A permit is held by a granted waiter or by a running request, never both.
LEMMA HeldApart ==
  TypeOK => /\ IsFiniteSet(Granted) /\ IsFiniteSet(Running)
            /\ Cardinality(Granted) \in Nat /\ Cardinality(Running) \in Nat
            /\ Cardinality(Granted \cup Running) = Cardinality(Granted) + Cardinality(Running)
<1> SUFFICES ASSUME TypeOK
             PROVE  /\ IsFiniteSet(Granted) /\ IsFiniteSet(Running)
                    /\ Cardinality(Granted) \in Nat /\ Cardinality(Running) \in Nat
                    /\ Cardinality(Granted \cup Running)
                         = Cardinality(Granted) + Cardinality(Running)
  OBVIOUS
<1>1. IsFiniteSet(Granted) /\ IsFiniteSet(Running)
  BY AdmissionConstants, FS_Subset DEF Granted, Running
<1>2. Cardinality(Granted) \in Nat /\ Cardinality(Running) \in Nat
  BY <1>1, FS_CardinalityType
<1>3. Granted \cap Running = {}
  BY DEF Granted, Running, TypeOK, FutureMatchesPhase
<1>4. Cardinality(Granted \cup Running)
        = Cardinality(Granted) + Cardinality(Running) - Cardinality(Granted \cap Running)
  BY <1>1, FS_Union
<1>5. Cardinality(Granted \cap Running) = 0
  BY <1>3, FS_EmptySet
<1>6. QED BY <1>1, <1>2, <1>4, <1>5

\* Permits in the semaphore plus permits held, in numbers.
Permits == value + Cardinality(Granted) + Cardinality(Running)

\* Handing permits over moves them from the semaphore to granted waiters.
LEMMA WakeUpConserves ==
  ASSUME NEW left \in [Requests -> Futures], NEW available \in Nat, NEW most \in Nat,
         most <= available, most = 0 => available = 0,
         WakeUp(left, available, most)
  PROVE  value' + Cardinality(Granted')
           = available + Cardinality({s \in Requests : left[s] = "granted"})
BY WakeUpFacts DEF Granted

\* The futures of the other granted waiters, once r has left.
LEMMA GrantedLeft ==
  ASSUME TypeOK, NEW r \in Requests
  PROVE  Cardinality({s \in Requests : Left(r)[s] = "granted"})
           = IF future[r] = "granted" THEN Cardinality(Granted) - 1 ELSE Cardinality(Granted)
<1>1. {s \in Requests : Left(r)[s] = "granted"} = Granted \ {r}
  BY DEF TypeOK, Left, Granted
<1>2. r \in Granted <=> future[r] = "granted"
  BY DEF Granted
<1>3. QED BY <1>1, <1>2, HeldApart, FS_RemoveElement

\* What a change of one phase does to the number of running requests.
LEMMA RunningCount ==
  ASSUME TypeOK, NEW r \in Requests, NEW to \in {"idle", "waiting", "running"},
         phase' = [phase EXCEPT ![r] = to]
  PROVE  Cardinality(Running')
           = Cardinality(Running) + (IF to = "running" THEN 1 ELSE 0)
                                  - (IF phase[r] = "running" THEN 1 ELSE 0)
<1>1. IsFiniteSet(Running) /\ Cardinality(Running) \in Nat
  BY HeldApart
<1>2. r \in Running <=> phase[r] = "running"
  BY DEF Running
<1>3. CASE to = "running"
  <2>1. Running' = Running \cup {r}
    BY <1>3 DEF TypeOK, Running
  <2>2. QED BY <1>1, <1>2, <1>3, <2>1, FS_AddElement
<1>4. CASE to # "running"
  <2>1. Running' = Running \ {r}
    BY <1>4 DEF TypeOK, Running
  <2>2. Cardinality(Running \ {r})
          = IF r \in Running THEN Cardinality(Running) - 1 ELSE Cardinality(Running)
    BY <1>1, FS_RemoveElement
  <2>3. QED BY <1>1, <1>2, <1>4, <2>1, <2>2
<1>5. QED BY <1>3, <1>4

\* A waiter that leaves the deque, having its permit or not, and having
\* given it back or not, neither makes nor loses a permit.
LEMMA LeaveConserves ==
  ASSUME TypeOK, NEW r \in Requests, phase[r] = "waiting",
         NEW to \in {"idle", "running"}, phase' = [phase EXCEPT ![r] = to],
         NEW returned \in {0, 1}, WakeUp(Left(r), value + returned, value + returned),
         returned + (IF to = "running" THEN 1 ELSE 0)
           = (IF future[r] = "granted" THEN 1 ELSE 0)
  PROVE  Permits' = Permits
<1> DEFINE left == Left(r)
           available == value + returned
<1>1. /\ left \in [Requests -> Futures] /\ available \in Nat
      /\ available <= available /\ (available = 0 => available = 0)
      /\ WakeUp(left, available, available)
  BY DEF TypeOK, Left, Futures
<1>2. /\ Cardinality(Running') = Cardinality(Running) + (IF to = "running" THEN 1 ELSE 0)
      /\ Cardinality(Granted) \in Nat /\ Cardinality(Running) \in Nat /\ value \in Nat
  <2>1. Cardinality(Granted) \in Nat /\ Cardinality(Running) \in Nat /\ value \in Nat
    BY HeldApart DEF TypeOK
  <2>2. Cardinality(Running')
          = Cardinality(Running) + (IF to = "running" THEN 1 ELSE 0)
                                 - (IF phase[r] = "running" THEN 1 ELSE 0)
    <3>1. to \in {"idle", "waiting", "running"} OBVIOUS
    <3>2. QED BY <3>1, RunningCount
  <2>3. QED BY <2>1, <2>2
<1>3. Cardinality({s \in Requests : left[s] = "granted"})
        = IF future[r] = "granted" THEN Cardinality(Granted) - 1 ELSE Cardinality(Granted)
  BY GrantedLeft
<1>4. value' + Cardinality(Granted')
        = available + Cardinality({s \in Requests : left[s] = "granted"})
  <2> HIDE DEF left, available
  <2>1. QED BY <1>1, WakeUpConserves
<1> DEFINE n == Cardinality({s \in Requests : left[s] = "granted"})
           g == Cardinality(Granted')
<1>5. n \in Int /\ value' + g = value + returned + n
  BY <1>2, <1>3, <1>4
<1>6. n + returned + (IF to = "running" THEN 1 ELSE 0) = Cardinality(Granted)
  BY <1>2, <1>3
<1>7. Permits' = (value' + g) + Cardinality(Running')
  BY DEF Permits
<1> HIDE DEF n, g, left, available
<1>8. QED BY <1>2, <1>5, <1>6, <1>7 DEF Permits

\* No step makes or loses a permit while no permit is missing.
LEMMA PermitStep ==
  ASSUME TypeOK, SequenceGateRuns, Permits = MaxNumSeqs, [Next]_vars
  PROVE  Permits' = MaxNumSeqs
<1>1. /\ value \in Nat /\ Cardinality(Granted) \in Nat /\ Cardinality(Running) \in Nat
      /\ MaxNumSeqs \in Nat
      /\ value + Cardinality(Granted) + Cardinality(Running) = MaxNumSeqs
  BY HeldApart, MaxNumSeqsType DEF TypeOK, Permits, Positive
<1>2. ASSUME UNCHANGED value, Granted' = Granted, Running' = Running
      PROVE  Permits' = MaxNumSeqs
  BY <1>1, <1>2 DEF Permits
<1>3. CASE UNCHANGED vars
  BY <1>2, <1>3 DEF vars, Granted, Running
<1>4. ASSUME NEW r \in Requests, NEW q \in Shapes, Arrive(r, q) PROVE Permits' = MaxNumSeqs
  <2>1. CASE ArriveQueueFull(r, q)
    <3>1. phase' = [phase EXCEPT ![r] = "idle"] /\ phase[r] = "idle"
          /\ UNCHANGED <<value, future>>
      BY <2>1 DEF ArriveQueueFull, Raise, semaphore
    <3>2. QED BY <1>2, <3>1 DEF Granted, Running, TypeOK
  <2>2. CASE ArriveNow(r, q)
    <3>1. phase[r] = "idle" /\ UNCHANGED future /\ value # 0
      BY <2>2 DEF ArriveNow, Locked
    <3>2. Granted' = Granted
      BY <3>1 DEF Granted
    <3>3. CASE Commit(r, q) /\ value' = value - 1
      <4>1. phase' = [phase EXCEPT ![r] = "running"] /\ "running" \in {"idle", "waiting", "running"}
        BY <3>3 DEF Commit
      <4>2. Cardinality(Running')
              = Cardinality(Running) + (IF "running" = "running" THEN 1 ELSE 0)
                                     - (IF phase[r] = "running" THEN 1 ELSE 0)
        BY <4>1, RunningCount
      <4>3. Cardinality(Running') = Cardinality(Running) + 1
        BY <1>1, <3>1, <4>2
      <4>4. QED BY <1>1, <3>2, <3>3, <4>3 DEF Permits
    <3>4. CASE GatesRaise(r, q) /\ UNCHANGED value
      <4>1. Running' = Running
        BY <3>1, <3>4 DEF GatesRaise, Raise, Running, TypeOK
      <4>2. QED BY <1>2, <3>2, <3>4, <4>1
    <3>5. QED BY <2>2, <3>3, <3>4 DEF ArriveNow
  <2>3. CASE ArriveWait(r, q)
    <3>1. /\ phase[r] = "idle" /\ future[r] = "none"
          /\ phase' = [phase EXCEPT ![r] = "waiting"]
          /\ future' = [future EXCEPT ![r] = "pending"]
          /\ UNCHANGED value
      BY <2>3 DEF ArriveWait, TypeOK, FutureMatchesPhase
    <3>2. Granted' = Granted /\ Running' = Running
      BY <3>1 DEF Granted, Running, TypeOK
    <3>3. QED BY <1>2, <3>1, <3>2
  <2>4. CASE ArriveZeroWait(r, q)
    <3>1. /\ phase[r] = "idle" /\ future[r] = "none"
          /\ phase' = [phase EXCEPT ![r] = "waiting"]
          /\ future' = [future EXCEPT ![r] = "unstarted"]
          /\ UNCHANGED value
      BY <2>4 DEF ArriveZeroWait, TypeOK, FutureMatchesPhase
    <3>2. Granted' = Granted /\ Running' = Running
      BY <3>1 DEF Granted, Running, TypeOK
    <3>3. QED BY <1>2, <3>1, <3>2
  <2>5. QED BY <1>4, <2>1, <2>2, <2>3, <2>4 DEF Arrive
<1>5. ASSUME NEW r \in Requests, Timeout(r) \/ Cancel(r) PROVE Permits' = MaxNumSeqs
  <2>1. /\ future' = [future EXCEPT ![r] = IF @ = "pending" THEN "cancelled" ELSE @]
        /\ UNCHANGED <<phase, value>>
    BY <1>5 DEF Timeout, Cancel, Interrupt
  <2>2. Granted' = Granted /\ Running' = Running
    BY <2>1 DEF Granted, Running, TypeOK
  <2>3. QED BY <1>2, <2>1, <2>2
<1>6. ASSUME NEW r \in Requests, Resume(r) PROVE Permits' = MaxNumSeqs
  <2>1. phase[r] = "waiting"
    BY <1>6 DEF Resume, ResumeAcquired, ResumeGivingBack, ResumeEmptyHanded, ResumeUnstarted
  <2>2. value + 0 = value
    BY <1>1
  <2>3. ASSUME future[r] = "granted", phase' = [phase EXCEPT ![r] = "running"],
               WakeUp(Left(r), value, value)
        PROVE  Permits' = Permits
    <3> DEFINE to == "running"
               returned == 0
    <3>1. /\ to \in {"idle", "running"} /\ returned \in {0, 1}
          /\ phase' = [phase EXCEPT ![r] = to]
          /\ WakeUp(Left(r), value + returned, value + returned)
          /\ returned + (IF to = "running" THEN 1 ELSE 0)
               = (IF future[r] = "granted" THEN 1 ELSE 0)
      BY <2>2, <2>3
    <3> HIDE DEF to, returned
    <3>2. QED BY <2>1, <3>1, LeaveConserves
  <2>4. ASSUME future[r] = "granted", phase' = [phase EXCEPT ![r] = "idle"],
               WakeUp(Left(r), value + 1, value + 1)
        PROVE  Permits' = Permits
    <3> DEFINE to == "idle"
               returned == 1
    <3>1. /\ to \in {"idle", "running"} /\ returned \in {0, 1}
          /\ phase' = [phase EXCEPT ![r] = to]
          /\ WakeUp(Left(r), value + returned, value + returned)
          /\ returned + (IF to = "running" THEN 1 ELSE 0)
               = (IF future[r] = "granted" THEN 1 ELSE 0)
      BY <2>4
    <3> HIDE DEF to, returned
    <3>2. QED BY <2>1, <3>1, LeaveConserves
  <2>5. ASSUME future[r] = "cancelled", phase' = [phase EXCEPT ![r] = "idle"],
               WakeUp(Left(r), value, value)
        PROVE  Permits' = Permits
    <3> DEFINE to == "idle"
               returned == 0
    <3>1. /\ to \in {"idle", "running"} /\ returned \in {0, 1}
          /\ phase' = [phase EXCEPT ![r] = to]
          /\ WakeUp(Left(r), value + returned, value + returned)
          /\ returned + (IF to = "running" THEN 1 ELSE 0)
               = (IF future[r] = "granted" THEN 1 ELSE 0)
      BY <2>2, <2>5
    <3> HIDE DEF to, returned
    <3>2. QED BY <2>1, <3>1, LeaveConserves
  <2>6. CASE ResumeAcquired(r)
    BY <2>3, <2>4, <2>6 DEF ResumeAcquired, Commit, GatesRaise, Raise
  <2>7. CASE ResumeGivingBack(r)
    BY <2>4, <2>7 DEF ResumeGivingBack, Raise
  <2>8. CASE ResumeEmptyHanded(r)
    BY <2>5, <2>8 DEF ResumeEmptyHanded, Raise
  <2>9. CASE ResumeUnstarted(r)
    <3>1. /\ future[r] = "unstarted" /\ future' = [future EXCEPT ![r] = "none"]
          /\ phase' = [phase EXCEPT ![r] = "idle"] /\ UNCHANGED value
      BY <2>9 DEF ResumeUnstarted, Left, Raise
    <3>2. Granted' = Granted /\ Running' = Running
      BY <2>1, <3>1 DEF Granted, Running, TypeOK
    <3>3. QED BY <1>2, <3>1, <3>2 DEF Permits
  <2>10. QED BY <1>6, <2>6, <2>7, <2>8, <2>9 DEF Resume
<1>7. ASSUME NEW r \in Requests, Release(r) PROVE Permits' = MaxNumSeqs
  <2>1. phase[r] = "running" /\ phase' = [phase EXCEPT ![r] = "idle"]
    BY <1>7 DEF Release, ReleaseStep
  <2>2. Running' = Running \ {r} /\ r \in Running /\ IsFiniteSet(Running)
    BY <2>1, HeldApart DEF Running, TypeOK
  <2>3. Cardinality(Running') = Cardinality(Running) - 1
    BY <2>2, FS_RemoveElement
  <2>4. Cardinality(Running') \in Nat
    BY <2>2, FS_RemoveElement, FS_CardinalityType
  <2>5. value < MaxNumSeqs
    BY <1>1, <2>3, <2>4
  <2> DEFINE available == value + 1
             most == 1
  <2>6. WakeUp(future, available, most)
    BY <1>7, <2>5 DEF Release, ReleaseStep
  <2>7. /\ available \in Nat /\ most \in Nat /\ most <= available
        /\ most = 0 => available = 0
        /\ future \in [Requests -> Futures]
    BY DEF TypeOK
  <2>8. value' + Cardinality(Granted')
          = available + Cardinality({s \in Requests : future[s] = "granted"})
    <3> HIDE DEF available, most
    <3>1. QED BY <2>6, <2>7, WakeUpConserves
  <2>9. value' + Cardinality(Granted') = value + 1 + Cardinality(Granted)
    BY <2>8 DEF Granted
  <2>10. QED BY <1>1, <2>3, <2>9 DEF Permits
<1>8. QED BY <1>3, <1>4, <1>5, <1>6, <1>7 DEF Next

\* Every permit is in the semaphore, on its way to a woken waiter, or with a
\* running request, whatever times out, is cancelled or is refused.
THEOREM PermitsConserved == Spec => []PermitConservation
<1>1. CASE SequenceGateRuns
  <2>1. Init => Permits = MaxNumSeqs
    <3> SUFFICES ASSUME Init PROVE Permits = MaxNumSeqs
      OBVIOUS
    <3>1. Granted = {} /\ Running = {} /\ value = MaxNumSeqs
      BY <1>1 DEF Init, Granted, Running
    <3>2. MaxNumSeqs \in Nat
      BY <1>1, MaxNumSeqsType DEF Positive
    <3>3. QED BY <3>1, <3>2, FS_EmptySet DEF Permits
  <2>2. TypeOK /\ Permits = MaxNumSeqs /\ [Next]_vars => (Permits = MaxNumSeqs)'
    BY <1>1, PermitStep
  <2>3. TypeOK /\ Permits = MaxNumSeqs => PermitConservation
    BY HeldApart DEF PermitConservation, Permits, TypeOK
  <2>4. QED BY <2>1, <2>2, <2>3, TypeCorrect, PTL DEF Spec
<1>2. CASE ~SequenceGateRuns
  <2>1. PermitConservation
    BY <1>2 DEF PermitConservation
  <2>2. QED BY <2>1, PTL
<1>3. QED BY <1>1, <1>2

\* Never more requests in flight than the tier's sequence limit.
THEOREM InFlightNeverExceedsLimit == Spec => []InFlightBounded
<1>1. TypeOK /\ PermitConservation => InFlightBounded
  <2> SUFFICES ASSUME TypeOK, PermitConservation, SequenceGateRuns
               PROVE  Cardinality(Running) <= MaxNumSeqs
    BY DEF InFlightBounded
  <2>1. /\ value \in Nat /\ Cardinality(Granted) \in Nat /\ Cardinality(Running) \in Nat
        /\ value + (Cardinality(Granted) + Cardinality(Running)) = MaxNumSeqs
    BY HeldApart DEF PermitConservation, TypeOK
  <2>2. QED BY <2>1
<1>2. QED BY <1>1, TypeCorrect, PermitsConserved, PTL

-----------------------------------------------------------------------------
(***************************************************************************)
(* The count of batch waiters.                                             *)
(***************************************************************************)

\* One more waiting request, one more batch waiter if it is a batch request.
LEMMA WaitingGrows ==
  ASSUME TypeOK, BatchAccounting, NEW r \in Requests, NEW q \in Shapes,
         phase[r] = "idle", SequenceGateRuns, PassesWaiterCap(q),
         phase' = [phase EXCEPT ![r] = "waiting"], shape' = [shape EXCEPT ![r] = q],
         BatchWaits(q, 1)
  PROVE  BatchAccounting'
<1>1. /\ IsFiniteSet(BatchWaiting) /\ Cardinality(BatchWaiting) \in Nat
      /\ batchWaiters = Cardinality(BatchWaiting)
  BY AdmissionConstants, FS_Subset, FS_CardinalityType
     DEF BatchAccounting, BatchWaiting, Waiting
<1>2. r \notin BatchWaiting /\ WaiterCap \in Nat
  BY MaxNumSeqsType, AdmissionConstants DEF BatchWaiting, Waiting, WaiterCap, Positive
<1>3. CASE q.priority = "batch"
  <2>1. BatchWaiting' = BatchWaiting \cup {r}
    BY <1>3 DEF BatchWaiting, Waiting, TypeOK
  <2>2. batchWaiters' = batchWaiters + 1 /\ batchWaiters < WaiterCap
    BY <1>1, <1>3 DEF BatchWaits, Greater, PassesWaiterCap
  <2>3. Cardinality(BatchWaiting') = Cardinality(BatchWaiting) + 1
    BY <1>1, <1>2, <2>1, FS_AddElement
  <2>4. QED BY <1>1, <1>2, <2>2, <2>3 DEF BatchAccounting
<1>4. CASE q.priority # "batch"
  <2>1. BatchWaiting' = BatchWaiting
    BY <1>2, <1>4 DEF BatchWaiting, Waiting, TypeOK
  <2>2. batchWaiters' = batchWaiters
    BY <1>4 DEF BatchWaits
  <2>3. QED BY <2>1, <2>2 DEF BatchAccounting
<1>5. QED BY <1>3, <1>4

\* One waiting request fewer, one batch waiter fewer if it was one.
LEMMA WaitingShrinks ==
  ASSUME TypeOK, BatchAccounting, NEW r \in Requests, NEW to \in {"idle", "running"},
         phase[r] = "waiting", phase' = [phase EXCEPT ![r] = to],
         \A s \in Requests : s # r => shape'[s] = shape[s],
         BatchWaits(shape[r], -1)
  PROVE  BatchAccounting'
<1>1. /\ IsFiniteSet(BatchWaiting) /\ Cardinality(BatchWaiting) \in Nat
      /\ batchWaiters = Cardinality(BatchWaiting)
  BY AdmissionConstants, FS_Subset, FS_CardinalityType
     DEF BatchAccounting, BatchWaiting, Waiting
<1>2. BatchWaiting' = BatchWaiting \ {r}
  BY DEF BatchWaiting, Waiting, TypeOK
<1>3. /\ IsFiniteSet(BatchWaiting') /\ Cardinality(BatchWaiting') \in Nat
      /\ Cardinality(BatchWaiting') = IF r \in BatchWaiting
                                        THEN Cardinality(BatchWaiting) - 1
                                        ELSE Cardinality(BatchWaiting)
  BY <1>1, <1>2, FS_RemoveElement, FS_CardinalityType
<1>4. r \in BatchWaiting <=> shape[r].priority = "batch"
  BY DEF BatchWaiting, Waiting
<1>5. batchWaiters' = Cardinality(BatchWaiting')
  BY <1>1, <1>3, <1>4 DEF BatchWaits, Greater
<1>6. SequenceGateRuns => WaiterCap \in Nat
  BY MaxNumSeqsType, AdmissionConstants DEF WaiterCap, Positive
<1>7. QED BY <1>1, <1>3, <1>5, <1>6 DEF BatchAccounting

\* A step that neither starts nor ends a wait leaves the count alone.
LEMMA WaitingStays ==
  ASSUME TypeOK, BatchAccounting, UNCHANGED batchWaiters,
         \A r \in Requests : phase'[r] = "waiting" <=> phase[r] = "waiting",
         \A r \in Requests : phase[r] = "waiting" => shape'[r] = shape[r]
  PROVE  BatchAccounting'
<1>1. BatchWaiting' = BatchWaiting
  BY DEF BatchWaiting, Waiting
<1>2. QED BY <1>1 DEF BatchAccounting

\* Every step keeps the count of batch waiters exact and within the cap.
LEMMA BatchStep == TypeOK /\ BatchAccounting /\ [Next]_vars => BatchAccounting'
<1> SUFFICES ASSUME TypeOK, BatchAccounting, [Next]_vars PROVE BatchAccounting'
  OBVIOUS
<1>1. CASE UNCHANGED vars
  BY <1>1, WaitingStays DEF vars
<1>2. ASSUME NEW r \in Requests, NEW q \in Shapes, Arrive(r, q) PROVE BatchAccounting'
  <2>1. CASE ArriveQueueFull(r, q)
    BY <2>1, WaitingStays DEF ArriveQueueFull, Raise, TypeOK
  <2>2. CASE ArriveNow(r, q)
    BY <2>2, WaitingStays DEF ArriveNow, Commit, GatesRaise, Raise, TypeOK
  <2>3. CASE ArriveWait(r, q)
    BY <2>3, WaitingGrows DEF ArriveWait
  <2>4. CASE ArriveZeroWait(r, q)
    BY <2>4, WaitingGrows DEF ArriveZeroWait
  <2>5. QED BY <1>2, <2>1, <2>2, <2>3, <2>4 DEF Arrive
<1>3. ASSUME NEW r \in Requests, Timeout(r) \/ Cancel(r) PROVE BatchAccounting'
  BY <1>3, WaitingStays DEF Timeout, Cancel, Interrupt
<1>4. ASSUME NEW r \in Requests, Resume(r) PROVE BatchAccounting'
  <2>1. phase[r] = "waiting" /\ BatchWaits(shape[r], -1)
    BY <1>4 DEF Resume, ResumeAcquired, ResumeGivingBack, ResumeEmptyHanded,
                ResumeUnstarted, LeaveDeque
  <2>2. PICK to \in {"idle", "running"} : phase' = [phase EXCEPT ![r] = to]
    BY <1>4 DEF Resume, ResumeAcquired, ResumeGivingBack, ResumeEmptyHanded,
                ResumeUnstarted, Commit, GatesRaise, Raise
  <2>3. \A s \in Requests : s # r => shape'[s] = shape[s]
    BY <1>4 DEF Resume, ResumeAcquired, ResumeGivingBack, ResumeEmptyHanded,
                ResumeUnstarted, Commit, GatesRaise, Raise, TypeOK
  <2>4. QED BY <2>1, <2>2, <2>3, WaitingShrinks
<1>5. ASSUME NEW r \in Requests, Release(r) PROVE BatchAccounting'
  BY <1>5, WaitingStays DEF Release, ReleaseStep, TypeOK
<1>6. QED BY <1>1, <1>2, <1>3, <1>4, <1>5 DEF Next

\* The counter behind the batch-queue cap counts the batch requests that are
\* waiting, exactly, and never passes the cap.
THEOREM BatchWaitersExact == Spec => []BatchAccounting
<1>1. Init => BatchAccounting
  <2> SUFFICES ASSUME Init PROVE BatchAccounting
    OBVIOUS
  <2>1. BatchWaiting = {} /\ batchWaiters = 0
    BY DEF Init, BatchWaiting, Waiting
  <2>2. SequenceGateRuns => WaiterCap \in Nat
    BY MaxNumSeqsType, AdmissionConstants DEF WaiterCap, Positive
  <2>3. QED BY <2>1, <2>2, FS_EmptySet DEF BatchAccounting
<1>2. QED BY <1>1, BatchStep, TypeCorrect, PTL DEF Spec

-----------------------------------------------------------------------------
(***************************************************************************)
(* The tracker and the reservations of the running requests.               *)
(***************************************************************************)

\* What is known of the reservations of the running requests.
LEMMA ReservedSum ==
  ASSUME TypeOK
  PROVE  /\ IsFiniteSet(Running)
         /\ \A r \in Running : reserved[r] \in Int /\ reserved[r] \in Nat
         /\ SumFunctionOnSet(reserved, Running) \in Nat
<1>1. IsFiniteSet(Running)
  BY AdmissionConstants, FS_Subset DEF Running
<1>2. \A r \in Running : reserved[r] \in Nat
  BY DEF TypeOK, Running
<1>3. QED BY <1>1, <1>2, SumIsNatural

\* A commit adds its tokens to the tracker and one request to the running.
LEMMA TrackerCommits ==
  ASSUME TypeOK, TypeOK', TrackerIsSum, NEW r \in Requests, NEW q \in Shapes,
         phase[r] # "running", Commit(r, q)
  PROVE  TrackerIsSum'
<1> DEFINE ran == Running'
           kept == reserved'
<1>1. r \in ran /\ ran \ {r} = Running /\ kept[r] = ReservedTokens(q, tracker)
  BY DEF Commit, Running, TypeOK
<1>2. IsFiniteSet(ran) /\ \A s \in ran : kept[s] \in Int
  <2>1. IsFiniteSet(ran)
    BY AdmissionConstants, FS_Subset DEF Running
  <2>2. QED BY <2>1 DEF TypeOK, Running
<1>3. SumFunctionOnSet(kept, Running) = SumFunctionOnSet(reserved, Running)
  <2>1. \A s \in Running : reserved[s] \in Int /\ kept[s] = reserved[s]
    BY DEF TypeOK, Commit, Running
  <2> HIDE DEF kept
  <2>2. QED BY <2>1, ReservedSum, SumOfEqualValues
<1>4. tracker' = tracker + kept[r] /\ tracker \in Nat /\ kept[r] \in Nat
  BY <1>1 DEF Commit, TypeOK
<1>5. tracker' = SumFunctionOnSet(kept, ran)
  <2> HIDE DEF kept, ran
  <2>1. SumFunctionOnSet(kept, ran) = kept[r] + SumFunctionOnSet(kept, ran \ {r})
    BY <1>1, <1>2, SumWithElement
  <2>2. SumFunctionOnSet(kept, ran \ {r}) = tracker
    BY <1>1, <1>3 DEF TrackerIsSum
  <2>3. QED BY <1>4, <2>1, <2>2
<1>6. QED BY <1>5 DEF TrackerIsSum

\* A release takes exactly its own tokens off: the others' sum is not
\* negative, so the clamp at zero changes nothing.
LEMMA TrackerReleases ==
  ASSUME TypeOK, TrackerIsSum, NEW r \in Requests, Release(r)
  PROVE  TrackerIsSum'
<1> DEFINE ran == Running'
           kept == reserved'
<1>1. r \in Running /\ ran = Running \ {r}
  BY DEF Release, ReleaseStep, Running, TypeOK
<1>2. IsFiniteSet(ran) /\ \A s \in ran : reserved[s] \in Nat /\ kept[s] = reserved[s]
  BY <1>1, ReservedSum, FS_Subset DEF Release, ReleaseStep, TypeOK, Running
<1>3. SumFunctionOnSet(kept, ran) = SumFunctionOnSet(reserved, ran)
  <2>1. \A s \in ran : reserved[s] \in Int /\ kept[s] = reserved[s]
    BY <1>2
  <2> HIDE DEF kept, ran
  <2>2. QED BY <1>2, <2>1, SumOfEqualValues
<1>4. SumFunctionOnSet(reserved, ran) \in Nat
  <2> HIDE DEF kept, ran
  <2> QED BY <1>2, SumIsNatural
<1>5. tracker = reserved[r] + SumFunctionOnSet(reserved, ran)
  <2> HIDE DEF kept, ran
  <2> QED BY <1>1, ReservedSum, SumWithElement DEF TrackerIsSum
<1>6. tracker' = SumFunctionOnSet(kept, ran)
  <2>1. reserved[r] \in Nat /\ tracker' = Greater(0, tracker - reserved[r])
    BY DEF Release, ReleaseStep, TypeOK
  <2> HIDE DEF kept, ran
  <2>2. QED BY <1>3, <1>4, <1>5, <2>1 DEF Greater
<1>7. QED BY <1>6 DEF TrackerIsSum

\* Any other step leaves the running requests and their reservations alone.
LEMMA TrackerStays ==
  ASSUME TrackerIsSum, Running' = Running, UNCHANGED <<reserved, tracker>>
  PROVE  TrackerIsSum'
BY DEF TrackerIsSum

\* Every step keeps the tracker the sum of the reservations.
LEMMA TrackerStep == TypeOK /\ TypeOK' /\ TrackerIsSum /\ [Next]_vars => TrackerIsSum'
<1> SUFFICES ASSUME TypeOK, TypeOK', TrackerIsSum, [Next]_vars PROVE TrackerIsSum'
  OBVIOUS
<1>1. CASE UNCHANGED vars
  BY <1>1, TrackerStays DEF vars, Running
<1>2. ASSUME NEW r \in Requests, NEW error, phase[r] # "running", Raise(r, error)
      PROVE  TrackerIsSum'
  <2>1. Running' = Running
    BY <1>2 DEF Raise, Running, TypeOK
  <2>2. QED BY <1>2, <2>1, TrackerStays DEF Raise
<1>3. ASSUME NEW r \in Requests, NEW q \in Shapes, Arrive(r, q) PROVE TrackerIsSum'
  <2>1. CASE ArriveQueueFull(r, q)
    BY <1>2, <2>1 DEF ArriveQueueFull
  <2>2. CASE ArriveNow(r, q)
    BY <1>2, <2>2, TrackerCommits DEF ArriveNow, GatesRaise
  <2>3. CASE ArriveWait(r, q) \/ ArriveZeroWait(r, q)
    <3>1. Running' = Running
      BY <2>3 DEF ArriveWait, ArriveZeroWait, Running, TypeOK
    <3>2. QED BY <2>3, <3>1, TrackerStays DEF ArriveWait, ArriveZeroWait
  <2>4. QED BY <1>3, <2>1, <2>2, <2>3 DEF Arrive
<1>4. ASSUME NEW r \in Requests, Timeout(r) \/ Cancel(r) PROVE TrackerIsSum'
  BY <1>4, TrackerStays DEF Timeout, Cancel, Interrupt, Running
<1>5. ASSUME NEW r \in Requests, Resume(r) PROVE TrackerIsSum'
  <2>1. phase[r] = "waiting" /\ shape[r] \in Shapes
    BY <1>5 DEF Resume, ResumeAcquired, ResumeGivingBack, ResumeEmptyHanded,
                ResumeUnstarted, TypeOK
  <2>2. Commit(r, shape[r]) \/ GatesRaise(r, shape[r]) \/ Raise(r, Outcome(wake[r]))
    BY <1>5 DEF Resume, ResumeAcquired, ResumeGivingBack, ResumeEmptyHanded,
                ResumeUnstarted
  <2>3. QED BY <1>2, <2>1, <2>2, TrackerCommits DEF GatesRaise
<1>6. ASSUME NEW r \in Requests, Release(r) PROVE TrackerIsSum'
  BY <1>6, TrackerReleases
<1>7. QED BY <1>1, <1>3, <1>4, <1>5, <1>6 DEF Next

\* The counter of reserved tokens is at all times the sum of what the running
\* requests hold: no reservation is lost, counted twice or clamped away.
THEOREM TrackerIsExact == Spec => []TrackerIsSum
<1>1. Init => TrackerIsSum
  <2> SUFFICES ASSUME Init PROVE TrackerIsSum
    OBVIOUS
  <2>1. Running = {} /\ tracker = 0
    BY DEF Init, Running
  <2>2. QED BY <2>1, SumOfNothing DEF TrackerIsSum
<1>2. QED BY <1>1, TrackerStep, TypeCorrect, PTL DEF Spec

-----------------------------------------------------------------------------
(***************************************************************************)
(* What the invariants say together.                                       *)
(***************************************************************************)

\* Nobody queues beside an idle slot: while a request is queued, either all the
\* slots are with running requests, or a hand-over is under way
\* (admission.py:311-347).
THEOREM NobodyWaitsBesideIdleSlot ==
  Spec => [](SequenceGateRuns /\ Pending # {} =>
               Granted # {} \/ Cardinality(Running) = MaxNumSeqs)
<1> DEFINE Busy == SequenceGateRuns /\ Pending # {} =>
                     Granted # {} \/ Cardinality(Running) = MaxNumSeqs
<1>1. TypeOK /\ PermitConservation /\ NoLostWakeUp => Busy
  <2> SUFFICES ASSUME TypeOK, PermitConservation, NoLostWakeUp, SequenceGateRuns,
                      Pending # {}, Granted = {}
               PROVE  Cardinality(Running) = MaxNumSeqs
    OBVIOUS
  <2>1. value = 0
    BY DEF NoLostWakeUp, TypeOK
  <2>2. Granted \cup Running = Running
    OBVIOUS
  <2>3. value + Cardinality(Running) = MaxNumSeqs /\ Cardinality(Running) \in Nat
    BY <2>2, HeldApart DEF PermitConservation
  <2>4. QED BY <2>1, <2>3
<1>2. QED BY <1>1, TypeCorrect, PermitsConserved, WakeUpNeverLost, PTL

\* Nothing leaks: whenever no request is in flight, whatever refusals, time-outs
\* and cancellations there were, every permit is back in the semaphore, the
\* deque is empty, and no batch waiter is counted and no token reserved.
Quiet == \A r \in Requests : phase[r] = "idle"

THEOREM NothingLeaks ==
  Spec => [](Quiet => /\ SequenceGateRuns => value = MaxNumSeqs
                      /\ waiters = <<>> /\ batchWaiters = 0 /\ tracker = 0)
<1> DEFINE Clean == Quiet => /\ SequenceGateRuns => value = MaxNumSeqs
                             /\ waiters = <<>> /\ batchWaiters = 0 /\ tracker = 0
<1>1. TypeOK /\ PermitConservation /\ BatchAccounting /\ TrackerIsSum => Clean
  <2> SUFFICES ASSUME TypeOK, PermitConservation, BatchAccounting, TrackerIsSum, Quiet
               PROVE  /\ SequenceGateRuns => value = MaxNumSeqs
                      /\ waiters = <<>> /\ batchWaiters = 0 /\ tracker = 0
    OBVIOUS
  <2>1. \A r \in Requests : future[r] = "none"
    BY DEF Quiet, TypeOK, FutureMatchesPhase
  <2>2. Granted = {} /\ Running = {} /\ BatchWaiting = {}
    BY <2>1 DEF Quiet, Granted, Running, BatchWaiting, Waiting
  <2>3. SequenceGateRuns => value = MaxNumSeqs
    <3>1. Granted \cup Running = {}
      BY <2>2
    <3>2. Cardinality(Granted \cup Running) = 0 /\ value \in Nat
      BY <3>1, FS_EmptySet DEF TypeOK
    <3>3. QED BY <3>2 DEF PermitConservation
  <2>4. batchWaiters = 0
    BY <2>2, FS_EmptySet DEF BatchAccounting
  <2>5. tracker = 0
    BY <2>2, SumOfNothing DEF TrackerIsSum
  <2>6. waiters = <<>>
    <3>1. waiters \in Seq(Requests)
      BY DEF TypeOK
    <3>2. ~(\E i \in 1..Len(waiters) : waiters[i] \in Requests)
      BY <2>1 DEF TypeOK, DequeExact
    <3>3. \A i \in 1..Len(waiters) : waiters[i] \in Requests
      BY <3>1
    <3>4. Len(waiters) = 0
      <4>1. Len(waiters) \in Nat /\ (1 <= Len(waiters) => 1 \in 1..Len(waiters))
        BY <3>1
      <4>2. ~(1 <= Len(waiters))
        BY <3>2, <3>3, <4>1
      <4>3. QED BY <4>1, <4>2
    <3>5. QED BY <3>1, <3>4
  <2>7. QED BY <2>3, <2>4, <2>5, <2>6
<1>2. QED BY <1>1, TypeCorrect, PermitsConserved, BatchWaitersExact, TrackerIsExact, PTL

\* FreeSlotAdmits fails because of waits of 0 s and for no other reason: when
\* no request has one, a request that finds a free slot never queues.
THEOREM FreeSlotAdmitsUnlessZeroWait ==
  ASSUME \A q \in Shapes : q.priority \notin ZeroWait
  PROVE  Spec => FreeSlotAdmits
<1> DEFINE Direct == \A r \in Requests :
                       phase[r] = "idle" /\ ~Locked /\ phase'[r] = "waiting" => FALSE
<1>1. ASSUME TypeOK, Next, NEW r \in Requests, phase[r] = "idle", ~Locked
      PROVE  phase'[r] # "waiting"
  <2>1. PICK s \in Requests :
          \/ \E q \in Shapes : Arrive(s, q)
          \/ Timeout(s) \/ Cancel(s) \/ Resume(s) \/ Release(s)
    BY <1>1 DEF Next
  <2>2. CASE s # r
    <3>1. UNCHANGED phase \/ \E p \in {"idle", "waiting", "running"} : phase' = [phase EXCEPT ![s] = p]
      BY <2>1 DEF Arrive, ArriveQueueFull, ArriveNow, ArriveWait, ArriveZeroWait, Timeout,
                  Cancel, Interrupt, Resume, ResumeAcquired, ResumeGivingBack,
                  ResumeEmptyHanded, ResumeUnstarted, Release, ReleaseStep, GatesRaise,
                  Raise, Commit
    <3>2. QED BY <1>1, <2>2, <3>1 DEF TypeOK
  <2>3. CASE s = r
    <3>1. PICK q \in Shapes : Arrive(r, q)
      BY <1>1, <2>1, <2>3
         DEF Timeout, Cancel, Interrupt, Resume, ResumeAcquired, ResumeGivingBack,
             ResumeEmptyHanded, ResumeUnstarted, Release, ReleaseStep
    <3>2. ArriveQueueFull(r, q) \/ ArriveNow(r, q)
      BY <1>1, <3>1 DEF Arrive, ArriveWait, ArriveZeroWait
    <3>3. phase' = [phase EXCEPT ![r] = "idle"] \/ phase' = [phase EXCEPT ![r] = "running"]
      BY <3>2 DEF ArriveQueueFull, ArriveNow, GatesRaise, Raise, Commit
    <3>4. QED BY <1>1, <3>3 DEF TypeOK
  <2>4. QED BY <2>2, <2>3
<1>2. TypeOK /\ [Next]_vars => [Direct]_vars
  BY <1>1
<1>3. QED BY <1>2, TypeCorrect, PTL DEF Spec, FreeSlotAdmits
=============================================================================
