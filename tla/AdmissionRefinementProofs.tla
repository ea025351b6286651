---------------------- MODULE AdmissionRefinementProofs ----------------------
(***************************************************************************)
(* The gate implements SequenceSlots, for any number of clients and        *)
(* permits: every step of the semaphore is one step of the slots, or none. *)
(* (The fairness of SequenceSlots is left to model checking.)              *)
(***************************************************************************)
EXTENDS AdmissionRefinement, AdmissionProofs

\* A request that has just joined the deque stands behind all others, whose
\* order is as it was.
LEMMA AppendedOrder ==
  ASSUME waiters \in Seq(Requests), NEW r \in Requests, waiters' = Append(waiters, r),
         \A i \in 1..Len(waiters) : waiters[i] # r
  PROVE  /\ \A s, t \in Requests : t # r => (Ahead(s, t)' <=> Ahead(s, t))
         /\ \A s \in Requests : Ahead(s, r)' <=> \E i \in 1..Len(waiters) : waiters[i] = s
<1> DEFINE n == Len(waiters)
<1>1. /\ n \in Nat /\ Len(waiters') = n + 1 /\ waiters'[n + 1] = r
      /\ \A i \in 1..n : waiters'[i] = waiters[i] /\ waiters[i] # r
  OBVIOUS
<1> HIDE DEF n
<1>2. \A i \in 1..(n + 1) : i \in 1..n \/ i = n + 1
  BY <1>1
<1>3. 1..n \subseteq 1..(n + 1) /\ n + 1 \in 1..(n + 1) /\ \A i \in 1..n : i < n + 1
  BY <1>1
<1>4. ASSUME NEW s \in Requests, NEW t \in Requests, t # r
      PROVE  Ahead(s, t)' <=> Ahead(s, t)
  <2>1. ASSUME NEW i \in 1..(n + 1), NEW j \in 1..(n + 1), i < j,
               waiters'[i] = s, waiters'[j] = t
        PROVE  Ahead(s, t)
    <3>1. j \in 1..n
      BY <1>1, <1>2, <1>4, <2>1
    <3>2. i \in 1..n
      BY <1>1, <2>1, <3>1
    <3>3. QED BY <1>1, <2>1, <3>1, <3>2 DEF Ahead, n
  <2>2. ASSUME NEW i \in 1..n, NEW j \in 1..n, i < j, waiters[i] = s, waiters[j] = t
        PROVE  Ahead(s, t)'
    BY <1>1, <1>3, <2>2 DEF Ahead
  <2>3. QED BY <1>1, <2>1, <2>2 DEF Ahead, n
<1>5. ASSUME NEW s \in Requests
      PROVE  Ahead(s, r)' <=> \E i \in 1..n : waiters[i] = s
  <2>1. ASSUME NEW i \in 1..(n + 1), NEW j \in 1..(n + 1), i < j,
               waiters'[i] = s, waiters'[j] = r
        PROVE  \E k \in 1..n : waiters[k] = s
    <3>1. i \in 1..n
      BY <1>1, <2>1
    <3>2. QED BY <1>1, <2>1, <3>1
  <2>2. ASSUME NEW i \in 1..n, waiters[i] = s PROVE Ahead(s, r)'
    BY <1>1, <1>3, <2>2 DEF Ahead
  <2>3. QED BY <1>1, <2>1, <2>2 DEF Ahead
<1>6. QED BY <1>4, <1>5 DEF n

\* Taking a request out of the deque keeps the order of the others.
LEMMA RemainingOrder ==
  ASSUME TypeOK, NEW r \in Requests, NEW k \in 1..Len(waiters), waiters[k] = r,
         waiters' = Without(r)
  PROVE  \A s, t \in Requests : s # r /\ t # r => (Ahead(s, t)' <=> Ahead(s, t))
<1> DEFINE n == Len(waiters)
<1>1. /\ n \in Nat /\ k \in 1..n /\ n - 1 \in Nat
      /\ \A i, j \in 1..n : waiters[i] = waiters[j] => i = j
  BY DEF TypeOK, DequeExact
<1>2. waiters' = [i \in 1..(n - 1) |-> IF i < k THEN waiters[i] ELSE waiters[i + 1]]
  <2>1. (CHOOSE i \in 1..n : waiters[i] = r) = k
    BY <1>1
  <2>2. QED BY <2>1 DEF Without
<1>3. Len(waiters') = n - 1
  BY <1>1, WithoutFacts, <1>2
<1> HIDE DEF n
<1>4. \A i \in 1..(n - 1) :
        /\ i < k => i \in 1..n /\ waiters'[i] = waiters[i]
        /\ ~(i < k) => i + 1 \in 1..n /\ i + 1 > k /\ waiters'[i] = waiters[i + 1]
  BY <1>1, <1>2
<1>5. \A i \in 1..n :
        /\ i < k => i \in 1..(n - 1) /\ waiters'[i] = waiters[i]
        /\ i > k => i - 1 \in 1..(n - 1) /\ waiters'[i - 1] = waiters[i]
  <2>1. ASSUME NEW i \in 1..n, i < k PROVE i \in 1..(n - 1) /\ waiters'[i] = waiters[i]
    BY <1>1, <1>2, <2>1
  <2>2. ASSUME NEW i \in 1..n, i > k
        PROVE  i - 1 \in 1..(n - 1) /\ waiters'[i - 1] = waiters[i]
    <3>1. i - 1 \in 1..(n - 1) /\ ~(i - 1 < k) /\ (i - 1) + 1 = i
      BY <1>1, <2>2
    <3>2. QED BY <1>2, <3>1
  <2>3. QED BY <2>1, <2>2
<1>6. SUFFICES ASSUME NEW s \in Requests, NEW t \in Requests, s # r, t # r
               PROVE  Ahead(s, t)' <=> Ahead(s, t)
  OBVIOUS
<1>7. ASSUME NEW i \in 1..(n - 1), NEW j \in 1..(n - 1), i < j,
             waiters'[i] = s, waiters'[j] = t
      PROVE  Ahead(s, t)
  <2> DEFINE at(x) == IF x < k THEN x ELSE x + 1
  <2>1. at(i) \in 1..n /\ at(j) \in 1..n /\ at(i) < at(j)
    BY <1>1, <1>7, <1>4
  <2>2. waiters[at(i)] = s /\ waiters[at(j)] = t
    BY <1>4, <1>7
  <2> HIDE DEF at
  <2>3. QED BY <2>1, <2>2 DEF Ahead, n
<1>8. ASSUME NEW i \in 1..n, NEW j \in 1..n, i < j, waiters[i] = s, waiters[j] = t
      PROVE  Ahead(s, t)'
  <2> DEFINE at(x) == IF x < k THEN x ELSE x - 1
  <2>1. i # k /\ j # k
    BY <1>6, <1>8
  <2>2. at(i) \in 1..(n - 1) /\ at(j) \in 1..(n - 1) /\ at(i) < at(j)
    BY <1>1, <1>8, <2>1
  <2>3. waiters'[at(i)] = s /\ waiters'[at(j)] = t
    BY <1>1, <1>5, <1>8, <2>1
  <2> HIDE DEF at
  <2>4. QED BY <1>3, <2>2, <2>3 DEF Ahead
<1>9. QED BY <1>3, <1>7, <1>8 DEF Ahead, n

-----------------------------------------------------------------------------
(***************************************************************************)
(* What the changes of the deque are to the queue of the slots.            *)
(***************************************************************************)
LEMMA QueueFacts ==
  /\ DOMAIN SlotQueue = Pending
  /\ \A s \in Pending : SlotQueue[s] = {r \in Pending : Ahead(r, s)}
BY DEF SlotQueue

\* The queue is as it was when its members and their order are.
LEMMA QueueStays ==
  ASSUME Pending' = Pending, \A s, t \in Pending : Ahead(s, t)' <=> Ahead(s, t)
  PROVE  UNCHANGED SlotQueue
<1>1. \A t \in Pending : {r \in Pending : Ahead(r, t)'} = {r \in Pending : Ahead(r, t)}
  OBVIOUS
<1>2. SlotQueue' = [t \in Pending |-> {r \in Pending : Ahead(r, t)'}]
  BY DEF SlotQueue
<1>3. QED BY <1>1, <1>2 DEF SlotQueue

\* Members leave it and the order of the others stays.
LEMMA QueueShrinks ==
  ASSUME NEW gone \in SUBSET Pending, Pending' = Pending \ gone,
         \A s, t \in Pending' : Ahead(s, t)' <=> Ahead(s, t)
  PROVE  Slots!Leave(gone)
<1>1. \A t \in Pending \ gone :
        {r \in Pending \ gone : Ahead(r, t)'} = {r \in Pending : Ahead(r, t)} \ gone
  OBVIOUS
<1>2. SlotQueue' = [t \in Pending \ gone |-> {r \in Pending \ gone : Ahead(r, t)'}]
  BY DEF SlotQueue
<1>3. [t \in Pending \ gone |-> SlotQueue[t] \ gone]
        = [t \in Pending \ gone |-> {r \in Pending : Ahead(r, t)} \ gone]
  BY QueueFacts
<1>4. QED BY <1>1, <1>2, <1>3, QueueFacts DEF Slots!Leave, Slots!Queued

\* A member joins behind all others.
LEMMA QueueGrows ==
  ASSUME NEW r \in Requests, r \notin Pending, Pending' = Pending \cup {r},
         \A s, t \in Pending : Ahead(s, t)' <=> Ahead(s, t),
         \A t \in Pending : ~Ahead(r, t)',
         \A s \in Pending : Ahead(s, r)', ~Ahead(r, r)'
  PROVE  SlotQueue' = [t \in Pending \cup {r} |-> IF t = r THEN Pending ELSE SlotQueue[t]]
<1>1. SlotQueue' = [t \in Pending \cup {r} |-> {s \in Pending \cup {r} : Ahead(s, t)'}]
  BY DEF SlotQueue
<1>2. \A t \in Pending : {s \in Pending \cup {r} : Ahead(s, t)'} = SlotQueue[t]
  BY QueueFacts
<1>3. {s \in Pending \cup {r} : Ahead(s, r)'} = Pending
  OBVIOUS
<1>4. QED BY <1>1, <1>2, <1>3

(***************************************************************************)
(* The futures that WakeUp settles are a front of the queue.               *)
(***************************************************************************)
LEMMA WokenFront ==
  ASSUME TypeOK, NEW left \in [Requests -> Futures],
         \A r \in Requests : left[r] = "pending" <=> future[r] = "pending",
         NEW available \in Nat, NEW most \in Nat, most <= available,
         WakeUp(left, available, most)
  PROVE  \E front \in SUBSET Pending :
           /\ Slots!IsFront(front)
           /\ Pending' = Pending \ front
           /\ Granted' = {r \in Requests : left[r] = "granted"} \cup front
           /\ front # {} => available > 0
<1>1. {r \in Requests : left[r] = "pending"} = Pending
  BY DEF Pending
<1>2. PICK front \in SUBSET Pending :
        /\ Cardinality(front) = Lesser(most, Cardinality(Pending))
        /\ \A r \in front, s \in Pending \ front : Ahead(r, s)
        /\ future' = [r \in Requests |-> IF r \in front THEN "granted" ELSE left[r]]
  BY <1>1 DEF WakeUp
<1>3. Slots!IsFront(front)
  BY <1>2, QueueFacts DEF Slots!IsFront, Slots!Queued
<1>4. Pending' = Pending \ front
  BY <1>1, <1>2 DEF Pending
<1>5. Granted' = {r \in Requests : left[r] = "granted"} \cup front
  BY <1>2 DEF Granted, Pending
<1>6. ASSUME front # {} PROVE available > 0
  <2>1. IsFiniteSet(front) /\ IsFiniteSet(Pending)
    BY AdmissionConstants, FS_Subset DEF Pending
  <2>2. Cardinality(front) \in Nat /\ Cardinality(Pending) \in Nat /\ Cardinality(front) # 0
    BY <1>6, <2>1, FS_CardinalityType, FS_EmptySet
  <2>3. QED BY <1>2, <2>2 DEF Lesser
<1>7. QED BY <1>3, <1>4, <1>5, <1>6

\* A waiter that resumes wakes a front of the queue, wherever it stood itself.
LEMMA LeaverWakesFront ==
  ASSUME TypeOK, NEW r \in Requests, future[r] \in {"granted", "cancelled"},
         LeaveDeque(r), NEW available \in Nat, WakeUp(Left(r), available, available)
  PROVE  \E front \in SUBSET Pending :
           /\ Slots!IsFront(front) /\ Slots!Leave(front)
           /\ Granted' = (Granted \ {r}) \cup front
           /\ front # {} => available > 0
<1> DEFINE left == Left(r)
<1>1. /\ left \in [Requests -> Futures]
      /\ \A s \in Requests : left[s] = "pending" <=> future[s] = "pending"
      /\ {s \in Requests : left[s] = "granted"} = Granted \ {r}
  BY DEF TypeOK, Left, Futures, Granted
<1>2. WakeUp(left, available, available) /\ available <= available
  OBVIOUS
<1> HIDE DEF left
<1>3. PICK front \in SUBSET Pending :
           /\ Slots!IsFront(front)
           /\ Pending' = Pending \ front
           /\ Granted' = (Granted \ {r}) \cup front
           /\ front # {} => available > 0
  BY <1>1, <1>2, WokenFront
<1>4. PICK k \in 1..Len(waiters) : waiters[k] = r
  BY DEF TypeOK, DequeExact
<1>5. \A s, t \in Pending' : Ahead(s, t)' <=> Ahead(s, t)
  <2>1. \A s \in Pending' : s \in Requests /\ s # r
    BY <1>3 DEF Pending
  <2>2. waiters' = Without(r)
    BY DEF LeaveDeque
  <2>3. QED BY <1>4, <2>1, <2>2, RemainingOrder
<1>6. Slots!Leave(front)
  BY <1>3, <1>5, QueueShrinks
<1>7. QED BY <1>3, <1>6

-----------------------------------------------------------------------------
\* The slots are counted as the permits are: both modules take Cardinality
\* from FiniteSets.
LEMMA SlotsCount == \A S : Slots!Cardinality(S) = Cardinality(S)
BY DEF Slots!Cardinality, Cardinality

(***************************************************************************)
(* The steps.                                                              *)
(***************************************************************************)
Implemented ==
  /\ TypeOK /\ TypeOK' /\ SequenceGateRuns
  /\ PermitConservation /\ PermitConservation'

\* Slots held and permits left make the limit, before and after a step.
LEMMA SlotsLeft ==
  ASSUME Implemented
  PROVE  /\ Cardinality(SlotHolders) \in Nat /\ Cardinality(SlotHolders') \in Nat
         /\ MaxNumSeqs \in Nat
         /\ value = MaxNumSeqs - Cardinality(SlotHolders)
         /\ Cardinality(SlotHolders') <= MaxNumSeqs
<1>1. IsFiniteSet(SlotHolders) /\ IsFiniteSet(SlotHolders')
  <2>1. SlotHolders \subseteq Requests /\ SlotHolders' \subseteq Requests
    BY DEF SlotHolders, Granted, Running
  <2>2. QED BY <2>1, AdmissionConstants, FS_Subset
<1>2. Cardinality(SlotHolders) \in Nat /\ Cardinality(SlotHolders') \in Nat
  BY <1>1, FS_CardinalityType
<1>3. /\ value + Cardinality(SlotHolders) = MaxNumSeqs
      /\ value' + Cardinality(SlotHolders') = MaxNumSeqs
      /\ value \in Nat /\ value' \in Nat
  BY DEF Implemented, PermitConservation, SlotHolders, TypeOK
<1>4. QED BY <1>2, <1>3

\* Nothing of the slots changes.
LEMMA Stutters ==
  ASSUME SlotHolders' = SlotHolders, UNCHANGED SlotQueue
  PROVE  UNCHANGED Slots!slotVars
BY DEF Slots!slotVars

\* A step that hands slots on without returning any.
LEMMA HandsOn ==
  ASSUME Implemented, NEW front \in SUBSET Pending,
         Slots!IsFront(front), Slots!Leave(front), SlotHolders' = SlotHolders \cup front,
         front # {} => value > 0
  PROVE  [Slots!SlotsNext]_Slots!slotVars
<1>1. CASE front = {}
  <2>1. UNCHANGED SlotQueue
    <3>1. SlotQueue' = [t \in Pending |-> SlotQueue[t]]
      <4>1. \A t \in Pending : SlotQueue[t] \ {} = SlotQueue[t]
        OBVIOUS
      <4>2. SlotQueue' = [t \in Pending \ {} |-> SlotQueue[t] \ {}]
        BY <1>1, QueueFacts DEF Slots!Leave, Slots!Queued
      <4>3. Pending \ {} = Pending
        OBVIOUS
      <4>4. QED BY <4>1, <4>2, <4>3
    <3>2. QED BY <3>1 DEF SlotQueue
  <2>2. QED BY <1>1, <2>1, Stutters
<1>2. CASE front # {}
  <2>1. Cardinality(SlotHolders) < MaxNumSeqs /\ Cardinality(SlotHolders') <= MaxNumSeqs
    BY <1>2, SlotsLeft
  <2>2. SlotHolders \ {} = SlotHolders
    OBVIOUS
  <2>3. Slots!PassOn({}, front)
    BY <2>1, <2>2, SlotsCount DEF Slots!PassOn
  <2>4. Slots!Serve
    BY <1>2, <2>1, <2>3, QueueFacts, SlotsCount DEF Slots!Serve, Slots!Queued
  <2>5. QED BY <2>4 DEF Slots!SlotsNext
<1>3. QED BY <1>1, <1>2

\* A step in which r returns its slot.
LEMMA GivesBack ==
  ASSUME Implemented, NEW r \in Requests, r \in SlotHolders, NEW front \in SUBSET Pending,
         Slots!IsFront(front), Slots!Leave(front), SlotHolders' = (SlotHolders \ {r}) \cup front
  PROVE  [Slots!SlotsNext]_Slots!slotVars
<1>1. Slots!PassOn({r}, front)
  BY SlotsLeft, SlotsCount DEF Slots!PassOn
<1>2. Slots!GiveBack(r)
  BY <1>1, QueueFacts DEF Slots!GiveBack, Slots!Queued
<1>3. QED BY <1>2 DEF Slots!SlotsNext

\* With deque and futures as they were, only a change of phase can matter.
LEMMA FuturesKept ==
  ASSUME UNCHANGED <<waiters, future>>
  PROVE  UNCHANGED SlotQueue /\ Granted' = Granted
<1>1. Pending' = Pending /\ Granted' = Granted
  BY DEF Pending, Granted
<1>2. \A s, t \in Pending : Ahead(s, t)' <=> Ahead(s, t)
  BY DEF Ahead
<1>3. QED BY <1>1, <1>2, QueueStays

\* An arrival takes a free slot, joins the queue or changes nothing.
LEMMA ArrivalImplements ==
  ASSUME Implemented, NEW r \in Requests, NEW q \in Shapes, Arrive(r, q)
  PROVE  [Slots!SlotsNext]_Slots!slotVars
<1> USE DEF Implemented
<1>1. CASE ArriveQueueFull(r, q)
  <2>1. Running' = Running /\ UNCHANGED <<waiters, future>>
    BY <1>1 DEF ArriveQueueFull, Raise, semaphore, Running, TypeOK
  <2>2. QED BY <2>1, FuturesKept, Stutters DEF SlotHolders
<1>2. CASE ArriveNow(r, q)
  <2>1. UNCHANGED <<waiters, future>> /\ phase[r] = "idle" /\ ~Locked
    BY <1>2 DEF ArriveNow
  <2>2. CASE GatesRaise(r, q)
    <3>1. Running' = Running
      BY <2>1, <2>2 DEF GatesRaise, Raise, Running, TypeOK
    <3>2. QED BY <2>1, <3>1, FuturesKept, Stutters DEF SlotHolders
  <2>3. CASE Commit(r, q)
    <3>1. Running' = Running \cup {r} /\ r \notin Running
      BY <2>1, <2>3 DEF Commit, Running, TypeOK
    <3>2. Pending = {} /\ Granted = {} /\ value # 0
      BY <2>1 DEF Locked
    <3>3. SlotHolders' = SlotHolders \cup {r} /\ r \notin SlotHolders /\ UNCHANGED SlotQueue
      BY <2>1, <3>1, <3>2, FuturesKept DEF SlotHolders
    <3>4. Cardinality(SlotHolders) < MaxNumSeqs
      BY <3>2, SlotsLeft DEF TypeOK
    <3>5. Slots!TakeFreeSlot(r)
      BY <3>2, <3>3, <3>4, QueueFacts, SlotsCount DEF Slots!TakeFreeSlot, Slots!Queued
    <3>6. QED BY <3>5 DEF Slots!SlotsNext
  <2>4. QED BY <1>2, <2>2, <2>3 DEF ArriveNow
<1>3. CASE ArriveWait(r, q)
  <2>1. /\ phase[r] = "idle" /\ phase' = [phase EXCEPT ![r] = "waiting"]
        /\ waiters' = Append(waiters, r) /\ future' = [future EXCEPT ![r] = "pending"]
    BY <1>3 DEF ArriveWait
  <2>2. future[r] = "none" /\ \A i \in 1..Len(waiters) : waiters[i] # r
    <3>1. FutureMatchesPhase /\ DequeExact /\ phase[r] # "waiting"
      BY <2>1 DEF TypeOK
    <3> HIDE DEF Implemented
    <3>2. future[r] = "none"
      BY <3>1 DEF FutureMatchesPhase
    <3>3. QED BY <3>1, <3>2 DEF DequeExact
  <2>3. /\ r \notin Pending /\ Pending' = Pending \cup {r}
        /\ Granted' = Granted /\ Running' = Running /\ r \notin SlotHolders
    BY <2>1, <2>2 DEF Pending, Granted, Running, SlotHolders, TypeOK
  <2>4. /\ \A s, t \in Requests : t # r => (Ahead(s, t)' <=> Ahead(s, t))
        /\ \A s \in Requests : Ahead(s, r)' <=> \E i \in 1..Len(waiters) : waiters[i] = s
    BY <2>1, <2>2, AppendedOrder DEF TypeOK
  <2>5. \A s \in Pending : s \in Requests /\ s # r
                            /\ \E i \in 1..Len(waiters) : waiters[i] = s
    BY <2>3 DEF Pending, TypeOK, DequeExact
  <2>6. \A t \in Pending : ~Ahead(r, t)
    BY <2>2 DEF Ahead
  <2>7. SlotQueue' = [t \in Pending \cup {r} |-> IF t = r THEN Pending ELSE SlotQueue[t]]
    <3>1. \A s, t \in Pending : Ahead(s, t)' <=> Ahead(s, t)
      BY <2>4, <2>5
    <3>2. (\A t \in Pending : ~Ahead(r, t)') /\ (\A s \in Pending : Ahead(s, r)')
          /\ ~Ahead(r, r)'
      BY <2>2, <2>4, <2>5, <2>6
    <3>3. QED BY <2>3, <3>1, <3>2, QueueGrows
  <2>8. Slots!JoinQueue(r)
    BY <2>3, <2>7, QueueFacts DEF Slots!JoinQueue, Slots!Queued, SlotHolders
  <2>9. QED BY <2>8 DEF Slots!SlotsNext
<1>4. CASE ArriveZeroWait(r, q)
  <2>1. /\ phase[r] = "idle" /\ phase' = [phase EXCEPT ![r] = "waiting"]
        /\ UNCHANGED waiters /\ future' = [future EXCEPT ![r] = "unstarted"]
    BY <1>4 DEF ArriveZeroWait
  <2>2. future[r] = "none"
    BY <2>1 DEF TypeOK, FutureMatchesPhase
  <2>3. Pending' = Pending /\ Granted' = Granted /\ Running' = Running
    BY <2>1, <2>2 DEF Pending, Granted, Running, TypeOK
  <2>4. UNCHANGED SlotQueue
    BY <2>1, <2>3, QueueStays DEF Ahead
  <2>5. QED BY <2>3, <2>4, Stutters DEF SlotHolders
<1>5. QED BY <1>1, <1>2, <1>3, <1>4 DEF Arrive

\* A time-out or cancellation takes a pending request out of the queue; one
\* that was granted a permit keeps it until it resumes.
LEMMA InterruptImplements ==
  ASSUME Implemented, NEW r \in Requests, Timeout(r) \/ Cancel(r)
  PROVE  [Slots!SlotsNext]_Slots!slotVars
<1> USE DEF Implemented
<1>1. /\ UNCHANGED <<phase, waiters>>
      /\ future' = [future EXCEPT ![r] = IF @ = "pending" THEN "cancelled" ELSE @]
  BY DEF Timeout, Cancel, Interrupt
<1>2. Granted' = Granted /\ Running' = Running /\ SlotHolders' = SlotHolders
  BY <1>1 DEF Granted, Running, SlotHolders, TypeOK
<1>3. \A s, t \in Requests : Ahead(s, t)' <=> Ahead(s, t)
  BY <1>1 DEF Ahead
<1>4. Pending \subseteq Requests
  BY DEF Pending
<1>5. CASE future[r] = "pending"
  <2>1. {r} \in SUBSET Pending /\ Pending' = Pending \ {r}
    BY <1>1, <1>5 DEF Pending, TypeOK
  <2>2. Slots!Leave({r})
    BY <1>3, <1>4, <2>1, QueueShrinks
  <2>3. Slots!GiveUp(r)
    BY <1>2, <2>1, <2>2, QueueFacts DEF Slots!GiveUp, Slots!Queued
  <2>4. QED BY <2>3 DEF Slots!SlotsNext
<1>6. CASE future[r] # "pending"
  <2>1. Pending' = Pending
    BY <1>1, <1>6 DEF Pending, TypeOK
  <2>2. QED BY <1>2, <1>3, <1>4, <2>1, QueueStays, Stutters
<1>7. QED BY <1>5, <1>6

\* A waiter that resumes keeps its slot or returns it, or had none; and hands
\* on the slots that are free.
LEMMA ResumptionImplements ==
  ASSUME Implemented, NEW r \in Requests, Resume(r)
  PROVE  [Slots!SlotsNext]_Slots!slotVars
<1> USE DEF Implemented
<1>1. phase[r] = "waiting" /\ r \notin Running
  BY DEF Resume, ResumeAcquired, ResumeGivingBack, ResumeEmptyHanded, ResumeUnstarted,
         Running
<1>2. ASSUME NEW available \in Nat, future[r] = "granted", Raise(r, answer'[r]),
             LeaveDeque(r), WakeUp(Left(r), available, available)
      PROVE  [Slots!SlotsNext]_Slots!slotVars
  <2>1. PICK front \in SUBSET Pending :
          /\ Slots!IsFront(front) /\ Slots!Leave(front)
          /\ Granted' = (Granted \ {r}) \cup front
    BY <1>2, LeaverWakesFront
  <2>2. Running' = Running
    BY <1>1, <1>2 DEF Raise, Running, TypeOK
  <2>3. r \in SlotHolders /\ SlotHolders' = (SlotHolders \ {r}) \cup front
    BY <1>1, <1>2, <2>1, <2>2 DEF SlotHolders, Granted
  <2>4. QED BY <2>1, <2>3, GivesBack
<1>3. ASSUME NEW error, Raise(r, error) PROVE Raise(r, answer'[r])
  BY <1>3 DEF Raise, TypeOK
<1>4. value \in Nat /\ value + 1 \in Nat
  BY DEF TypeOK
<1>5. CASE ResumeAcquired(r)
  <2>1. future[r] = "granted" /\ LeaveDeque(r)
    BY <1>5 DEF ResumeAcquired
  <2>2. CASE Commit(r, shape[r]) /\ WakeUp(Left(r), value, value)
    <3>1. PICK front \in SUBSET Pending :
            /\ Slots!IsFront(front) /\ Slots!Leave(front)
            /\ Granted' = (Granted \ {r}) \cup front
            /\ front # {} => value > 0
      BY <1>4, <2>1, <2>2, LeaverWakesFront
    <3>2. Running' = Running \cup {r}
      BY <2>2 DEF Commit, Running, TypeOK
    <3>3. SlotHolders' = SlotHolders \cup front
      BY <2>1, <3>1, <3>2 DEF SlotHolders, Granted
    <3>4. QED BY <3>1, <3>3, HandsOn
  <2>3. CASE GatesRaise(r, shape[r]) /\ WakeUp(Left(r), value + 1, value + 1)
    <3>1. Raise(r, answer'[r])
      BY <1>3, <2>3 DEF GatesRaise
    <3> DEFINE available == value + 1
    <3>2. available \in Nat /\ WakeUp(Left(r), available, available)
      BY <1>4, <2>3
    <3> HIDE DEF available
    <3>3. QED BY <1>2, <2>1, <3>1, <3>2
  <2>4. QED BY <1>5, <2>2, <2>3 DEF ResumeAcquired
<1>6. CASE ResumeGivingBack(r)
  <2>1. future[r] = "granted" /\ LeaveDeque(r) /\ Raise(r, answer'[r])
    BY <1>3, <1>6 DEF ResumeGivingBack
  <2> DEFINE available == value + 1
  <2>2. available \in Nat /\ WakeUp(Left(r), available, available)
    BY <1>4, <1>6 DEF ResumeGivingBack
  <2> HIDE DEF available
  <2>3. QED BY <1>2, <2>1, <2>2
<1>7. CASE ResumeEmptyHanded(r)
  <2>1. /\ future[r] = "cancelled" /\ LeaveDeque(r) /\ Raise(r, answer'[r])
        /\ WakeUp(Left(r), value, value)
    BY <1>3, <1>7 DEF ResumeEmptyHanded
  <2>2. PICK front \in SUBSET Pending :
          /\ Slots!IsFront(front) /\ Slots!Leave(front)
          /\ Granted' = (Granted \ {r}) \cup front
          /\ front # {} => value > 0
    BY <1>4, <2>1, LeaverWakesFront
  <2>3. Running' = Running /\ r \notin Granted
    BY <1>1, <2>1 DEF Raise, Running, Granted, TypeOK
  <2>4. SlotHolders' = SlotHolders \cup front
    BY <2>2, <2>3 DEF SlotHolders
  <2>5. QED BY <2>2, <2>4, HandsOn
<1>8. CASE ResumeUnstarted(r)
  <2>1. /\ future[r] = "unstarted" /\ future' = [future EXCEPT ![r] = "none"]
        /\ UNCHANGED waiters /\ phase' = [phase EXCEPT ![r] = "idle"]
    BY <1>8 DEF ResumeUnstarted, Left, Raise
  <2>2. Pending' = Pending /\ Granted' = Granted /\ Running' = Running
    BY <1>1, <2>1 DEF Pending, Granted, Running, TypeOK
  <2>3. UNCHANGED SlotQueue
    BY <2>1, <2>2, QueueStays DEF Ahead
  <2>4. QED BY <2>2, <2>3, Stutters DEF SlotHolders
<1>9. QED BY <1>5, <1>6, <1>7, <1>8 DEF Resume

\* A release returns the slot and hands it on.
LEMMA ReleaseImplements ==
  ASSUME Implemented, NEW r \in Requests, Release(r)
  PROVE  [Slots!SlotsNext]_Slots!slotVars
<1> USE DEF Implemented
<1>1. /\ phase[r] = "running" /\ phase' = [phase EXCEPT ![r] = "idle"] /\ UNCHANGED waiters
  BY DEF Release, ReleaseStep
<1>2. r \in SlotHolders /\ r \notin Granted /\ Running' = Running \ {r}
  BY <1>1 DEF SlotHolders, Granted, Running, TypeOK, FutureMatchesPhase
<1>3. value < MaxNumSeqs
  <2>1. IsFiniteSet(SlotHolders)
    BY AdmissionConstants, FS_Subset DEF SlotHolders, Granted, Running
  <2>2. Cardinality(SlotHolders) # 0
    BY <1>2, <2>1, FS_EmptySet
  <2>3. QED BY <2>2, SlotsLeft
<1> DEFINE available == value + 1
           most == 1
<1>4. /\ available \in Nat /\ most \in Nat /\ most <= available
      /\ WakeUp(future, available, most)
  BY <1>3 DEF Release, ReleaseStep, TypeOK
<1> HIDE DEF available, most
<1>5. PICK front \in SUBSET Pending :
        /\ Slots!IsFront(front)
        /\ Pending' = Pending \ front
        /\ Granted' = Granted \cup front
  BY <1>4, WokenFront DEF Granted, TypeOK
<1>6. Slots!Leave(front)
  BY <1>1, <1>5, QueueShrinks DEF Ahead
<1>7. SlotHolders' = (SlotHolders \ {r}) \cup front
  BY <1>2, <1>5 DEF SlotHolders
<1>8. QED BY <1>2, <1>5, <1>6, <1>7, GivesBack

\* Every step of the gate is one of the slots, or none.
LEMMA StepImplements ==
  ASSUME Implemented, [Next]_vars
  PROVE  [Slots!SlotsNext]_Slots!slotVars
<1>1. CASE UNCHANGED vars
  <2>1. Running' = Running /\ UNCHANGED <<waiters, future>>
    BY <1>1 DEF vars, Running
  <2>2. QED BY <2>1, FuturesKept, Stutters DEF SlotHolders
<1>2. QED
  BY <1>1, ArrivalImplements, InterruptImplements, ResumptionImplements,
     ReleaseImplements DEF Next

\* The gate hands its permits out in arrival order and at most max_num_seqs of
\* them, to newcomers only when nobody queues, however requests time out, are
\* cancelled or are refused by the later gates (admission.py:302-347).
THEOREM GateImplementsSlots == ASSUME SequenceGateRuns PROVE Spec => Slots!SlotsSpec
<1>1. Init => Slots!SlotsInit
  <2> SUFFICES ASSUME Init PROVE Slots!SlotsInit
    OBVIOUS
  <2>1. Pending = {} /\ Granted = {} /\ Running = {}
    BY DEF Init, Pending, Granted, Running
  <2>2. SlotQueue = [s \in {} |-> {}] /\ SlotHolders = {}
    BY <2>1 DEF SlotQueue, SlotHolders
  <2>3. QED BY <2>2 DEF Slots!SlotsInit
<1>2. TypeOK /\ TypeOK' /\ PermitConservation /\ PermitConservation' /\ [Next]_vars
        => [Slots!SlotsNext]_Slots!slotVars
  BY StepImplements DEF Implemented
<1>3. QED BY <1>1, <1>2, TypeCorrect, PermitsConserved, PTL DEF Spec, Slots!SlotsSpec

-----------------------------------------------------------------------------
(***************************************************************************)
(* What arrival order means to a request in the queue.                     *)
(***************************************************************************)

\* Of two requests one stands before the other, not both.
LEMMA AheadOneWay ==
  ASSUME TypeOK, NEW r \in Requests, NEW s \in Requests, Ahead(r, s)
  PROVE  ~Ahead(s, r)
<1> DEFINE n == Len(waiters)
<1>1. n \in Nat /\ \A i, j \in 1..n : waiters[i] = waiters[j] => i = j
  BY DEF TypeOK, DequeExact
<1>2. PICK i \in 1..n, j \in 1..n : i < j /\ waiters[i] = r /\ waiters[j] = s
  BY DEF Ahead
<1>3. ASSUME NEW k \in 1..n, NEW l \in 1..n, k < l, waiters[k] = s, waiters[l] = r
      PROVE  FALSE
  <2>1. k = j /\ l = i
    BY <1>1, <1>2, <1>3
  <2>2. QED BY <1>1, <1>2, <1>3, <2>1
<1>4. QED BY <1>3 DEF Ahead

\* A step of the slots gives one to s: everybody queued before s, and everybody
\* queued at all when s was not, has one too.
LEMMA SlotsGoToTheFront ==
  ASSUME TypeOK, Slots!SlotsNext, NEW s \in Requests, s \in SlotHolders', s \notin SlotHolders,
         NEW r \in Pending, s \in Pending => Ahead(r, s)
  PROVE  r \in SlotHolders'
<1>1. ASSUME NEW gone, NEW front \in SUBSET Slots!Queued, Slots!PassOn(gone, front)
      PROVE  r \in SlotHolders'
  <2>1. /\ \A c \in front, d \in Pending \ front : c \in SlotQueue[d]
        /\ SlotHolders' = (SlotHolders \ gone) \cup front
    BY <1>1, QueueFacts DEF Slots!PassOn, Slots!IsFront, Slots!Queued
  <2>2. s \in front /\ s \in Pending
    BY <1>1, <2>1, QueueFacts DEF Slots!Queued
  <2>3. ~Ahead(s, r)
    BY <2>2, AheadOneWay DEF Pending
  <2>4. r \in front
    BY <2>1, <2>2, <2>3, QueueFacts
  <2>5. QED BY <2>1, <2>4
<1>2. ASSUME NEW c \in Requests, Slots!TakeFreeSlot(c) PROVE FALSE
  BY <1>2, QueueFacts DEF Slots!TakeFreeSlot, Slots!Queued
<1>3. ASSUME NEW c \in Requests, Slots!JoinQueue(c) \/ Slots!GiveUp(c) PROVE FALSE
  BY <1>3 DEF Slots!JoinQueue, Slots!GiveUp
<1>4. QED
  BY <1>1, <1>2, <1>3 DEF Slots!SlotsNext, Slots!GiveBack, Slots!Serve

\* Nobody is overtaken: a request gets a permit, as a waiter or at its arrival,
\* only together with all the requests that queue before it, batch or
\* interactive ("same FIFO waiter order as interactive", admission.py:302-303).
THEOREM NobodyIsOvertaken ==
  ASSUME SequenceGateRuns
  PROVE  Spec => [][\A r \in Pending, s \in Requests :
                      s \in SlotHolders' \ SlotHolders /\ (s \in Pending => Ahead(r, s))
                        => r \in SlotHolders']_vars
<1> DEFINE InTurn == \A r \in Pending, s \in Requests :
                       s \in SlotHolders' \ SlotHolders /\ (s \in Pending => Ahead(r, s))
                         => r \in SlotHolders'
<1>1. ASSUME TypeOK, TypeOK', PermitConservation, PermitConservation', [Next]_vars
      PROVE  InTurn
  <2>1. [Slots!SlotsNext]_Slots!slotVars
    BY <1>1, StepImplements DEF Implemented
  <2>2. CASE Slots!SlotsNext
    BY <1>1, <2>2, SlotsGoToTheFront
  <2>3. CASE UNCHANGED Slots!slotVars
    BY <2>3 DEF Slots!slotVars
  <2>4. QED BY <2>1, <2>2, <2>3
<1>2. TypeOK /\ TypeOK' /\ PermitConservation /\ PermitConservation' /\ [Next]_vars
        => [InTurn]_vars
  BY <1>1
<1>3. QED BY <1>2, TypeCorrect, PermitsConserved, PTL DEF Spec
=============================================================================
