--------------------------- MODULE SequenceSlots ----------------------------
(***************************************************************************)
(* What the sequence-concurrency gate promises, without semaphores,        *)
(* futures or hand-over: a bounded number of slots given out in arrival    *)
(* order.  A client that finds nobody queued may take a free slot; anybody *)
(* else queues; clients may give up; slots go to the front of the queue.   *)
(***************************************************************************)
EXTENDS Naturals, FiniteSets

CONSTANTS Clients, Slots

VARIABLES
  queue,    \* for each client waiting for a slot, those that queued before it
  holders   \* clients a slot was given to

slotVars == <<queue, holders>>

Queued == DOMAIN queue

SlotsInit == queue = [c \in {} |-> {}] /\ holders = {}

TakeFreeSlot(c) ==
  /\ Queued = {} /\ c \notin holders
  /\ Cardinality(holders) < Slots
  /\ holders' = holders \cup {c}
  /\ UNCHANGED queue

JoinQueue(c) ==
  /\ c \notin holders \cup Queued
  /\ queue' = [d \in Queued \cup {c} |-> IF d = c THEN Queued ELSE queue[d]]
  /\ UNCHANGED holders

\* Those in `gone' are no longer queued; the others keep their order.
Leave(gone) == queue' = [d \in Queued \ gone |-> queue[d] \ gone]

GiveUp(c) == c \in Queued /\ Leave({c}) /\ UNCHANGED holders

\* A set of clients with nobody before them but each other.
IsFront(front) == \A c \in front, d \in Queued \ front : c \in queue[d]

\* Those in `gone' return their slots, the front of the queue gets slots.
PassOn(gone, front) ==
  /\ IsFront(front) /\ Leave(front)
  /\ holders' = (holders \ gone) \cup front
  /\ Cardinality(holders') <= Slots

GiveBack(c) == c \in holders /\ \E front \in SUBSET Queued : PassOn({c}, front)

Serve ==
  /\ Cardinality(holders) < Slots
  /\ \E front \in SUBSET Queued : front # {} /\ PassOn({}, front)

SlotsNext ==
  \/ \E c \in Clients : TakeFreeSlot(c) \/ JoinQueue(c) \/ GiveUp(c) \/ GiveBack(c)
  \/ Serve

(***************************************************************************)
(* A slot does not stay free for ever while the same somebody queues: weak *)
(* fairness of Serve, with its enabling condition written out.             *)
(***************************************************************************)
CanServe == Queued # {} /\ Cardinality(holders) < Slots

ServeFairly == []<>~CanServe \/ []<><<Serve>>_slotVars

SlotsSpec == SlotsInit /\ [][SlotsNext]_slotVars
FairSlotsSpec == SlotsSpec /\ ServeFairly
=============================================================================
