------------------------- MODULE AdmissionRefinement ------------------------
(***************************************************************************)
(* The semaphore gate of Admission implements SequenceSlots.  A slot is    *)
(* held from the moment its permit leaves the semaphore, so by waiters     *)
(* that were granted a permit and have not resumed as well as by running   *)
(* requests; the queue is the deque without the futures that are done.     *)
(***************************************************************************)
EXTENDS AdmissionProperties

SlotQueue == [s \in Pending |-> {r \in Pending : Ahead(r, s)}]
SlotHolders == Granted \cup Running

Slots == INSTANCE SequenceSlots WITH
           Clients <- Requests, Slots <- MaxNumSeqs,
           queue <- SlotQueue, holders <- SlotHolders

\* Permits go out in arrival order, at most max_num_seqs of them, and a free
\* one reaches the queue as long as the event loop runs: "same FIFO waiter
\* order as interactive" (admission.py:302-303), across time-outs,
\* cancellations and later-gate refusals that return permits early.
ImplementsSlots == Slots!FairSlotsSpec
=============================================================================
