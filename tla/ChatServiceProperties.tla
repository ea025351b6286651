----------------------- MODULE ChatServiceProperties ------------------------
(***************************************************************************)
(* What the service guarantees to its clients, to the admission gate and   *)
(* to the engine.                                                          *)
(***************************************************************************)
EXTENDS ChatService

\* Every variable of the service has its type, and a frame waits inside
\* admit() exactly while the gate has a waiter for it.
ServiceTypeOK ==
  /\ kind \in [Requests -> {"stream", "complete"}]
  /\ at \in [Requests -> Events \cup {"none", "admitting", "awaiting", "abandoned"}]
  /\ chunk \in [Requests -> Chunk \cup {None}]
  /\ engine \in [Requests -> {"none", "running", "finished", "orphaned"}]
  /\ sent \in [Requests -> Seq(Events)]
  /\ \A r \in Requests : at[r] = "admitting" <=> phase[r] = "waiting"

\* "From the instant admit() returns until this generator terminates for any
\* reason [...] exactly one matching release() occurs" (chat_service.py:
\* 129-135): while the frame is between admit() and its finally the
\* reservation is held, and once the frame is gone it is not.
ReservationLifetime ==
  \A r \in Requests :
    /\ at[r] \in (Events \ {"done"}) \cup {"awaiting"} => phase[r] = "running"
    /\ at[r] \in {"none", "done"} => phase[r] = "idle"

\* The engine never works for a consumer whose slot was given away: only
\* work that lost its consumer outlives the slot.
EngineWorkHasSlot ==
  \A r \in Requests : engine[r] \in {"running", "finished"} => phase[r] = "running"

\* "Event order is fixed [...] and is the protocol" (chat_service.py:98-127):
\* the prologue first and once; content events; then one terminal event with
\* at most a usage event after it, or one error event; then [DONE], last.
Follows ==
  [prologue |-> {"content", "terminal", "error"},
   content  |-> {"content", "terminal", "error"},
   terminal |-> {"usage", "done"},
   usage    |-> {"done"},
   error    |-> {"done"},
   done     |-> {}]

EventOrder ==
  \A r \in Requests :
    /\ Len(sent[r]) > 0 => sent[r][1] = "prologue"
    /\ \A i \in 1..(Len(sent[r]) - 1) : sent[r][i + 1] \in Follows[sent[r][i]]

\* The sequences the engine executes stay within the limit the admission gate
\* enforces: "the number of in-flight requests against a model must stay at or
\* below the resolved max_num_seqs" (admission.py:11-12).
EngineWithinLimit ==
  Cardinality({r \in Requests : engine[r] \in {"running", "orphaned"}}) <= MaxNumSeqs

\* Every request ends, whatever the engine does: by its answer, an error, a
\* time-out or the client's leaving.
EveryRequestEnds == \A r \in Requests : at[r] # "none" ~> at[r] = "none"

\* Seen from the admission gate, the service is a client that respects its
\* protocol.  release() takes whatever it is given (admission.py:446-457): that
\* no frame, however it ends, releases what it does not hold is up to the
\* service; and every slot comes back.
UsesAdmission == Spec
SlotsComeBack == \A r \in Requests : phase[r] = "running" ~> phase[r] # "running"
=============================================================================
