---------------------------- MODULE ChatService -----------------------------
(***************************************************************************)
(* ChatService over the admission gate and one engine: complete(), and     *)
(* stream_response() with its SSE events.                                  *)
(*                                                                         *)
(* The service adds no state of its own beside the frames of its           *)
(* coroutines: for each client, where its coroutine or generator stands,   *)
(* what the engine does for it, and the events it was sent.  Every action  *)
(* runs from one suspension to the next, and contains what the admission  *)
(* gate does in that turn.                                                 *)
(*                                                                         *)
(* A stream is suspended at a yield while its client has not asked for     *)
(* more.  A client that disconnects then leaves the generator abandoned,   *)
(* to be closed by the loop's finalizer in a later turn; one that          *)
(* disconnects during an await has the task cancelled there.               *)
(***************************************************************************)
EXTENDS Admission

CONSTANTS
  Kinds,            \* of request: "stream" and "complete"
  Chunks,           \* what the engine may yield
  StreamTimeoutOn,  \* INFERENCE_X_STREAM_TIMEOUT_S > 0
  MaxContent        \* bound: content chunks of one stream (max_tokens)

Chunk == [content : BOOLEAN, finish : BOOLEAN, usage : BOOLEAN]

Events == {"prologue", "content", "terminal", "usage", "error", "done"}

ASSUME ServiceConstants ==
  /\ Kinds \subseteq {"stream", "complete"}
  /\ Chunks \subseteq {c \in Chunk : c.content \/ c.finish}
  /\ StreamTimeoutOn \in BOOLEAN
  /\ MaxContent \in Nat

VARIABLES
  kind,    \* the kind of the client's request
  at,      \* "none", "admitting", "awaiting" the engine, suspended at the
           \* yield of an event, or "abandoned" at such a yield
  chunk,   \* the chunk being turned into events
  engine,  \* the engine's own work: "none", "running", "finished" once the
           \* last chunk is out, "orphaned" when it runs on with no consumer
  sent     \* events of the client's last stream, in order

service == <<kind, at, chunk, engine, sent>>
serviceVars == <<vars, service>>

Contents(r) == Cardinality({i \in 1..Len(sent[r]) : sent[r][i] = "content"})

-----------------------------------------------------------------------------

Goes(r, to) == at' = [at EXCEPT ![r] = to]
Engine(r, state) == engine' = [engine EXCEPT ![r] = state]

\* yield of an event: suspended until the client asks for the next one.
Yields(r, event) ==
  /\ Goes(r, event)
  /\ sent' = [sent EXCEPT ![r] = Append(@, event)]

\* The engine is asked for the next chunk.  After its last chunk it answers
\* at once that there is none: the loop ends, the finally releases the
\* reservation, and [DONE] follows.
AsksEngine(r) ==
  IF engine[r] = "finished"
    THEN Yields(r, "done") /\ Engine(r, "none") /\ ReleaseStep(r)
    ELSE Goes(r, "awaiting") /\ Engine(r, "running") /\ UNCHANGED <<sent, vars>>

\* What the caller of admit() does in the turn in which admit() ends; it
\* refers to the phase the admission action has just assigned.
AfterAdmit(r, k) ==
  LET begun == phase'[r] = "running"
  IN  /\ Goes(r, CASE phase'[r] = "waiting" -> "admitting"
                   [] phase'[r] = "idle" -> "none"
                   [] begun /\ k = "stream" -> "prologue"
                   [] begun /\ k = "complete" -> "awaiting")
      /\ Engine(r, IF begun /\ k = "complete" THEN "running" ELSE "none")
      /\ sent' = [sent EXCEPT ![r] = IF begun /\ k = "stream" THEN <<"prologue">> ELSE <<>>]

\* A request enters the service.  (A client whose last request still runs in
\* the engine unattended sends no other: its slot here is taken.)
Submit(r, q, k) ==
  /\ at[r] = "none" /\ engine[r] = "none"
  /\ Arrive(r, q)
  /\ AfterAdmit(r, k)
  /\ kind' = [kind EXCEPT ![r] = k]
  /\ UNCHANGED chunk

AdmitResumes(r) ==
  /\ at[r] = "admitting"
  /\ Resume(r)
  /\ AfterAdmit(r, kind[r])
  /\ UNCHANGED <<kind, chunk>>

AdmitTimesOut(r) == at[r] = "admitting" /\ Timeout(r) /\ UNCHANGED service

-----------------------------------------------------------------------------
(***************************************************************************)
(* The client takes the event it was sent, and the generator goes on from  *)
(* that yield.                                                             *)
(***************************************************************************)
PullContent(r) ==
  /\ at[r] = "content"
  /\ IF chunk[r].finish THEN Yields(r, "terminal") /\ UNCHANGED <<engine, vars>>
                        ELSE AsksEngine(r)

PullTerminal(r) ==
  /\ at[r] = "terminal"
  /\ IF chunk[r].usage THEN Yields(r, "usage") /\ UNCHANGED <<engine, vars>>
                       ELSE AsksEngine(r)

\* After the error event of a time-out the loop is left, the reservation
\* released, and only [DONE] follows.
PullErrorGoingOn(r) == at[r] = "error" /\ AsksEngine(r)

PullError(r) ==
  /\ at[r] = "error"
  /\ Yields(r, "done") /\ ReleaseStep(r) /\ UNCHANGED engine

PullDone(r) == at[r] = "done" /\ Goes(r, "none") /\ UNCHANGED <<engine, sent, vars>>

Pull(r) ==
  /\ \/ at[r] \in {"prologue", "usage"} /\ AsksEngine(r)
     \/ PullContent(r) \/ PullTerminal(r) \/ PullError(r) \/ PullDone(r)
  /\ UNCHANGED <<kind, chunk>>

-----------------------------------------------------------------------------
(***************************************************************************)
(* The await on the engine ends.                                           *)
(***************************************************************************)
Consuming(r, k) == at[r] = "awaiting" /\ kind[r] = k

\* VLLMEngine yields a chunk; the last one carries finish_reason.
EngineYields(r, c) ==
  /\ Consuming(r, "stream")
  /\ c.content => Contents(r) < MaxContent
  /\ chunk' = [chunk EXCEPT ![r] = c]
  /\ Engine(r, IF c.finish THEN "finished" ELSE "running")
  /\ Yields(r, IF c.content THEN "content" ELSE "terminal")
  /\ UNCHANGED <<kind, vars>>

\* The frame ends and its finally releases the reservation; no event follows.
Leaves(r) ==
  /\ Goes(r, "none") /\ Engine(r, "none") /\ ReleaseStep(r)
  /\ UNCHANGED <<kind, chunk, sent>>

Completes(r) == Consuming(r, "complete") /\ Leaves(r)

\* generate() or generate_stream() raises: the exception leaves the service.
EngineFails(r) == at[r] = "awaiting" /\ Leaves(r)

\* generate() is bounded by _COMPLETION_TIMEOUT_S: the cancellation inside
\* the engine's generators aborts the engine's work before it raises.
CompletionTimesOutNever(r) == FALSE

CompletionTimesOut(r) == Consuming(r, "complete") /\ Leaves(r)

\* The wait for one chunk is bounded by stream_timeout_s.  The cancellation
\* it throws into the engine's generators aborts the engine's work; the
\* reservation is kept until the client has taken the error event.
StreamTimesOutAfterContent(r) ==
  /\ Consuming(r, "stream") /\ StreamTimeoutOn /\ Contents(r) > 0
  /\ Engine(r, "none") /\ Yields(r, "error")
  /\ UNCHANGED <<kind, chunk, vars>>

StreamTimesOutSwallowed(r) ==
  /\ Consuming(r, "stream") /\ StreamTimeoutOn
  /\ Yields(r, "error")
  /\ UNCHANGED <<kind, chunk, engine, vars>>

StreamTimesOut(r) ==
  /\ Consuming(r, "stream") /\ StreamTimeoutOn
  /\ Engine(r, "none") /\ Yields(r, "error")
  /\ UNCHANGED <<kind, chunk, vars>>

-----------------------------------------------------------------------------
(***************************************************************************)
(* The client of a stream disconnects.  (Nobody watches the connection of  *)
(* a complete() while it runs: it goes on to its end.)                     *)
(***************************************************************************)
Streaming(r, where) == kind[r] = "stream" /\ at[r] \in where

DisconnectAdmittingAtOnce(r) ==
  /\ Streaming(r, {"admitting"}) /\ Cancel(r) /\ Goes(r, "none")
  /\ UNCHANGED <<kind, chunk, engine, sent>>

DisconnectAdmitting(r) ==
  Streaming(r, {"admitting"}) /\ Cancel(r) /\ UNCHANGED service

\* The cancellation runs through the engine's generators (which abort) and
\* out through the finally.
DisconnectAwaiting(r) == Streaming(r, {"awaiting"}) /\ Leaves(r)

DisconnectSuspended(r) ==
  /\ Streaming(r, Events)
  /\ Goes(r, "abandoned")
  /\ UNCHANGED <<kind, chunk, engine, sent, vars>>

\* The finalizer closes the abandoned generator.  gen.aclose() closes the
\* outermost of the engine's generators only, dropping the inner ones to a
\* finalizer of their own; the reservation is released meanwhile.  After
\* [DONE] the frame is past its finally.
InsideTry(r) == sent[r][Len(sent[r])] # "done"
EngineDropped(r) == Engine(r, IF engine[r] = "running" THEN "orphaned" ELSE "none")

FinalizePrologueUncovered(r) ==
  /\ at[r] = "abandoned" /\ Goes(r, "none")
  /\ IF InsideTry(r) /\ Len(sent[r]) > 1
       THEN EngineDropped(r) /\ ReleaseStep(r)
       ELSE UNCHANGED <<engine, vars>>
  /\ UNCHANGED <<kind, chunk, sent>>

FinalizeReleasingAgain(r) ==
  /\ at[r] = "abandoned" /\ Goes(r, "none")
  /\ EngineDropped(r) /\ ReleaseStep(r)
  /\ UNCHANGED <<kind, chunk, sent>>

Finalize(r) ==
  /\ at[r] = "abandoned" /\ Goes(r, "none")
  /\ IF InsideTry(r)
       THEN EngineDropped(r) /\ ReleaseStep(r)
       ELSE UNCHANGED <<engine, vars>>
  /\ UNCHANGED <<kind, chunk, sent>>

\* The inner generators are closed, and AsyncLLM.generate() aborts.
Abort(r) ==
  /\ engine[r] = "orphaned" /\ Engine(r, "none")
  /\ UNCHANGED <<kind, at, chunk, sent, vars>>

-----------------------------------------------------------------------------

ServiceInit ==
  /\ Init
  /\ kind = [r \in Requests |-> "stream"]
  /\ at = [r \in Requests |-> "none"]
  /\ chunk = [r \in Requests |-> None]
  /\ engine = [r \in Requests |-> "none"]
  /\ sent = [r \in Requests |-> <<>>]

EngineSteps(r) ==
  \/ \E c \in Chunks : EngineYields(r, c)
  \/ Completes(r) \/ EngineFails(r)

Disconnect(r) == DisconnectAdmitting(r) \/ DisconnectAwaiting(r) \/ DisconnectSuspended(r)

ServiceNext ==
  \E r \in Requests :
    \/ \E q \in Shapes, k \in Kinds : Submit(r, q, k)
    \/ AdmitResumes(r) \/ AdmitTimesOut(r) \/ Pull(r)
    \/ EngineSteps(r) \/ CompletionTimesOut(r) \/ StreamTimesOut(r)
    \/ Disconnect(r) \/ Finalize(r) \/ Abort(r)

ServiceSpec == ServiceInit /\ [][ServiceNext]_serviceVars

(***************************************************************************)
(* The loop runs what is ready: resumed waiters, finalizers, and the       *)
(* timers of the service.  Nothing is asked of the engine, which may stall *)
(* at any chunk.  A client reads its events or disconnects.                *)
(***************************************************************************)
ServiceFairSpec ==
  /\ ServiceSpec
  /\ \A r \in Requests :
       /\ WF_serviceVars(AdmitResumes(r)) /\ WF_serviceVars(Finalize(r))
       /\ WF_serviceVars(CompletionTimesOut(r)) /\ WF_serviceVars(StreamTimesOut(r))
       /\ WF_serviceVars(Pull(r) \/ DisconnectSuspended(r))
=============================================================================
