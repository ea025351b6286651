---------------------------- MODULE Observability ----------------------------
(***************************************************************************)
(* What the server records of its requests (observability/): the           *)
(* middleware around every response, the wrapper around a streamed chat    *)
(* response, and the recorder with its capped buffer and its export.       *)
(*                                                                         *)
(* All of it runs on the event loop; a step is what happens between two    *)
(* awaits.  Instead of times, an event of a stream is known by its         *)
(* position.  Each request is made once.                                   *)
(***************************************************************************)
EXTENDS Integers, Sequences, FiniteSets

CONSTANTS
  Requests,    \* the requests made of the server
  MaxRecords,  \* what InMemoryStorage keeps
  Statuses,    \* the statuses of responses
  MaxContent   \* bound on the content events of one stream

ASSUME ObservabilityConstants ==
  MaxRecords \in Nat \ {0} /\ MaxContent \in Nat /\ Statuses \subseteq Nat

VARIABLES
  phase,  \* "idle", "handled", "wrapped" (its generator not started),
          \* "streaming", "dropped" by the server; at the end "passed",
          \* "answered", "ended", "cut", "closed" or "lost"
  kind,   \* "scrape" of /metrics, another "plain" route, "chat", "stream"
  asked,  \* whether a stream asks for the usage event
  sent,   \* the events a connection has carried, until it is over
  seen,   \* what the wrapper has measured: [ttft, tokens], while it is alive
  ring,   \* the records kept by InMemoryStorage
  calls   \* how often record() was called for a request

observabilityVars == <<phase, kind, asked, sent, seen, ring, calls>>

None == -1
Nothing == [ttft |-> None, tokens |-> None]

-----------------------------------------------------------------------------
(***************************************************************************)
(* The stream of the chat service, as far as it is measured: its metadata, *)
(* content, the finish reason, the usage when asked for, or an error.      *)
(***************************************************************************)
ContentsAt(s) == {i \in DOMAIN s : s[i] = "content"}
Contents(s) == Cardinality(ContentsAt(s))

Follows(e, s, wantsUsage) ==
  LET last == IF s = <<>> THEN "start" ELSE s[Len(s)]
  IN  \/ last = "start" /\ e = "head"
      \/ last \in {"head", "content"} /\ e = "content" /\ Contents(s) < MaxContent
      \/ last \in {"head", "content"} /\ e \in {"finish", "error"}
      \/ last = "finish" /\ e = "usage" /\ wantsUsage

HasDelta(e) == e \in {"head", "content"}
HasContentDelta(e) == e = "content"

\* _wrap_and_record_sse() looks at an event: the first content sets TTFT, a
\* usage event the tokens, and nothing else does.
Measured(m, e, s) ==
  [ttft   |-> IF m.ttft = None /\ HasContentDelta(e) THEN Len(s) + 1 ELSE m.ttft,
   tokens |-> IF e = "usage" THEN Contents(s) ELSE m.tokens]

-----------------------------------------------------------------------------
(***************************************************************************)
(* MetricsRecorder.record(): the oldest record makes room for the newest.  *)
(***************************************************************************)
Keep(s, record) ==
  LET all == Append(s, record)
  IN  IF Len(all) > MaxRecords THEN Tail(all) ELSE all

RecordFor(r, status, error, measured) ==
  /\ ring' = Keep(ring, [request |-> r, status |-> status, error |-> error,
                         ttft |-> measured.ttft, tokens |-> measured.tokens])
  /\ calls' = [calls EXCEPT ![r] = @ + 1]

Becomes(r, p) == phase' = [phase EXCEPT ![r] = p]

\* A request that is over leaves nothing but its record.
Closed(r, p) ==
  /\ Becomes(r, p)
  /\ kind' = [kind EXCEPT ![r] = "plain"] /\ asked' = [asked EXCEPT ![r] = FALSE]
  /\ sent' = [sent EXCEPT ![r] = <<>>] /\ seen' = [seen EXCEPT ![r] = Nothing]

-----------------------------------------------------------------------------
(***************************************************************************)
(* dispatch()                                                              *)
(***************************************************************************)
Dispatch(r) ==
  /\ phase[r] = "idle"
  /\ \E k \in {"scrape", "plain", "chat", "stream"}, u \in BOOLEAN :
       /\ u => k = "stream"
       /\ kind' = [kind EXCEPT ![r] = k]
       /\ asked' = [asked EXCEPT ![r] = u]
  /\ Becomes(r, "handled")
  /\ UNCHANGED <<sent, seen, ring, calls>>

\* The scrape endpoint of vLLM passes through.
Scrape(r) ==
  /\ phase[r] = "handled" /\ kind[r] = "scrape"
  /\ Closed(r, "passed")
  /\ UNCHANGED <<ring, calls>>

\* call_next() raises: the error is recorded and raised again.
Raises(r) ==
  /\ phase[r] = "handled" /\ kind[r] # "scrape"
  /\ RecordFor(r, 500, TRUE, Nothing)
  /\ Closed(r, "answered")

WrapAndRecord(r) ==
  /\ phase[r] = "handled" /\ kind[r] = "stream"
  /\ RecordFor(r, 200, FALSE, Nothing)
  /\ Becomes(r, "wrapped")
  /\ UNCHANGED <<kind, asked, sent, seen>>

\* A streamed response that is accepted is wrapped and left to the wrapper.
Wrap(r) ==
  /\ phase[r] = "handled" /\ kind[r] = "stream"
  /\ Becomes(r, "wrapped")
  /\ UNCHANGED <<kind, asked, sent, seen, ring, calls>>

\* Any other response; the body of a completion is read for its usage, a
\* status from 500 counts as an error.
Respond(r) ==
  /\ phase[r] = "handled" /\ kind[r] # "scrape"
  /\ \E status \in Statuses :
       /\ kind[r] = "stream" => status # 200
       /\ RecordFor(r, status, status >= 500,
            [ttft |-> None,
             tokens |-> IF kind[r] = "chat" /\ status = 200 THEN MaxContent ELSE None])
  /\ Closed(r, "answered")

-----------------------------------------------------------------------------
(***************************************************************************)
(* The wrapper of a stream.  The server pulls its events one by one; it    *)
(* drops the generator when it cannot send to the client.                  *)
(***************************************************************************)
Feed(r) ==
  /\ phase[r] \in {"wrapped", "streaming"}
  /\ \E e \in {"head", "content", "finish", "usage", "error"} :
       /\ Follows(e, sent[r], asked[r])
       /\ seen' = [seen EXCEPT ![r] = Measured(@, e, sent[r])]
       /\ sent' = [sent EXCEPT ![r] = Append(@, e)]
  /\ Becomes(r, "streaming")
  /\ UNCHANGED <<kind, asked, ring, calls>>

\* The events end with [DONE], or early, when the service failed: the
\* middleware cannot tell (middleware.py:29-35).
StreamEnds(r) ==
  /\ phase[r] \in {"wrapped", "streaming"}
  /\ RecordFor(r, 200, FALSE, seen[r])
  /\ Closed(r, "ended")

IteratorRaises(r) ==
  /\ phase[r] \in {"wrapped", "streaming"}
  /\ RecordFor(r, 500, TRUE, seen[r])
  /\ Closed(r, "cut")

\* A generator that never started has no finally to run.
Drop(r) ==
  /\ phase[r] \in {"wrapped", "streaming"}
  /\ IF phase[r] = "wrapped" THEN Closed(r, "lost")
     ELSE /\ Becomes(r, "dropped") /\ sent' = [sent EXCEPT ![r] = <<>>]
          /\ UNCHANGED <<kind, asked, seen>>
  /\ UNCHANGED <<ring, calls>>

\* The event loop closes the abandoned generator at its yield.
CloseSilently(r) ==
  /\ phase[r] = "dropped"
  /\ Closed(r, "closed")
  /\ UNCHANGED <<ring, calls>>

CloseDropped(r) ==
  /\ phase[r] = "dropped"
  /\ RecordFor(r, 200, FALSE, seen[r])
  /\ Closed(r, "closed")

-----------------------------------------------------------------------------
(***************************************************************************)
(* MetricsService.summary(): the 95th percentile is the latency at this    *)
(* index, from 0, of the sorted latencies of n records.                    *)
(***************************************************************************)
P95Index(n) == IF (n * 95) \div 100 - 1 < 0 THEN 0 ELSE (n * 95) \div 100 - 1

-----------------------------------------------------------------------------

ObservabilityInit ==
  /\ phase = [r \in Requests |-> "idle"]
  /\ kind = [r \in Requests |-> "plain"]
  /\ asked = [r \in Requests |-> FALSE]
  /\ sent = [r \in Requests |-> <<>>]
  /\ seen = [r \in Requests |-> Nothing]
  /\ ring = <<>>
  /\ calls = [r \in Requests |-> 0]

\* The server's side of a request, but for the end of its stream.
Serve(r) ==
  \/ Scrape(r) \/ Raises(r) \/ Wrap(r) \/ Respond(r)
  \/ Feed(r) \/ IteratorRaises(r) \/ CloseDropped(r)
=============================================================================
