------------------------ MODULE MeasurementProperties ------------------------
(***************************************************************************)
(* What can be relied on in the figures the server, the runner and the     *)
(* advisor report.                                                         *)
(***************************************************************************)
EXTENDS Benchmarks

\* Every response is recorded once when it is over and not before, however
\* it ended; a scrape and a stream that never started are not (middleware.py:
\* 17-19, 76-81, 112-115).
RecordedOnce ==
  \A r \in Requests :
    calls[r] = IF phase[r] \in {"answered", "ended", "cut", "closed"} THEN 1 ELSE 0

\* A stream that has begun is recorded in the end, also when its client has
\* gone and nobody pulls it any more.
EveryStreamRecorded ==
  \A r \in Requests : phase[r] = "streaming" ~> calls[r] = 1

\* The server's record and the runner's measurement of the same stream agree:
\* TTFT is the same event, the tokens are the same, and where the server has
\* no figure the runner has its substitute (middleware.py:245-254).
SameFigures ==
  bench # NoRun =>
    \A i \in DOMAIN bench.results, j \in DOMAIN ring :
      LET result == bench.results[i].taken
          record == ring[j]
      IN  record.request = bench.results[i].request =>
            /\ result.ttft = IF record.ttft = None THEN result.latency
                             ELSE record.ttft
            /\ result.tokens = IF record.tokens = None THEN 0 ELSE record.tokens

\* A run on the suite has written its whole result, which takes the place of
\* its model's.
Replaced(s) ==
  \E f \in files' : /\ f.whole /\ f.suite = s /\ f.time = runs
                    /\ Selection(s)' = {g \in Selection(s) : g.model # f.model} \cup {f}

\* What the advisor selects for a suite changes only when a run on that suite
\* has written its whole result, and then only for its model: a run that
\* fails, a crash while saving, runs on other suites and edits change nothing.
SelectionChangesOnlyByResults ==
  [][\A s \in Suites : Selection(s)' # Selection(s) => Replaced(s)]_measurementVars

\* A viable model that is at least as good as another in throughput, TTFT and
\* memory is listed above it, whatever else is in the report, unless their
\* rounded scores tie (advisor.py:185) and the store lists the other first:
\* on a GPU and without one.
DominanceRespected ==
  \A s \in Suites, total \in {0, TotalVram} :
    LET eligible == Eligible(Selection(s))
    IN  \A f, g \in eligible :
          /\ Viable(f, total)
          /\ f.throughput >= g.throughput /\ f.ttft <= g.ttft /\ f.vram <= g.vram
          /\ RankedAbove(g, f, eligible, total)
          => Score(g, eligible, total) = Score(f, eligible, total) /\ g.model < f.model
=============================================================================
