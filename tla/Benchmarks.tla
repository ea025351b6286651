----------------------------- MODULE Benchmarks ------------------------------
(***************************************************************************)
(* The benchmark runner as a client of the observed server, the store of   *)
(* its results and the advisor that ranks them (benchmarks/,               *)
(* scripts/benchmark.py).                                                  *)
(*                                                                         *)
(* A run streams the prompts of the suite one after the other, measures    *)
(* them on its own, and writes one file at its end.  The process may die   *)
(* at any point, also while it writes.  The suite is a file people edit:   *)
(* its prompts have a version (the digest) and store one.                  *)
(***************************************************************************)
EXTENDS Observability, FiniteSetsExt, Rounding

CONSTANTS
  Models,      \* the models a run can be about, numbered in the order of names
  Suites,      \* the versions of the prompts, in the order they are edited
  SuiteSize,   \* prompts in a suite
  MaxRuns,     \* bound on the runs
  VramLevels,  \* the memory a run can find occupied, in half GB
  TotalVram,   \* memory of this machine's GPU
  OldResults   \* what the results directory can hold at the beginning

\* A run's figures are the sums over its prompts; time orders the runs.
ResultFile ==
  [model : Nat, suite : Suites, time : Int, whole : BOOLEAN,
   hardware : {"this", "unknown", "other"}, throughput : Nat, ttft : Nat, vram : Nat]

ASSUME BenchmarkConstants ==
  /\ SuiteSize \in Nat \ {0} /\ MaxRuns \in Nat
  /\ TotalVram \in Nat \ {0} /\ VramLevels \subseteq 0..TotalVram
  /\ Suites \subseteq Nat /\ Requests \subseteq Nat
  /\ \A old \in OldResults :
       IsFiniteSet(old) /\ \A f \in old : f \in ResultFile /\ f.time <= 0

VARIABLES
  prompts,  \* the version of the prompts in the suite file
  stored,   \* the suite_version the file states
  runs,     \* runs started so far
  bench,    \* the run under way: [at, model, suite, request, results]
  files     \* the result files

benchVars == <<prompts, stored, runs, bench, files>>
measurementVars == <<observabilityVars, benchVars>>

NoRun == [at |-> "off"]

Current == bench.request
IsNext(r) == phase[r] = "idle" /\ \A q \in Requests : phase[q] = "idle" => r <= q
Reads(r) == bench.at = "read" /\ bench.request = r

-----------------------------------------------------------------------------
(***************************************************************************)
(* The suite file.                                                         *)
(***************************************************************************)
EditPrompts ==
  /\ \E v \in Suites : v > prompts /\ prompts' = v
  /\ UNCHANGED <<observabilityVars, stored, runs, bench, files>>

\* make suite-version
WriteVersion ==
  /\ stored # prompts /\ stored' = prompts
  /\ UNCHANGED <<observabilityVars, prompts, runs, bench, files>>

Verified == stored = prompts

-----------------------------------------------------------------------------
(***************************************************************************)
(* BenchmarkRunner.run()                                                   *)
(***************************************************************************)
StartRun(m) ==
  /\ bench = NoRun /\ runs < MaxRuns
  /\ Verified
  /\ runs' = runs + 1
  /\ bench' = [at |-> "ask", model |-> m, suite |-> stored, request |-> 0, results |-> <<>>]
  /\ UNCHANGED <<observabilityVars, prompts, stored, files>>

\* The next prompt is posted with stream and include_usage set.
Ask ==
  /\ bench.at = "ask"
  /\ \E r \in Requests :
       /\ IsNext(r) /\ Becomes(r, "handled")
       /\ kind' = [kind EXCEPT ![r] = "stream"]
       /\ asked' = [asked EXCEPT ![r] = TRUE]
       /\ bench' = [bench EXCEPT !.at = "read", !.request = r]
  /\ UNCHANGED <<sent, seen, ring, calls, prompts, stored, runs, files>>

\* What the runner takes from the lines of a stream: the first content gives
\* TTFT, or none the whole duration, and the usage the tokens; the metadata
\* and an error are passed over.
Taken(events) ==
  LET contents == ContentsAt(events)
      usages   == {i \in DOMAIN events : events[i] = "usage"}
      latency  == Len(events) + 1
  IN  [latency |-> latency,
       ttft    |-> IF contents = {} THEN latency ELSE Min(contents),
       tokens  |-> IF usages = {} THEN 0 ELSE Cardinality(contents)]

\* A stream has ended, also one the service broke off: it ends like any other
\* on the wire, and whoever reads it has its events.
EndPrompt ==
  LET results == Append(bench.results, [request |-> Current, taken |-> Taken(sent[Current])])
  IN  /\ bench' = [bench EXCEPT !.results = results,
                                !.at = IF Len(results) = SuiteSize THEN "save" ELSE "ask"]
      /\ UNCHANGED <<prompts, stored, runs, files>>

StreamOver(r) ==
  /\ StreamEnds(r)
  /\ IF Reads(r) THEN EndPrompt ELSE UNCHANGED benchVars

\* The process ends without a result: a status that is not 200, a connection
\* cut off, a read that times out (all exceptions), or a crash.
RunFails ==
  /\ bench # NoRun /\ bench' = NoRun
  /\ UNCHANGED <<observabilityVars, prompts, stored, runs, files>>

-----------------------------------------------------------------------------
(***************************************************************************)
(* ResultStore.save(): the file is written in place, so that it is there   *)
(* before it is whole.                                                     *)
(***************************************************************************)
\* The means are kept as sums: all results of a suite have as many prompts.
Throughput(results) ==
  SumFunction([i \in DOMAIN results |->
                 (60 * results[i].taken.tokens) \div results[i].taken.latency])

\* _warm_ttft_ms(): over all prompts but the first.
WarmTtft(results) ==
  SumFunctionOnSet([i \in DOMAIN results |-> results[i].taken.ttft],
                   IF Len(results) > 1 THEN 2..Len(results) ELSE DOMAIN results)

BeginSave ==
  /\ bench.at = "save"
  /\ \E vram \in VramLevels :
       files' = files \cup
         {[model |-> bench.model, suite |-> bench.suite, time |-> runs, whole |-> FALSE,
           hardware |-> "this", throughput |-> Throughput(bench.results),
           ttft |-> WarmTtft(bench.results), vram |-> vram]}
  /\ bench' = [bench EXCEPT !.at = "saving"]
  /\ UNCHANGED <<observabilityVars, prompts, stored, runs>>

EndSave ==
  /\ bench.at = "saving"
  /\ files' = {IF f.time = runs THEN [f EXCEPT !.whole = TRUE] ELSE f : f \in files}
  /\ bench' = NoRun
  /\ UNCHANGED <<observabilityVars, prompts, stored, runs>>

-----------------------------------------------------------------------------
(***************************************************************************)
(* What the advisor reads: every file that parses, those of the current    *)
(* suite, and of these the latest per model (latest_per_model_for_suite()).*)
(***************************************************************************)
AllResults == {f \in files : f.whole}

LatestPerModel(results) ==
  {f \in results : \A g \in results : g.model = f.model => g.time <= f.time}

SelectionLatestFirst(suite) == {f \in LatestPerModel(AllResults) : f.suite = suite}

Selection(suite) == LatestPerModel({f \in AllResults : f.suite = suite})

\* rank(), on a machine with this much GPU memory, 0 without a GPU.  Results
\* of another machine are skipped, those without hardware are not.
Eligible(selection) == {f \in selection : f.hardware \in {"this", "unknown"}}

\* VRAM_SAFETY_BUFFER_GB: memory is counted in half GB.
VramBuffer == 1

Viable(f, total) == total = 0 \/ f.vram + VramBuffer <= total

\* The score in hundredths, rounded: 4 parts throughput, 3 TTFT and 2 memory
\* left, each a share of the largest over all eligible ones.  _safe_div() makes
\* a share of a maximum of 0 nothing, as one of 1 does when all are 0.
ScoreSlowFirst(f, eligible, total) ==
  LET fastest == Max({1} \cup {g.throughput : g \in eligible})
      slowest == Max({1} \cup {g.ttft : g \in eligible})
      memory  == IF total = 0 THEN 1 ELSE total
      room    == IF total = 0 THEN 1 ELSE total - (f.vram + VramBuffer)
  IN  IF ~Viable(f, total) THEN 0
      ELSE RoundedDiv(10000 * (4 * f.throughput * slowest * memory
                                 + 3 * f.ttft * fastest * memory
                                 + 2 * room * fastest * slowest),
                      9 * fastest * slowest * memory)

Score(f, eligible, total) ==
  LET fastest == Max({1} \cup {g.throughput : g \in eligible})
      slowest == Max({1} \cup {g.ttft : g \in eligible})
      memory  == IF total = 0 THEN 1 ELSE total
      room    == IF total = 0 THEN 1 ELSE total - (f.vram + VramBuffer)
  IN  IF ~Viable(f, total) THEN 0
      ELSE RoundedDiv(10000 * (4 * f.throughput * slowest * memory
                                 + 3 * (slowest - f.ttft) * fastest * memory
                                 + 2 * room * fastest * slowest),
                      9 * fastest * slowest * memory)

\* A stable sort by the rounded score: equal scores stay in the order of the
\* store, which lists models by the names of their files.
RankedAbove(f, g, eligible, total) ==
  \/ Score(f, eligible, total) > Score(g, eligible, total)
  \/ Score(f, eligible, total) = Score(g, eligible, total) /\ f.model < g.model

-----------------------------------------------------------------------------

MeasurementInit ==
  /\ ObservabilityInit
  /\ prompts = Min(Suites) /\ stored = prompts
  /\ runs = 0 /\ bench = NoRun
  /\ files \in OldResults

ServerStep(r) == (Serve(r) /\ UNCHANGED benchVars) \/ StreamOver(r)
\* The runner leaves only by ending.
ClientLeaves(r) == ~Reads(r) /\ Drop(r) /\ UNCHANGED benchVars

RunnerStep == Ask \/ BeginSave \/ EndSave

MeasurementNext ==
  \/ \E r \in Requests : IsNext(r) /\ Dispatch(r) /\ UNCHANGED benchVars
  \/ \E r \in Requests : ServerStep(r)
  \/ \E r \in Requests : ClientLeaves(r)
  \/ RunnerStep \/ RunFails
  \/ \E m \in Models : StartRun(m)
  \/ EditPrompts \/ WriteVersion

MeasurementSpec == MeasurementInit /\ [][MeasurementNext]_measurementVars

(***************************************************************************)
(* The service ends every request whose client reads or leaves             *)
(* (ChatServiceProperties), and the event loop closes what was dropped.    *)
(***************************************************************************)
MeasurementFairSpec ==
  /\ MeasurementSpec
  /\ \A r \in Requests : WF_measurementVars(ServerStep(r))
=============================================================================
