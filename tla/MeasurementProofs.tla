-------------------------- MODULE MeasurementProofs --------------------------
(***************************************************************************)
(* Every response is recorded once, for any number of requests, and the    *)
(* advisor's selection changes by whole results only, for any history of   *)
(* runs, crashes and edits; and where the 95th percentile is taken.        *)
(***************************************************************************)
EXTENDS MeasurementProperties, DataInduction

\* The largest rank of n values that 95% of them do not exceed: the nearest
\* rank of the percentile.
NearestRank95(n) == (95 * n + 99) \div 100

\* summary() takes the nearest rank, or the value just below it, and never one
\* outside of the n values (metrics_service.py:39).
THEOREM P95NearNearestRank ==
  ASSUME NEW n \in Nat, n >= 1
  PROVE  /\ P95Index(n) + 1 \in 1..n
         /\ P95Index(n) + 1 \in {NearestRank95(n), NearestRank95(n) - 1}
BY SMTT(60) DEF P95Index, NearestRank95

-----------------------------------------------------------------------------
(***************************************************************************)
(* RecordedOnce with the types it needs is inductive.                      *)
(***************************************************************************)
Phases ==
  {"idle", "handled", "wrapped", "streaming", "dropped", "passed", "answered",
   "ended", "cut", "closed", "lost"}

RecordInv ==
  /\ phase \in [Requests -> Phases]
  /\ calls \in [Requests -> Nat]
  /\ RecordedOnce

\* What each kind of step does to the phase and the count of a request.
LEMMA RecordStep ==
  ASSUME RecordInv, NEW r \in Requests, NEW p \in Phases,
         phase' = [phase EXCEPT ![r] = p],
         LET over == {"answered", "ended", "cut", "closed"}
         IN  \/ /\ p \notin over /\ phase[r] \notin over
                /\ calls' = calls
             \/ /\ p \in over /\ phase[r] \notin over
                /\ calls' = [calls EXCEPT ![r] = @ + 1]
  PROVE  RecordInv'
<1>1. phase' \in [Requests -> Phases] /\ calls' \in [Requests -> Nat]
  BY DEF RecordInv
<1>2. ASSUME NEW q \in Requests
      PROVE  calls'[q] = IF phase'[q] \in {"answered", "ended", "cut", "closed"} THEN 1 ELSE 0
  BY DEF RecordInv, RecordedOnce
<1>3. QED BY <1>1, <1>2 DEF RecordInv, RecordedOnce

\* Every step keeps it.
LEMMA RecordInvStep ==
  RecordInv /\ [MeasurementNext]_measurementVars => RecordInv'
<1> SUFFICES ASSUME RecordInv, [MeasurementNext]_measurementVars PROVE RecordInv'
  OBVIOUS
<1> USE DEF Becomes, Closed, RecordFor, Phases
<1>1. ASSUME NEW r \in Requests, Dispatch(r)
      PROVE  RecordInv'
  BY <1>1, RecordStep DEF Dispatch
<1>2. ASSUME NEW r \in Requests, Serve(r)
      PROVE  RecordInv'
  <2>1. CASE Scrape(r) \/ Wrap(r)
    BY <2>1, RecordStep DEF Scrape, Wrap
  <2>2. CASE Raises(r)
    BY <2>2, RecordStep DEF Raises
  <2>3. CASE Respond(r)
    BY <2>3, RecordStep DEF Respond
  <2>4. CASE Feed(r)
    BY <2>4, RecordStep DEF Feed
  <2>5. CASE IteratorRaises(r)
    BY <2>5, RecordStep DEF IteratorRaises
  <2>6. CASE CloseDropped(r)
    BY <2>6, RecordStep DEF CloseDropped
  <2>7. QED BY <1>2, <2>1, <2>2, <2>3, <2>4, <2>5, <2>6 DEF Serve
<1>3. ASSUME NEW r \in Requests, StreamEnds(r)
      PROVE  RecordInv'
  BY <1>3, RecordStep DEF StreamEnds
<1>4. ASSUME NEW r \in Requests, Drop(r)
      PROVE  RecordInv'
  BY <1>4, RecordStep DEF Drop
<1>5. CASE Ask
  <2>1. PICK r \in Requests : phase[r] = "idle" /\ phase' = [phase EXCEPT ![r] = "handled"]
    BY <1>5 DEF Ask, IsNext
  <2>2. calls' = calls
    BY <1>5 DEF Ask
  <2>3. QED BY <2>1, <2>2, RecordStep
<1>6. ASSUME UNCHANGED <<phase, calls>>
      PROVE  RecordInv'
  BY <1>6 DEF RecordInv, RecordedOnce
<1>7. CASE \/ BeginSave \/ EndSave \/ RunFails \/ EditPrompts \/ WriteVersion
           \/ \E m \in Models : StartRun(m)
  BY <1>6, <1>7 DEF BeginSave, EndSave, RunFails, EditPrompts, WriteVersion, StartRun,
                    observabilityVars
<1>8. CASE UNCHANGED measurementVars
  BY <1>6, <1>8 DEF measurementVars, observabilityVars
<1>9. QED
  BY <1>1, <1>2, <1>3, <1>4, <1>5, <1>7, <1>8
     DEF MeasurementNext, ServerStep, StreamOver, ClientLeaves, RunnerStep

\* Every response is recorded once when it is over and not before, whatever
\* the requests are and however they end (middleware.py:75-212, 281-339).
THEOREM EveryResponseRecordedOnce == MeasurementSpec => []RecordedOnce
<1>1. MeasurementInit => RecordInv
  BY DEF MeasurementInit, ObservabilityInit, RecordInv, RecordedOnce, Phases
<1>2. RecordInv => RecordedOnce
  BY DEF RecordInv
<1>3. QED BY <1>1, <1>2, RecordInvStep, PTL DEF MeasurementSpec

-----------------------------------------------------------------------------
(***************************************************************************)
(* The file a run is saving is the only one of its time; all others are    *)
(* older.                                                                  *)
(***************************************************************************)
IsFile(f) ==
  /\ {"model", "suite", "time", "whole"} \subseteq DOMAIN f
  /\ f.time \in Int /\ f.whole \in BOOLEAN

FilesInv ==
  /\ \A f \in files : IsFile(f) /\ f.time <= runs
  /\ bench.at \in {"ask", "read", "save"} => \A f \in files : f.time < runs

RunInv ==
  /\ runs \in Nat
  /\ bench.at \in {"off", "ask", "read", "save", "saving"} /\ "at" \in DOMAIN bench

\* The file being saved, which is not whole yet.
Saving(f) ==
  f \in files /\ ~f.whole /\ f.time = runs /\ \A g \in files \ {f} : g.time < runs

SavingInv == bench.at = "saving" => \E f \in files : Saving(f)

BenchInv == FilesInv /\ RunInv /\ SavingInv

\* A saving begins with a file that is not whole.
LEMMA SavedBegun ==
  ASSUME BeginSave, runs \in Nat
  PROVE  \E f : files' = files \cup {f} /\ IsFile(f) /\ f.time = runs /\ ~f.whole
<1> DEFINE begun(vram) ==
      [model |-> bench.model, suite |-> bench.suite, time |-> runs, whole |-> FALSE,
       hardware |-> "this", throughput |-> Throughput(bench.results),
       ttft |-> WarmTtft(bench.results), vram |-> vram]
<1>1. PICK vram \in VramLevels : files' = files \cup {begun(vram)}
  BY Zenon DEF BeginSave
<1>2. IsFile(begun(vram)) /\ begun(vram).time = runs /\ ~begun(vram).whole
  BY DEF IsFile
<1>3. QED BY <1>1, <1>2

\* What the end of a saving does to the files.
LEMMA SavedFile ==
  ASSUME BenchInv, EndSave
  PROVE  \E f, g : /\ Saving(f) /\ files' = (files \ {f}) \cup {g}
                   /\ IsFile(g) /\ g.whole /\ g.time = runs
                   /\ g.model = f.model /\ g.suite = f.suite
<1>1. PICK f \in files : Saving(f)
  BY DEF EndSave, BenchInv, SavingInv
<1> DEFINE g == [f EXCEPT !.whole = TRUE]
<1>2. IsFile(f) /\ \A h \in files : h.time \in Int
  BY <1>1 DEF BenchInv, FilesInv, IsFile
<1>3. /\ IsFile(g) /\ g.whole /\ g.time = runs
      /\ g.model = f.model /\ g.suite = f.suite
  BY <1>1, <1>2 DEF IsFile, Saving
<1>4. files' = (files \ {f}) \cup {g}
  <2>1. files' = {IF h.time = runs THEN [h EXCEPT !.whole = TRUE] ELSE h : h \in files}
    BY DEF EndSave
  <2>2. \A h \in files : h.time = runs <=> h = f
    BY <1>1, <1>2 DEF Saving, BenchInv, RunInv
  <2> HIDE DEF g
  <2>3. \A h \in files : h = f => (IF h.time = runs THEN [h EXCEPT !.whole = TRUE] ELSE h) = g
    BY <2>2 DEF g
  <2>4. \A h \in files : h # f => (IF h.time = runs THEN [h EXCEPT !.whole = TRUE] ELSE h) = h
    BY <2>2
  <2>5. QED BY <1>1, <2>1, <2>3, <2>4
<1>5. QED BY <1>1, <1>3, <1>4

\* Every step keeps the invariant.
LEMMA BenchInvStep == BenchInv /\ [MeasurementNext]_measurementVars => BenchInv'
<1> SUFFICES ASSUME BenchInv, [MeasurementNext]_measurementVars PROVE BenchInv'
  OBVIOUS
<1> USE DEF BenchInv, FilesInv, RunInv
<1>1. ASSUME UNCHANGED <<runs, files>>, bench'.at = bench.at, "at" \in DOMAIN bench'
      PROVE  BenchInv'
  BY <1>1 DEF SavingInv, Saving
<1>2. CASE UNCHANGED benchVars
  BY <1>1, <1>2 DEF benchVars
<1>3. ASSUME UNCHANGED <<runs, files>>, bench.at \in {"ask", "read", "save"},
             bench'.at \in {"ask", "read", "save"}, "at" \in DOMAIN bench'
      PROVE  BenchInv'
  BY <1>3 DEF SavingInv
<1>4. ASSUME NEW r \in Requests, StreamOver(r)
      PROVE  BenchInv'
  <2>1. CASE Reads(r)
    <3>1. EndPrompt
      BY <1>4, <2>1 DEF StreamOver
    <3>2. bench.at = "read" /\ UNCHANGED <<runs, files>> /\ "at" \in DOMAIN bench'
          /\ bench'.at \in {"save", "ask"}
      BY <2>1, <3>1 DEF Reads, EndPrompt
    <3>3. QED BY <1>3, <3>2
  <2>2. QED BY <1>2, <1>4, <2>1 DEF StreamOver
<1>5. CASE Ask
  BY <1>3, <1>5 DEF Ask
<1>6. CASE BeginSave
  <2>1. /\ bench.at = "save" /\ bench'.at = "saving" /\ "at" \in DOMAIN bench'
        /\ runs' = runs
    BY <1>6 DEF BeginSave
  <2>2. PICK f : files' = files \cup {f} /\ IsFile(f) /\ f.time = runs /\ ~f.whole
    BY <1>6, SavedBegun
  <2>3. Saving(f)'
    BY <2>1, <2>2 DEF Saving
  <2>4. QED BY <2>1, <2>2, <2>3 DEF SavingInv, IsFile
<1>7. CASE EndSave
  <2>1. PICK f, g : /\ Saving(f) /\ files' = (files \ {f}) \cup {g}
                    /\ IsFile(g) /\ g.time = runs
    BY <1>7, SavedFile
  <2>2. bench' = NoRun /\ runs' = runs
    BY <1>7 DEF EndSave
  <2>3. QED BY <2>1, <2>2 DEF NoRun, SavingInv
<1>8. CASE RunFails
  BY <1>8 DEF RunFails, NoRun, SavingInv
<1>9. CASE EditPrompts \/ WriteVersion
  BY <1>1, <1>9 DEF EditPrompts, WriteVersion
<1>10. ASSUME NEW m \in Models, StartRun(m)
       PROVE  BenchInv'
  <2>1. /\ bench'.at = "ask" /\ "at" \in DOMAIN bench' /\ runs' = runs + 1 /\ files' = files
    BY <1>10 DEF StartRun
  <2>2. \A f \in files' : IsFile(f) /\ f.time < runs'
    BY <2>1 DEF IsFile
  <2>3. QED BY <2>1, <2>2 DEF SavingInv, IsFile
<1>11. CASE UNCHANGED measurementVars
  BY <1>2, <1>11 DEF measurementVars
<1>12. QED
  BY <1>2, <1>4, <1>5, <1>6, <1>7, <1>8, <1>9, <1>10, <1>11
     DEF MeasurementNext, ServerStep, ClientLeaves, RunnerStep

\* The invariant holds of every behaviour.
LEMMA BenchInvariant == MeasurementSpec => []BenchInv
<1>1. MeasurementInit => BenchInv
  <2> SUFFICES ASSUME MeasurementInit PROVE BenchInv
    OBVIOUS
  <2>1. runs = 0 /\ bench = NoRun /\ files \in OldResults
    BY DEF MeasurementInit
  <2>2. \A f \in files : IsFile(f) /\ f.time <= 0
    BY <2>1, BenchmarkConstants DEF ResultFile, IsFile
  <2>3. QED BY <2>1, <2>2 DEF BenchInv, FilesInv, RunInv, SavingInv, NoRun
<1>2. QED BY <1>1, BenchInvStep, PTL DEF MeasurementSpec

\* A newer result of a model takes the place of its latest.
LEMMA NewestWins ==
  ASSUME NEW results, NEW f, f.time \in Int,
         \A g \in results : g.time \in Int /\ g.time < f.time
  PROVE  LatestPerModel(results \cup {f})
           = {g \in LatestPerModel(results) : g.model # f.model} \cup {f}
BY DEF LatestPerModel

\* What the end of a saving does to the selections.
LEMMA SavedSelection ==
  ASSUME BenchInv, EndSave, NEW s, Selection(s)' # Selection(s)
  PROVE  Replaced(s)
<1>1. PICK old, f : /\ Saving(old) /\ files' = (files \ {old}) \cup {f}
                    /\ IsFile(f) /\ f.whole /\ f.time = runs
                    /\ f.model = old.model /\ f.suite = old.suite
  BY SavedFile
<1> DEFINE results == {g \in AllResults : g.suite = s}
<1>2. \A g \in AllResults : g.time \in Int /\ g.time < f.time /\ g # old
  BY <1>1 DEF AllResults, Saving, BenchInv, FilesInv, IsFile
<1>3. AllResults' = AllResults \cup {f}
  BY <1>1, <1>2 DEF AllResults, Saving
<1>4. CASE f.suite = s
  <2>1. Selection(s)' = LatestPerModel(results \cup {f})
    BY <1>3, <1>4 DEF Selection
  <2>2. LatestPerModel(results \cup {f})
          = {g \in LatestPerModel(results) : g.model # f.model} \cup {f}
    BY <1>1, <1>2, NewestWins DEF IsFile
  <2>3. f \in files'
    BY <1>1
  <2>4. QED BY <1>1, <1>4, <2>1, <2>2, <2>3 DEF Selection, Replaced
<1>5. CASE f.suite # s
  BY <1>3, <1>5 DEF Selection
<1>6. QED BY <1>4, <1>5

\* The advisor's selection changes only by the whole result of a run on its
\* suite, for any number of runs, models and suites (benchmarks/storage.py).
THEOREM OnlyResultsChangeSelection == MeasurementSpec => SelectionChangesOnlyByResults
<1>1. ASSUME BenchInv, [MeasurementNext]_measurementVars, NEW s \in Suites,
             Selection(s)' # Selection(s)
      PROVE  Replaced(s)
  <2>1. CASE UNCHANGED files
    BY <1>1, <2>1 DEF Selection, AllResults, LatestPerModel
  <2>2. CASE BeginSave
    <3>1. PICK f : files' = files \cup {f} /\ ~f.whole
      BY <1>1, <2>2, SavedBegun DEF BenchInv, RunInv
    <3>2. AllResults' = AllResults
      BY <3>1 DEF AllResults
    <3>3. QED BY <1>1, <3>2 DEF Selection
  <2>3. CASE EndSave
    BY <1>1, <2>3, SavedSelection
  <2>4. QED
    BY <1>1, <2>1, <2>2, <2>3
       DEF MeasurementNext, ServerStep, StreamOver, EndPrompt, ClientLeaves, RunnerStep,
           RunFails, StartRun, EditPrompts, WriteVersion, Ask, benchVars, measurementVars
<1>2. BenchInv /\ [MeasurementNext]_measurementVars
        => [\A s \in Suites : Selection(s)' # Selection(s) => Replaced(s)]_measurementVars
  BY <1>1
<1>3. QED BY <1>2, BenchInvariant, PTL DEF MeasurementSpec, SelectionChangesOnlyByResults

-----------------------------------------------------------------------------
(***************************************************************************)
(* The wrapper's figures are what the events it let through say, and the   *)
(* runner reads the same events: where both have measured a stream, they   *)
(* agree.                                                                  *)
(***************************************************************************)
EventKinds == {"head", "content", "finish", "usage", "error"}
Figures    == [ttft : Nat \cup {None}, tokens : Nat \cup {None}]
TakenSet   == [latency : Nat \ {0}, ttft : Nat, tokens : Nat]
Result     == [request : Requests, taken : TakenSet]
Record     == [request : Requests, status : Nat, error : BOOLEAN,
               ttft : Nat \cup {None}, tokens : Nat \cup {None}]

\* m is what the events of s say: the place of the first content, and the
\* count of contents when they end with the usage.
Measures(m, s) ==
  /\ IF ContentsAt(s) = {} THEN m.ttft = None
     ELSE m.ttft \in ContentsAt(s) /\ \A i \in ContentsAt(s) : m.ttft <= i
  /\ m.tokens = IF \E i \in DOMAIN s : s[i] = "usage" THEN Contents(s) ELSE None
  /\ \A i \in DOMAIN s : s[i] = "usage" => i = Len(s)

WrapperInv ==
  /\ phase \in [Requests -> Phases]
  /\ sent \in [Requests -> Seq(EventKinds)]
  /\ seen \in [Requests -> Figures]
  /\ \A r \in Requests : phase[r] # "dropped" => Measures(seen[r], sent[r])

\* The records are of requests that are over, the run's results of streams
\* that ended, so that no later step measures either again.
Recorded(p) == p \in {"answered", "ended", "cut", "closed"}

RingInv ==
  /\ ring \in Seq(Record)
  /\ \A j \in DOMAIN ring : Recorded(phase[ring[j].request])

ResultsInv ==
  bench # NoRun =>
    /\ {"at", "request", "results"} \subseteq DOMAIN bench
    /\ bench.at # "off"
    /\ bench.at = "read" => bench.request \in Requests
    /\ bench.results \in Seq(Result)
    /\ \A i \in DOMAIN bench.results : phase[bench.results[i].request] = "ended"

FiguresInv == WrapperInv /\ RingInv /\ ResultsInv /\ SameFigures

\* The positions of an event sequence that grows by one.
LEMMA AppendedContents ==
  ASSUME NEW s \in Seq(EventKinds), NEW e \in EventKinds
  PROVE  /\ DOMAIN s = 1..Len(s) /\ Len(s) \in Nat
         /\ DOMAIN Append(s, e) = 1..(Len(s) + 1) /\ Len(Append(s, e)) = Len(s) + 1
         /\ \A i \in DOMAIN s : Append(s, e)[i] = s[i]
         /\ Append(s, e)[Len(s) + 1] = e
         /\ ContentsAt(Append(s, e))
              = ContentsAt(s) \cup (IF e = "content" THEN {Len(s) + 1} ELSE {})
         /\ ContentsAt(s) \subseteq 1..Len(s)
         /\ IsFiniteSet(ContentsAt(s)) /\ Contents(s) \in Nat
<1>1. /\ DOMAIN s = 1..Len(s) /\ Len(s) \in Nat
      /\ DOMAIN Append(s, e) = 1..(Len(s) + 1) /\ Len(Append(s, e)) = Len(s) + 1
      /\ \A i \in DOMAIN s : Append(s, e)[i] = s[i]
      /\ Append(s, e)[Len(s) + 1] = e
  OBVIOUS
<1>2. ContentsAt(s) \subseteq 1..Len(s)
  BY <1>1 DEF ContentsAt
<1>3. ContentsAt(Append(s, e))
        = ContentsAt(s) \cup (IF e = "content" THEN {Len(s) + 1} ELSE {})
  <2> DEFINE t == Append(s, e)
  <2>1. /\ DOMAIN t = 1..(Len(s) + 1) /\ t[Len(s) + 1] = e
        /\ \A i \in 1..Len(s) : t[i] = s[i]
    BY <1>1
  <2> HIDE DEF t
  <2>2. QED BY <1>1, <2>1 DEF ContentsAt
<1>4. IsFiniteSet(ContentsAt(s)) /\ Contents(s) \in Nat
  <2>1. IsFiniteSet(1..Len(s))
    BY <1>1, FS_Interval
  <2>2. IsFiniteSet(ContentsAt(s))
    BY <1>2, <2>1, FS_Subset
  <2>3. QED BY <2>2, FS_CardinalityType DEF Contents
<1>5. QED BY <1>1, <1>2, <1>3, <1>4

\* One more event keeps the figures what the events say.
LEMMA MeasuredStep ==
  ASSUME NEW s \in Seq(EventKinds), NEW e \in EventKinds, NEW m \in Figures, NEW u,
         Measures(m, s), Follows(e, s, u)
  PROVE  Measured(m, e, s) \in Figures /\ Measures(Measured(m, e, s), Append(s, e))
<1> DEFINE t == Append(s, e)
           n == Measured(m, e, s)
<1>1. /\ DOMAIN s = 1..Len(s) /\ Len(s) \in Nat
      /\ DOMAIN t = 1..(Len(s) + 1) /\ Len(t) = Len(s) + 1
      /\ \A i \in DOMAIN s : t[i] = s[i]
      /\ t[Len(s) + 1] = e
      /\ ContentsAt(t) = ContentsAt(s) \cup (IF e = "content" THEN {Len(s) + 1} ELSE {})
      /\ ContentsAt(s) \subseteq 1..Len(s)
      /\ Contents(s) \in Nat
  BY AppendedContents
<1>2. /\ n.ttft = IF m.ttft = None /\ e = "content" THEN Len(s) + 1 ELSE m.ttft
      /\ n.tokens = IF e = "usage" THEN Contents(s) ELSE m.tokens
      /\ n \in Figures
  BY <1>1 DEF Measured, HasContentDelta, Figures
<1> HIDE DEF t, n
<1>3. IF ContentsAt(t) = {} THEN n.ttft = None
      ELSE n.ttft \in ContentsAt(t) /\ \A i \in ContentsAt(t) : n.ttft <= i
  <2>1. CASE e = "content"
    BY <1>1, <1>2, <2>1 DEF Measures, None
  <2>2. CASE e # "content"
    BY <1>1, <1>2, <2>2 DEF Measures, None
  <2>3. QED BY <2>1, <2>2
<1>4. ~\E i \in DOMAIN s : s[i] = "usage"
  <2>1. SUFFICES ASSUME NEW i \in DOMAIN s, s[i] = "usage" PROVE FALSE
    OBVIOUS
  <2>2. s # <<>> /\ s[Len(s)] = "usage"
    BY <1>1, <2>1 DEF Measures
  <2>3. QED BY <2>2 DEF Follows
<1>5. /\ n.tokens = IF \E i \in DOMAIN t : t[i] = "usage" THEN Contents(t) ELSE None
      /\ \A i \in DOMAIN t : t[i] = "usage" => i = Len(t)
  <2>1. CASE e = "usage"
    <3>1. ContentsAt(t) = ContentsAt(s)
      BY <1>1, <2>1
    <3>2. QED BY <1>1, <1>2, <1>4, <2>1, <3>1 DEF Contents
  <2>2. CASE e # "usage"
    BY <1>1, <1>2, <1>4, <2>2 DEF Measures
  <2>3. QED BY <2>1, <2>2
<1>6. QED BY <1>2, <1>3, <1>5 DEF Measures, t, n

\* What the runner takes from the events of a stream is what the wrapper
\* measured, with the substitutes for what is missing.
LEMMA TakenAgrees ==
  ASSUME NEW s \in Seq(EventKinds), NEW m \in Figures, Measures(m, s)
  PROVE  /\ Taken(s) \in TakenSet
         /\ Taken(s).ttft = IF m.ttft = None THEN Taken(s).latency ELSE m.ttft
         /\ Taken(s).tokens = IF m.tokens = None THEN 0 ELSE m.tokens
<1>1. /\ DOMAIN s = 1..Len(s) /\ Len(s) \in Nat /\ ContentsAt(s) \subseteq 1..Len(s)
      /\ Contents(s) \in Nat
  BY AppendedContents DEF EventKinds
<1>2. /\ Taken(s).latency = Len(s) + 1
      /\ Taken(s).ttft = IF ContentsAt(s) = {} THEN Len(s) + 1 ELSE Min(ContentsAt(s))
      /\ Taken(s).tokens = IF {i \in DOMAIN s : s[i] = "usage"} = {} THEN 0 ELSE Contents(s)
      /\ Taken(s) = [latency |-> Taken(s).latency, ttft |-> Taken(s).ttft,
                     tokens |-> Taken(s).tokens]
  BY DEF Taken, Contents
<1>3. ContentsAt(s) # {} => Min(ContentsAt(s)) = m.ttft /\ m.ttft \in ContentsAt(s)
  <2>1. SUFFICES ASSUME ContentsAt(s) # {}
                 PROVE  Min(ContentsAt(s)) = m.ttft /\ m.ttft \in ContentsAt(s)
    OBVIOUS
  <2>2. m.ttft \in ContentsAt(s) /\ \A i \in ContentsAt(s) : m.ttft <= i
    BY <2>1 DEF Measures
  <2>3. \A x \in ContentsAt(s) : (\A y \in ContentsAt(s) : x <= y) => x = m.ttft
    BY <1>1, <2>2
  <2>4. QED BY <2>2, <2>3 DEF Min
<1>4. Taken(s).ttft = IF m.ttft = None THEN Taken(s).latency ELSE m.ttft
  <2>1. CASE ContentsAt(s) = {}
    BY <1>2, <2>1 DEF Measures
  <2>2. CASE ContentsAt(s) # {}
    <3>1. m.ttft # None
      BY <1>1, <1>3, <2>2 DEF None
    <3>2. QED BY <1>2, <1>3, <2>2, <3>1
  <2>3. QED BY <2>1, <2>2
<1>5. Taken(s).tokens = IF m.tokens = None THEN 0 ELSE m.tokens
  <2>1. CASE \E i \in DOMAIN s : s[i] = "usage"
    <3>1. m.tokens = Contents(s) /\ m.tokens # None
      BY <1>1, <2>1 DEF Measures, None
    <3>2. QED BY <1>2, <2>1, <3>1
  <2>2. CASE ~\E i \in DOMAIN s : s[i] = "usage"
    BY <1>2, <2>2 DEF Measures
  <2>3. QED BY <2>1, <2>2
<1>6. Taken(s) \in TakenSet
  <2>1. Taken(s).latency \in Nat \ {0} /\ Taken(s).ttft \in Nat /\ Taken(s).tokens \in Nat
    BY <1>1, <1>2, <1>3
  <2>2. QED BY <1>2, <2>1 DEF TakenSet
<1>7. QED BY <1>4, <1>5, <1>6

\* The buffer after a record holds records it held before, and the new one.
LEMMA KeepElements ==
  ASSUME NEW s \in Seq(Record), NEW record \in Record
  PROVE  /\ Keep(s, record) \in Seq(Record)
         /\ \A j \in DOMAIN Keep(s, record) :
              \/ Keep(s, record)[j] = record
              \/ \E i \in DOMAIN s : Keep(s, record)[j] = s[i]
<1> DEFINE all == Append(s, record)
<1>1. /\ all \in Seq(Record) /\ Len(all) = Len(s) + 1 /\ Len(s) \in Nat
      /\ DOMAIN s = 1..Len(s)
      /\ \A j \in 1..(Len(s) + 1) : all[j] = IF j = Len(s) + 1 THEN record ELSE s[j]
  OBVIOUS
<1> HIDE DEF all
<1>2. CASE Len(all) > MaxRecords
  <2>1. Keep(s, record) = Tail(all)
    BY <1>2 DEF Keep, all
  <2>2. /\ Tail(all) \in Seq(Record)
        /\ DOMAIN Tail(all) = 1..Len(s)
        /\ \A j \in 1..Len(s) : Tail(all)[j] = all[j + 1]
    BY <1>1
  <2>3. QED BY <1>1, <2>1, <2>2
<1>3. CASE ~(Len(all) > MaxRecords)
  <2>1. Keep(s, record) = all
    BY <1>3 DEF Keep, all
  <2>2. QED BY <1>1, <2>1
<1>4. QED BY <1>2, <1>3

-----------------------------------------------------------------------------
(***************************************************************************)
(* A step of one request r: it moves on, perhaps to its end, and perhaps   *)
(* is recorded as it ends.                                                 *)
(***************************************************************************)

\* The wrapper's state when only r moves.
LEMMA WrapperMoves ==
  ASSUME WrapperInv, NEW r \in Requests, NEW p \in Phases, Becomes(r, p),
         NEW s \in Seq(EventKinds), sent' = [sent EXCEPT ![r] = s],
         NEW m \in Figures, seen' = [seen EXCEPT ![r] = m],
         p # "dropped" => Measures(m, s)
  PROVE  WrapperInv'
<1>1. /\ phase' \in [Requests -> Phases] /\ sent' \in [Requests -> Seq(EventKinds)]
      /\ seen' \in [Requests -> Figures]
  BY DEF WrapperInv, Becomes
<1>2. ASSUME NEW q \in Requests, phase'[q] # "dropped" PROVE Measures(seen'[q], sent'[q])
  <2>1. CASE q = r
    <3>1. phase'[q] = p /\ seen'[q] = m /\ sent'[q] = s
      BY <2>1 DEF WrapperInv, Becomes
    <3>2. QED BY <1>2, <3>1
  <2>2. CASE q # r
    <3>1. phase'[q] = phase[q] /\ seen'[q] = seen[q] /\ sent'[q] = sent[q]
      BY <2>2 DEF WrapperInv, Becomes
    <3>2. QED BY <1>2, <3>1 DEF WrapperInv
  <2>3. QED BY <2>1, <2>2
<1>3. QED BY <1>1, <1>2 DEF WrapperInv, Measures, ContentsAt, Contents

\* An empty stream measures nothing.
LEMMA NothingMeasured ==
  /\ Nothing \in Figures /\ <<>> \in Seq(EventKinds) /\ Measures(Nothing, <<>>)
<1>1. ContentsAt(<<>>) = {} /\ DOMAIN <<>> = {}
  BY DEF ContentsAt
<1>2. QED BY <1>1 DEF Nothing, Figures, Measures, None

\* The records and results are of requests that are over.
LEMMA MeasuredAreOver ==
  ASSUME FiguresInv
  PROVE  /\ \A j \in DOMAIN ring :
              ring[j].request \in Requests /\ Recorded(phase[ring[j].request])
         /\ bench # NoRun =>
              \A i \in DOMAIN bench.results :
                /\ bench.results[i].request \in Requests
                /\ phase[bench.results[i].request] = "ended"
                /\ Recorded(phase[bench.results[i].request])
<1>1. ASSUME NEW j \in DOMAIN ring
      PROVE  ring[j].request \in Requests /\ Recorded(phase[ring[j].request])
  <2>1. ring[j] \in Record /\ Recorded(phase[ring[j].request])
    BY DEF FiguresInv, RingInv
  <2>2. QED BY <2>1 DEF Record
<1>2. ASSUME bench # NoRun, NEW i \in DOMAIN bench.results
      PROVE  /\ bench.results[i].request \in Requests
             /\ phase[bench.results[i].request] = "ended"
  <2>1. bench.results \in Seq(Result) /\ phase[bench.results[i].request] = "ended"
    BY <1>2 DEF FiguresInv, ResultsInv
  <2>2. bench.results[i] \in Result
    BY <2>1
  <2>3. QED BY <2>1, <2>2 DEF Result
<1>3. QED BY <1>1, <1>2 DEF Recorded

\* r, which is not over yet, ends or goes on without being recorded.
LEMMA GoesOnUnrecorded ==
  ASSUME FiguresInv, NEW r \in Requests, NEW p \in Phases, Becomes(r, p),
         ~Recorded(phase[r]), WrapperInv', UNCHANGED <<ring, benchVars>>
  PROVE  FiguresInv'
<1>1. \A q \in Requests : Recorded(phase[q]) => phase'[q] = phase[q]
  BY DEF FiguresInv, WrapperInv, Becomes
<1>2. RingInv'
  BY <1>1, MeasuredAreOver DEF FiguresInv, RingInv
<1>3. ResultsInv'
  BY <1>1, MeasuredAreOver DEF FiguresInv, ResultsInv, benchVars
<1>4. QED BY <1>2, <1>3 DEF FiguresInv, SameFigures, benchVars

\* r ends and is recorded; no result of the run is of r, as it was not over.
LEMMA EndsRecorded ==
  ASSUME FiguresInv, NEW r \in Requests, NEW p \in Phases, Becomes(r, p),
         ~Recorded(phase[r]), Recorded(p), WrapperInv',
         NEW status \in Nat, NEW error \in BOOLEAN, NEW m \in Figures,
         RecordFor(r, status, error, m), UNCHANGED benchVars
  PROVE  FiguresInv'
<1> DEFINE record == [request |-> r, status |-> status, error |-> error,
                      ttft |-> m.ttft, tokens |-> m.tokens]
<1>1. record \in Record /\ record.request = r /\ ring' = Keep(ring, record)
  BY DEF Record, Figures, RecordFor
<1> HIDE DEF record
<1>2. /\ ring' \in Seq(Record)
      /\ \A j \in DOMAIN ring' : ring'[j] = record \/ \E i \in DOMAIN ring : ring'[j] = ring[i]
  BY <1>1, KeepElements DEF FiguresInv, RingInv
<1>3. /\ \A q \in Requests : Recorded(phase[q]) => phase'[q] = phase[q]
      /\ phase'[r] = p
  BY DEF FiguresInv, WrapperInv, Becomes
<1>4. RingInv'
  <2>1. ASSUME NEW j \in DOMAIN ring' PROVE Recorded(phase'[ring'[j].request])
    BY <1>1, <1>2, <1>3, MeasuredAreOver
  <2>2. QED BY <1>2, <2>1 DEF RingInv
<1>5. bench # NoRun =>
        \A i \in DOMAIN bench.results :
          /\ bench.results[i].request \in Requests /\ bench.results[i].request # r
          /\ phase[bench.results[i].request] = "ended"
  BY MeasuredAreOver
<1>6. ResultsInv'
  BY <1>3, <1>5 DEF FiguresInv, ResultsInv, Recorded, benchVars
<1>7. SameFigures'
  <2>1. SUFFICES ASSUME bench # NoRun, NEW i \in DOMAIN bench.results, NEW j \in DOMAIN ring',
                        ring'[j].request = bench.results[i].request
                 PROVE  LET result == bench.results[i].taken
                        IN  /\ result.ttft = IF ring'[j].ttft = None THEN result.latency
                                             ELSE ring'[j].ttft
                            /\ result.tokens = IF ring'[j].tokens = None THEN 0
                                               ELSE ring'[j].tokens
    BY DEF SameFigures, benchVars
  <2>2. PICK k \in DOMAIN ring : ring'[j] = ring[k]
    BY <1>1, <1>2, <1>5, <2>1
  <2>3. QED BY <2>1, <2>2 DEF FiguresInv, SameFigures
<1>8. QED BY <1>4, <1>6, <1>7 DEF FiguresInv

\* The stream the run reads ends: its record and its result are made of the
\* same events in one step.
LEMMA EndsMeasuredTwice ==
  ASSUME FiguresInv, NEW r \in Requests, Reads(r), StreamEnds(r), EndPrompt
  PROVE  FiguresInv'
<1> DEFINE record == [request |-> r, status |-> 200, error |-> FALSE,
                      ttft |-> seen[r].ttft, tokens |-> seen[r].tokens]
           result == [request |-> r, taken |-> Taken(sent[r])]
<1>1. /\ bench # NoRun /\ bench.at = "read" /\ bench.request = r
      /\ {"at", "request", "results"} \subseteq DOMAIN bench
      /\ bench.results \in Seq(Result)
  BY DEF Reads, FiguresInv, ResultsInv, NoRun
<1>2. /\ ~Recorded(phase[r]) /\ phase[r] # "dropped" /\ phase' = [phase EXCEPT ![r] = "ended"]
      /\ ring' = Keep(ring, record)
  BY DEF StreamEnds, Recorded, RecordFor, Closed, Becomes
<1>3. /\ seen[r] \in Figures /\ sent[r] \in Seq(EventKinds) /\ Measures(seen[r], sent[r])
  BY <1>2 DEF FiguresInv, WrapperInv
<1>4. record \in Record /\ result \in Result
  BY <1>3, TakenAgrees DEF Record, Result, Figures
<1>5. /\ result.request = r /\ record.request = r
      /\ result.taken.ttft = IF record.ttft = None THEN result.taken.latency ELSE record.ttft
      /\ result.taken.tokens = IF record.tokens = None THEN 0 ELSE record.tokens
  BY <1>3, TakenAgrees
<1>6. /\ bench'.results = Append(bench.results, result)
      /\ DOMAIN bench' = DOMAIN bench
      /\ bench'.at \in {"save", "ask"}
  BY <1>1 DEF EndPrompt, Current
<1> HIDE DEF record, result
<1>7. /\ ring' \in Seq(Record)
      /\ \A j \in DOMAIN ring' : ring'[j] = record \/ \E i \in DOMAIN ring : ring'[j] = ring[i]
  BY <1>2, <1>4, KeepElements DEF FiguresInv, RingInv
<1>8. /\ bench'.results \in Seq(Result)
      /\ \A i \in DOMAIN bench'.results :
           bench'.results[i] = result \/ \E k \in DOMAIN bench.results :
                                           bench'.results[i] = bench.results[k]
  BY <1>1, <1>4, <1>6
<1>9. /\ \A q \in Requests : Recorded(phase[q]) => q # r /\ phase'[q] = phase[q]
      /\ phase'[r] = "ended"
  BY <1>2 DEF FiguresInv, WrapperInv
<1>10. WrapperInv'
  <2>1. /\ Becomes(r, "ended") /\ "ended" \in Phases
        /\ sent' = [sent EXCEPT ![r] = <<>>] /\ seen' = [seen EXCEPT ![r] = Nothing]
    BY DEF StreamEnds, Closed, Phases
  <2>2. QED BY <2>1, NothingMeasured, WrapperMoves DEF FiguresInv
<1>11. /\ \A j \in DOMAIN ring : ring[j].request \in Requests /\ Recorded(phase[ring[j].request])
       /\ \A k \in DOMAIN bench.results :
            /\ bench.results[k].request \in Requests
            /\ phase[bench.results[k].request] = "ended"
            /\ Recorded(phase[bench.results[k].request])
  BY <1>1, MeasuredAreOver
<1>12. RingInv'
  <2>1. ASSUME NEW j \in DOMAIN ring' PROVE Recorded(phase'[ring'[j].request])
    BY <1>5, <1>7, <1>9, <1>11 DEF Recorded
  <2>2. QED BY <1>7, <2>1 DEF RingInv
<1>13. ResultsInv'
  <2>1. ASSUME NEW i \in DOMAIN bench'.results
        PROVE  phase'[bench'.results[i].request] = "ended"
    BY <1>5, <1>8, <1>9, <1>11
  <2>2. QED BY <1>1, <1>6, <1>8, <2>1 DEF ResultsInv
<1>14. SameFigures'
  <2>1. SUFFICES ASSUME NEW i \in DOMAIN bench'.results, NEW j \in DOMAIN ring',
                        ring'[j].request = bench'.results[i].request
                 PROVE  LET taken == bench'.results[i].taken
                        IN  /\ taken.ttft = IF ring'[j].ttft = None THEN taken.latency
                                            ELSE ring'[j].ttft
                            /\ taken.tokens = IF ring'[j].tokens = None THEN 0
                                              ELSE ring'[j].tokens
    BY DEF SameFigures
  <2>2. CASE ring'[j] = record
    <3>1. bench'.results[i] = result
      BY <1>5, <1>8, <1>9, <1>11, <2>1, <2>2
    <3>2. QED BY <1>5, <2>2, <3>1
  <2>3. CASE ring'[j] # record
    <3>1. PICK k \in DOMAIN ring : ring'[j] = ring[k]
      BY <1>7, <2>3
    <3>2. PICK l \in DOMAIN bench.results : bench'.results[i] = bench.results[l]
      BY <1>5, <1>8, <1>9, <1>11, <2>1, <3>1
    <3>3. QED BY <1>1, <2>1, <3>1, <3>2 DEF FiguresInv, SameFigures
  <2>4. QED BY <2>2, <2>3
<1>15. QED BY <1>10, <1>12, <1>13, <1>14 DEF FiguresInv

\* A request that closes has nothing left to measure.
LEMMA ClosedMeasured ==
  ASSUME WrapperInv, NEW r \in Requests, NEW p \in Phases, Closed(r, p)
  PROVE  Becomes(r, p) /\ WrapperInv'
BY NothingMeasured, WrapperMoves DEF Closed

\* Neither does a request that moves on before its stream begins.
LEMMA BeforeItsEvents ==
  ASSUME WrapperInv, NEW r \in Requests, NEW p \in Phases, phase[r] # "dropped",
         Becomes(r, p), UNCHANGED <<sent, seen>>
  PROVE  WrapperInv'
<1>1. /\ sent[r] \in Seq(EventKinds) /\ seen[r] \in Figures /\ Measures(seen[r], sent[r])
      /\ sent' = [sent EXCEPT ![r] = sent[r]] /\ seen' = [seen EXCEPT ![r] = seen[r]]
  BY DEF WrapperInv
<1>2. QED BY <1>1, WrapperMoves

\* Serving a request.
LEMMA ServedFigures ==
  ASSUME FiguresInv, NEW r \in Requests, Serve(r), UNCHANGED benchVars
  PROVE  FiguresInv'
<1>1. seen[r] \in Figures /\ sent[r] \in Seq(EventKinds)
      /\ (phase[r] # "dropped" => Measures(seen[r], sent[r]))
  BY DEF FiguresInv, WrapperInv
<1>2. CASE Scrape(r)
  <2>1. ~Recorded(phase[r]) /\ Closed(r, "passed") /\ "passed" \in Phases /\ UNCHANGED ring
    BY <1>2 DEF Scrape, Recorded, Phases
  <2>2. QED BY <2>1, ClosedMeasured, GoesOnUnrecorded DEF FiguresInv
<1>3. CASE Raises(r)
  <2>1. /\ ~Recorded(phase[r]) /\ Closed(r, "answered") /\ "answered" \in Phases
        /\ RecordFor(r, 500, TRUE, Nothing) /\ Recorded("answered")
    BY <1>3 DEF Raises, Recorded, Phases
  <2>2. Becomes(r, "answered") /\ WrapperInv'
    BY <2>1, ClosedMeasured DEF FiguresInv
  <2>3. Nothing \in Figures /\ 500 \in Nat /\ TRUE \in BOOLEAN
    BY NothingMeasured
  <2>4. QED BY <2>1, <2>2, <2>3, EndsRecorded
<1>4. CASE Wrap(r)
  <2>1. /\ ~Recorded(phase[r]) /\ phase[r] # "dropped" /\ Becomes(r, "wrapped")
        /\ "wrapped" \in Phases /\ UNCHANGED <<sent, seen, ring>>
    BY <1>4 DEF Wrap, Recorded, Phases
  <2>2. QED BY <2>1, BeforeItsEvents, GoesOnUnrecorded DEF FiguresInv
<1>5. CASE Respond(r)
  <2>1. /\ ~Recorded(phase[r]) /\ Closed(r, "answered") /\ "answered" \in Phases
        /\ Recorded("answered")
    BY <1>5 DEF Respond, Recorded, Phases
  <2>2. PICK status \in Statuses :
          RecordFor(r, status, status >= 500,
            [ttft |-> None,
             tokens |-> IF kind[r] = "chat" /\ status = 200 THEN MaxContent ELSE None])
    BY <1>5 DEF Respond
  <2> DEFINE m == [ttft |-> None,
                   tokens |-> IF kind[r] = "chat" /\ status = 200 THEN MaxContent ELSE None]
             error == status >= 500
  <2>3. m \in Figures /\ status \in Nat /\ error \in BOOLEAN /\ RecordFor(r, status, error, m)
    BY <2>2, ObservabilityConstants DEF Figures
  <2> HIDE DEF m, error
  <2>4. QED BY <2>1, <2>3, ClosedMeasured, EndsRecorded DEF FiguresInv
<1>6. CASE Feed(r)
  <2>1. PICK e \in EventKinds :
          /\ Follows(e, sent[r], asked[r])
          /\ seen' = [seen EXCEPT ![r] = Measured(seen[r], e, sent[r])]
          /\ sent' = [sent EXCEPT ![r] = Append(sent[r], e)]
    BY <1>6 DEF Feed, EventKinds, FiguresInv, WrapperInv
  <2>2. /\ ~Recorded(phase[r]) /\ phase[r] # "dropped" /\ Becomes(r, "streaming")
        /\ "streaming" \in Phases /\ UNCHANGED ring
    BY <1>6 DEF Feed, Recorded, Phases
  <2>3. /\ Measured(seen[r], e, sent[r]) \in Figures /\ Append(sent[r], e) \in Seq(EventKinds)
        /\ Measures(Measured(seen[r], e, sent[r]), Append(sent[r], e))
    BY <1>1, <2>1, <2>2, MeasuredStep
  <2>4. WrapperInv'
    BY <2>1, <2>2, <2>3, WrapperMoves DEF FiguresInv
  <2>5. QED BY <2>2, <2>4, GoesOnUnrecorded
<1>7. CASE IteratorRaises(r)
  <2>1. /\ ~Recorded(phase[r]) /\ Closed(r, "cut") /\ "cut" \in Phases
        /\ RecordFor(r, 500, TRUE, seen[r]) /\ Recorded("cut")
    BY <1>7 DEF IteratorRaises, Recorded, Phases
  <2>2. Becomes(r, "cut") /\ WrapperInv'
    BY <2>1, ClosedMeasured DEF FiguresInv
  <2>3. 500 \in Nat /\ TRUE \in BOOLEAN
    OBVIOUS
  <2>4. QED BY <1>1, <2>1, <2>2, <2>3, EndsRecorded
<1>8. CASE CloseDropped(r)
  <2>1. /\ ~Recorded(phase[r]) /\ Closed(r, "closed") /\ "closed" \in Phases
        /\ RecordFor(r, 200, FALSE, seen[r]) /\ Recorded("closed")
    BY <1>8 DEF CloseDropped, Recorded, Phases
  <2>2. Becomes(r, "closed") /\ WrapperInv'
    BY <2>1, ClosedMeasured DEF FiguresInv
  <2>3. 200 \in Nat /\ FALSE \in BOOLEAN
    OBVIOUS
  <2>4. QED BY <1>1, <2>1, <2>2, <2>3, EndsRecorded
<1>9. QED BY <1>2, <1>3, <1>4, <1>5, <1>6, <1>7, <1>8 DEF Serve

\* A step of the runner or its surroundings touches no stream: what it
\* leaves of the run's results are those there were, or none.
LEMMA RunnerFigures ==
  ASSUME FiguresInv, UNCHANGED <<phase, sent, seen, ring>>,
         \/ bench' = NoRun
         \/ /\ bench' # NoRun /\ {"at", "request", "results"} \subseteq DOMAIN bench'
            /\ bench'.at \notin {"off", "read"}
            /\ \/ bench'.results = <<>>
               \/ bench # NoRun /\ bench'.results = bench.results
  PROVE  FiguresInv'
<1>1. WrapperInv' /\ RingInv'
  <2>1. phase' = phase /\ sent' = sent /\ seen' = seen /\ ring' = ring
    OBVIOUS
  <2>2. \A r \in Requests : phase'[r] # "dropped" => Measures(seen'[r], sent'[r])
    BY <2>1 DEF FiguresInv, WrapperInv
  <2>3. WrapperInv'
    BY <2>1, <2>2 DEF FiguresInv, WrapperInv
  <2>4. RingInv'
    BY <2>1 DEF FiguresInv, RingInv, Recorded
  <2>5. QED BY <2>3, <2>4
<1>2. bench' # NoRun =>
        /\ bench'.results \in Seq(Result)
        /\ \A i \in DOMAIN bench'.results :
             /\ bench # NoRun /\ i \in DOMAIN bench.results
             /\ bench'.results[i] = bench.results[i]
  <2>1. CASE bench' # NoRun /\ bench'.results = <<>>
    BY <2>1
  <2>2. CASE bench # NoRun /\ bench'.results = bench.results
    BY <2>2 DEF FiguresInv, ResultsInv
  <2>3. QED BY <2>1, <2>2
<1>3. ResultsInv'
  BY <1>2 DEF FiguresInv, ResultsInv
<1>4. SameFigures'
  BY <1>2 DEF FiguresInv, SameFigures
<1>5. QED BY <1>1, <1>3, <1>4 DEF FiguresInv

\* Every step keeps the figures equal.
LEMMA FiguresStep == FiguresInv /\ [MeasurementNext]_measurementVars => FiguresInv'
<1> SUFFICES ASSUME FiguresInv, [MeasurementNext]_measurementVars PROVE FiguresInv'
  OBVIOUS
<1>1. ASSUME NEW r \in Requests, Dispatch(r), UNCHANGED benchVars PROVE FiguresInv'
  <2>1. /\ ~Recorded(phase[r]) /\ phase[r] # "dropped" /\ Becomes(r, "handled")
        /\ "handled" \in Phases /\ UNCHANGED <<sent, seen, ring>>
    BY <1>1 DEF Dispatch, Recorded, Phases
  <2>2. QED BY <1>1, <2>1, BeforeItsEvents, GoesOnUnrecorded DEF FiguresInv
<1>2. ASSUME NEW r \in Requests, StreamOver(r) PROVE FiguresInv'
  <2>1. CASE Reads(r)
    BY <1>2, <2>1, EndsMeasuredTwice DEF StreamOver
  <2>2. CASE ~Reads(r)
    <3>1. /\ ~Recorded(phase[r]) /\ Closed(r, "ended") /\ "ended" \in Phases
          /\ RecordFor(r, 200, FALSE, seen[r]) /\ Recorded("ended")
          /\ seen[r] \in Figures /\ UNCHANGED benchVars
      <4>1. StreamEnds(r) /\ UNCHANGED benchVars
        BY <1>2, <2>2 DEF StreamOver
      <4>2. phase[r] \in {"wrapped", "streaming"} /\ Closed(r, "ended") /\ RecordFor(r, 200, FALSE, seen[r])
        BY <4>1 DEF StreamEnds
      <4>3. seen[r] \in Figures
        BY DEF FiguresInv, WrapperInv
      <4>4. "ended" \in Phases /\ Recorded("ended") /\ ~Recorded(phase[r])
        BY <4>2 DEF Phases, Recorded
      <4>5. QED BY <4>1, <4>2, <4>3, <4>4
    <3>2. WrapperInv
      BY DEF FiguresInv
    <3>3. Becomes(r, "ended") /\ WrapperInv'
      BY <3>1, <3>2, ClosedMeasured
    <3> DEFINE status == 200
               p == "ended"
               m == seen[r]
    <3>4. status \in Nat /\ FALSE \in BOOLEAN /\ m \in Figures /\ p \in Phases /\ Recorded(p)
      BY <3>1
    <3>5. Becomes(r, p) /\ RecordFor(r, status, FALSE, m)
      BY <3>1, <3>3
    <3> HIDE DEF status, p, m
    <3>6. QED BY <3>1, <3>3, <3>4, <3>5, EndsRecorded
  <2>3. QED BY <2>1, <2>2
<1>3. ASSUME NEW r \in Requests, Drop(r), UNCHANGED benchVars PROVE FiguresInv'
  <2>1. ~Recorded(phase[r]) /\ UNCHANGED ring
    BY <1>3 DEF Drop, Recorded
  <2>2. CASE phase[r] = "wrapped"
    <3>1. Closed(r, "lost") /\ "lost" \in Phases
      BY <1>3, <2>2 DEF Drop, Phases
    <3>2. QED BY <1>3, <2>1, <3>1, ClosedMeasured, GoesOnUnrecorded DEF FiguresInv
  <2>3. CASE phase[r] # "wrapped"
    <3>1. /\ Becomes(r, "dropped") /\ "dropped" \in Phases
          /\ sent' = [sent EXCEPT ![r] = <<>>] /\ seen' = [seen EXCEPT ![r] = seen[r]]
          /\ seen[r] \in Figures
      BY <1>3, <2>3 DEF Drop, Phases, FiguresInv, WrapperInv
    <3>2. WrapperInv'
      BY <3>1, NothingMeasured, WrapperMoves DEF FiguresInv
    <3>3. QED BY <1>3, <2>1, <3>1, <3>2, GoesOnUnrecorded
  <2>4. QED BY <2>2, <2>3
<1>4. CASE Ask
  <2>1. PICK r \in Requests :
          /\ phase[r] = "idle" /\ Becomes(r, "handled") /\ UNCHANGED <<sent, seen, ring>>
          /\ bench' = [bench EXCEPT !.at = "read", !.request = r]
    BY <1>4 DEF Ask, IsNext
  <2>2. /\ bench # NoRun /\ {"at", "request", "results"} \subseteq DOMAIN bench
    BY <1>4 DEF Ask, NoRun, FiguresInv, ResultsInv
  <2>3. /\ bench'.at = "read" /\ bench'.request = r /\ bench'.results = bench.results
        /\ DOMAIN bench' = DOMAIN bench /\ bench' # NoRun
    BY <2>1, <2>2 DEF NoRun
  <2>4. WrapperInv'
    BY <2>1, BeforeItsEvents DEF FiguresInv, Phases
  <2>5. \A q \in Requests : Recorded(phase[q]) => phase'[q] = phase[q]
    BY <2>1 DEF FiguresInv, WrapperInv, Becomes, Recorded
  <2>6. RingInv'
    BY <2>1, <2>5, MeasuredAreOver DEF FiguresInv, RingInv
  <2>7. ResultsInv'
    BY <2>2, <2>3, <2>5, MeasuredAreOver DEF FiguresInv, ResultsInv
  <2>8. SameFigures'
    BY <2>1, <2>2, <2>3 DEF FiguresInv, SameFigures
  <2>9. QED BY <2>4, <2>6, <2>7, <2>8 DEF FiguresInv
<1>5. CASE BeginSave
  <2>1. bench # NoRun /\ {"at", "request", "results"} \subseteq DOMAIN bench
        /\ bench' = [bench EXCEPT !.at = "saving"] /\ UNCHANGED observabilityVars
    BY <1>5 DEF BeginSave, NoRun, FiguresInv, ResultsInv
  <2>2. /\ bench'.at = "saving" /\ bench'.results = bench.results /\ bench' # NoRun
        /\ DOMAIN bench' = DOMAIN bench
    BY <2>1 DEF NoRun
  <2>3. QED BY <2>1, <2>2, RunnerFigures DEF observabilityVars
<1>6. CASE EndSave \/ RunFails
  BY <1>6, RunnerFigures DEF EndSave, RunFails, observabilityVars
<1>7. ASSUME NEW m \in Models, StartRun(m) PROVE FiguresInv'
  <2>1. /\ bench' # NoRun /\ bench'.at = "ask" /\ bench'.results = <<>>
        /\ {"at", "request", "results"} \subseteq DOMAIN bench' /\ UNCHANGED observabilityVars
    BY <1>7 DEF StartRun, NoRun
  <2>2. QED BY <2>1, RunnerFigures DEF observabilityVars
<1>8. CASE EditPrompts \/ WriteVersion \/ UNCHANGED measurementVars
  <2>1. UNCHANGED <<phase, sent, seen, ring, bench>>
    BY <1>8 DEF EditPrompts, WriteVersion, measurementVars, observabilityVars, benchVars
  <2>2. WrapperInv' /\ RingInv'
    BY <2>1 DEF FiguresInv, WrapperInv, RingInv, Measures, ContentsAt, Contents
  <2>3. ResultsInv' /\ SameFigures'
    BY <2>1 DEF FiguresInv, ResultsInv, SameFigures
  <2>4. QED BY <2>2, <2>3 DEF FiguresInv
<1>9. QED
  BY <1>1, <1>2, <1>3, <1>4, <1>5, <1>6, <1>7, <1>8, ServedFigures
     DEF MeasurementNext, ServerStep, ClientLeaves, RunnerStep

\* The invariant holds of every behaviour.
LEMMA FiguresInvariant == MeasurementSpec => []FiguresInv
<1>1. MeasurementInit => FiguresInv
  <2> SUFFICES ASSUME MeasurementInit PROVE FiguresInv
    OBVIOUS
  <2>1. WrapperInv
    BY NothingMeasured DEF MeasurementInit, ObservabilityInit, WrapperInv, Phases
  <2>2. ring = <<>> /\ bench = NoRun
    BY DEF MeasurementInit, ObservabilityInit
  <2>3. QED BY <2>1, <2>2 DEF FiguresInv, RingInv, ResultsInv, SameFigures
<1>2. QED BY <1>1, FiguresStep, PTL DEF MeasurementSpec

\* The server's record of a stream and the runner's own measurement of it
\* agree on TTFT and tokens, for any number of requests, any streams and
\* whatever else the server does meanwhile.
THEOREM RecordsAndResultsAgree == MeasurementSpec => []SameFigures
<1>1. FiguresInv => SameFigures
  BY DEF FiguresInv
<1>2. QED BY <1>1, FiguresInvariant, PTL

-----------------------------------------------------------------------------
(***************************************************************************)
(* The advisor's scores: shares of the largest figures in the report, so   *)
(* that a model no worse in any figure has no smaller score.               *)
(***************************************************************************)
LEMMA DivisionBounds ==
  ASSUME NEW a \in Nat, NEW m \in Nat \ {0}
  PROVE  a \div m \in Nat /\ m * (a \div m) <= a /\ a < m * (a \div m) + m
BY SMT

\* Numbers are ordered as their multiples are, give or take a remainder.
LEMMA MultiplesOrdered ==
  ASSUME NEW q \in Nat, NEW p \in Nat, NEW m \in Nat \ {0}, m * q < m * p + m
  PROVE  q <= p
<1>1. q * m < (p + 1) * m
  OBVIOUS
<1>2. ASSUME q > p PROVE FALSE
  <2>1. (q - (p + 1)) * m >= 0
    BY <1>2
  <2>2. QED BY <1>1, <2>1
<1>3. QED BY <1>2

\* Rounding keeps quotients in order.
LEMMA RoundingGrows ==
  ASSUME NEW a \in Nat, NEW c \in Nat, NEW b \in Nat \ {0}, a <= c
  PROVE  RoundedDiv(a, b) \in Nat /\ RoundedDiv(c, b) \in Nat
         /\ RoundedDiv(a, b) <= RoundedDiv(c, b)
<1> DEFINE x == 2 * a + b
           y == 2 * c + b
           m == 2 * b
<1>1. x \in Nat /\ y \in Nat /\ m \in Nat \ {0} /\ x <= y
  OBVIOUS
<1>2. RoundedDiv(a, b) = x \div m /\ RoundedDiv(c, b) = y \div m
  BY DEF RoundedDiv
<1> HIDE DEF x, y, m
<1> DEFINE q == x \div m
           p == y \div m
<1>3. q \in Nat /\ m * q <= x /\ p \in Nat /\ m * p <= y /\ y < m * p + m
  BY <1>1, DivisionBounds
<1> HIDE DEF q, p
<1>4. m * q < m * p + m
  BY <1>1, <1>3
<1>5. q <= p
  BY <1>1, <1>3, <1>4, MultiplesOrdered
<1>6. QED BY <1>2, <1>3, <1>5 DEF q, p

\* A product grows with its factors.
LEMMA ProductGrows ==
  ASSUME NEW x \in Nat, NEW y \in Nat, NEW m \in Nat, x <= y
  PROVE  x * m \in Nat /\ y * m \in Nat /\ x * m <= y * m
<1>1. (y - x) * m >= 0
  OBVIOUS
<1>2. QED BY <1>1

\* What a score is the quotient of, for a throughput x, a TTFT s and p memory left.
Points(x, s, p, fastest, slowest, memory) ==
  10000 * (4 * x * slowest * memory + 3 * (slowest - s) * fastest * memory
             + 2 * p * fastest * slowest)

LEMMA PointsGrow ==
  ASSUME NEW fastest \in Nat, NEW slowest \in Nat, NEW memory \in Nat,
         NEW x \in Nat, NEW y \in Nat, y <= x,
         NEW s \in Nat, NEW t \in Nat, s <= t, t <= slowest,
         NEW p \in Nat, NEW q \in Nat, q <= p
  PROVE  /\ Points(x, s, p, fastest, slowest, memory) \in Nat
         /\ Points(y, t, q, fastest, slowest, memory) \in Nat
         /\ Points(y, t, q, fastest, slowest, memory) <= Points(x, s, p, fastest, slowest, memory)
<1> DEFINE sp(v) == 4 * v * slowest * memory
           ti(v) == 3 * (slowest - v) * fastest * memory
           ro(v) == 2 * v * fastest * slowest
<1>1. sp(x) \in Nat /\ sp(y) \in Nat /\ sp(y) <= sp(x)
  <2>1. 4 * y * slowest <= 4 * x * slowest /\ 4 * y * slowest \in Nat /\ 4 * x * slowest \in Nat
    <3>1. 4 * y \in Nat /\ 4 * x \in Nat /\ 4 * y <= 4 * x
      OBVIOUS
    <3>2. QED BY <3>1, ProductGrows
  <2>2. QED BY <2>1, ProductGrows
<1>2. ti(s) \in Nat /\ ti(t) \in Nat /\ ti(t) <= ti(s)
  <2>1. 3 * (slowest - s) \in Nat /\ 3 * (slowest - t) \in Nat
        /\ 3 * (slowest - t) <= 3 * (slowest - s)
    OBVIOUS
  <2>2. /\ 3 * (slowest - s) * fastest \in Nat /\ 3 * (slowest - t) * fastest \in Nat
        /\ 3 * (slowest - t) * fastest <= 3 * (slowest - s) * fastest
    BY <2>1, ProductGrows
  <2>3. QED BY <2>2, ProductGrows
<1>3. ro(p) \in Nat /\ ro(q) \in Nat /\ ro(q) <= ro(p)
  <2>1. 2 * p \in Nat /\ 2 * q \in Nat /\ 2 * q <= 2 * p
    OBVIOUS
  <2>2. 2 * p * fastest \in Nat /\ 2 * q * fastest \in Nat /\ 2 * q * fastest <= 2 * p * fastest
    BY <2>1, ProductGrows
  <2>3. QED BY <2>2, ProductGrows
<1>4. /\ Points(x, s, p, fastest, slowest, memory) = 10000 * (sp(x) + ti(s) + ro(p))
      /\ Points(y, t, q, fastest, slowest, memory) = 10000 * (sp(y) + ti(t) + ro(q))
  BY DEF Points
<1> HIDE DEF sp, ti, ro
<1>5. QED BY <1>1, <1>2, <1>3, <1>4

\* The maximum of a finite set of figures is one of them and bounds them.
LEMMA MaxBounds ==
  ASSUME NEW S \in SUBSET Nat, IsFiniteSet(S), S # {}
  PROVE  Max(S) \in Nat /\ \A x \in S : x <= Max(S)
<1>1. \E x \in S : \A y \in S : x >= y
  BY FiniteMaximum
<1>2. Max(S) \in S /\ \A y \in S : Max(S) >= y
  BY <1>1 DEF Max
<1>3. QED BY <1>2

\* What a result file states of a run.
Rankable(f) ==
  /\ {"whole", "throughput", "ttft", "vram"} \subseteq DOMAIN f
  /\ f.throughput \in Nat /\ f.ttft \in Nat /\ f.vram \in Nat

RankInv == IsFiniteSet(files) /\ \A f \in files : Rankable(f)

\* The figures of a run are natural numbers.
LEMMA RunFiguresNatural ==
  ASSUME NEW results \in Seq(Result)
  PROVE  Throughput(results) \in Nat /\ WarmTtft(results) \in Nat
<1>1. /\ DOMAIN results = 1..Len(results) /\ Len(results) \in Nat
      /\ \A i \in DOMAIN results : results[i] \in Result
  OBVIOUS
<1>2. ASSUME NEW i \in DOMAIN results
      PROVE  /\ results[i].taken.latency \in Nat \ {0}
             /\ results[i].taken.tokens \in Nat /\ results[i].taken.ttft \in Nat
  <2>1. results[i] \in Result
    BY <1>1
  <2>2. results[i].taken \in TakenSet
    BY <2>1 DEF Result
  <2>3. QED BY <2>2 DEF TakenSet
<1>3. IsFiniteSet(DOMAIN results) /\ IsFiniteSet(2..Len(results))
  BY <1>1, FS_Interval
<1>4. Throughput(results) \in Nat
  <2> DEFINE f == [i \in DOMAIN results |->
                     (60 * results[i].taken.tokens) \div results[i].taken.latency]
  <2>1. ASSUME NEW i \in DOMAIN results PROVE f[i] \in Nat
    BY <1>2, DivisionBounds
  <2>2. DOMAIN f = DOMAIN results
    OBVIOUS
  <2>3. Throughput(results) = SumFunctionOnSet(f, DOMAIN results)
    BY <2>2 DEF Throughput, SumFunction
  <2> HIDE DEF f
  <2>4. QED BY <1>3, <2>1, <2>3, SumIsNatural
<1>5. WarmTtft(results) \in Nat
  <2> DEFINE f == [i \in DOMAIN results |-> results[i].taken.ttft]
             warm == IF Len(results) > 1 THEN 2..Len(results) ELSE DOMAIN results
  <2>1. WarmTtft(results) = SumFunctionOnSet(f, warm)
    BY DEF WarmTtft
  <2>2. IsFiniteSet(warm) /\ warm \subseteq DOMAIN results
    BY <1>1, <1>3
  <2>3. \A i \in warm : f[i] \in Nat
    BY <1>2, <2>2
  <2> HIDE DEF f, warm
  <2>4. QED BY <2>1, <2>2, <2>3, SumIsNatural
<1>6. QED BY <1>4, <1>5

\* Every step keeps the files rankable.
LEMMA RankStep ==
  FiguresInv /\ RankInv /\ [MeasurementNext]_measurementVars => RankInv'
<1> SUFFICES ASSUME FiguresInv, RankInv, [MeasurementNext]_measurementVars PROVE RankInv'
  OBVIOUS
<1>1. CASE UNCHANGED files
  BY <1>1 DEF RankInv
<1>2. CASE BeginSave
  <2>1. bench # NoRun /\ bench.results \in Seq(Result)
    BY <1>2 DEF BeginSave, FiguresInv, ResultsInv, NoRun
  <2>2. Throughput(bench.results) \in Nat /\ WarmTtft(bench.results) \in Nat
    BY <2>1, RunFiguresNatural
  <2> DEFINE begun(vram) ==
        [model |-> bench.model, suite |-> bench.suite, time |-> runs, whole |-> FALSE,
         hardware |-> "this", throughput |-> Throughput(bench.results),
         ttft |-> WarmTtft(bench.results), vram |-> vram]
  <2>3. PICK vram \in VramLevels : files' = files \cup {begun(vram)}
    BY <1>2, Zenon DEF BeginSave
  <2>4. vram \in Nat
    BY BenchmarkConstants
  <2>5. Rankable(begun(vram))
    BY <2>2, <2>4 DEF Rankable
  <2> HIDE DEF begun
  <2>6. IsFiniteSet(files')
    BY <2>3, FS_AddElement DEF RankInv
  <2>7. QED BY <2>3, <2>5, <2>6 DEF RankInv
<1>3. CASE EndSave
  <2> DEFINE saved == [f \in files |-> IF f.time = runs THEN [f EXCEPT !.whole = TRUE] ELSE f]
  <2>1. files' = {saved[f] : f \in files}
    BY <1>3 DEF EndSave
  <2>2. \A f \in files : Rankable(saved[f])
    BY DEF RankInv, Rankable
  <2> HIDE DEF saved
  <2>3. IsFiniteSet(files')
    BY <2>1, FiniteImage DEF RankInv
  <2>4. QED BY <2>1, <2>2, <2>3 DEF RankInv
<1>4. QED
  BY <1>1, <1>2, <1>3
     DEF MeasurementNext, ServerStep, StreamOver, EndPrompt, ClientLeaves, RunnerStep,
         RunFails, StartRun, EditPrompts, WriteVersion, Ask, benchVars, measurementVars

\* In a report of rankable results, a viable one that is no worse than another
\* in any figure has no smaller score, with a GPU and without.
LEMMA ScoresFollowFigures ==
  ASSUME NEW E, IsFiniteSet(E), \A h \in E : Rankable(h), NEW total \in Nat,
         NEW f \in E, NEW g \in E, Viable(f, total),
         f.throughput >= g.throughput, f.ttft <= g.ttft, f.vram <= g.vram
  PROVE  /\ Score(f, E, total) \in Nat /\ Score(g, E, total) \in Nat
         /\ Score(g, E, total) <= Score(f, E, total)
<1> DEFINE speeds  == {h.throughput : h \in E}
           times   == {h.ttft : h \in E}
           fastest == Max({1} \cup speeds)
           slowest == Max({1} \cup times)
           memory  == IF total = 0 THEN 1 ELSE total
           room(h) == IF total = 0 THEN 1 ELSE total - (h.vram + VramBuffer)
           whole   == 9 * fastest * slowest * memory
           points(h) == Points(h.throughput, h.ttft, room(h), fastest, slowest, memory)
<1>1. speeds \in SUBSET Nat /\ times \in SUBSET Nat
  BY DEF Rankable
<1>2. IsFiniteSet({1} \cup speeds) /\ IsFiniteSet({1} \cup times)
  <2> DEFINE throughputs == [h \in E |-> h.throughput]
             ttfts == [h \in E |-> h.ttft]
  <2>1. speeds = {throughputs[h] : h \in E} /\ times = {ttfts[h] : h \in E}
    OBVIOUS
  <2> HIDE DEF speeds, times, throughputs, ttfts
  <2>2. IsFiniteSet(speeds) /\ IsFiniteSet(times)
    BY <2>1, FiniteImage
  <2>3. QED BY <2>2, FS_Singleton, FS_Union
<1>3. g.ttft \in times
  OBVIOUS
<1>4. fastest \in Nat /\ fastest >= 1 /\ slowest \in Nat /\ slowest >= 1 /\ g.ttft <= slowest
  <2> HIDE DEF speeds, times
  <2>1. {1} \cup speeds \in SUBSET Nat /\ {1} \cup times \in SUBSET Nat
    BY <1>1
  <2> DEFINE one == {1} \cup speeds
             two == {1} \cup times
  <2>2. one # {} /\ two # {} /\ 1 \in one /\ 1 \in two /\ g.ttft \in two
    BY <1>3
  <2> HIDE DEF one, two
  <2>3. /\ Max(one) \in Nat /\ \A x \in one : x <= Max(one)
        /\ Max(two) \in Nat /\ \A x \in two : x <= Max(two)
    BY <1>2, <2>1, <2>2, MaxBounds DEF one, two
  <2>4. QED BY <2>2, <2>3 DEF one, two
<1>5. /\ f.throughput \in Nat /\ g.throughput \in Nat
      /\ f.ttft \in Nat /\ g.ttft \in Nat /\ f.vram \in Nat /\ g.vram \in Nat
  BY DEF Rankable
<1>6. memory \in Nat /\ memory >= 1 /\ room(f) \in Nat
      /\ (Viable(g, total) => room(g) \in Nat /\ room(g) <= room(f))
  BY <1>5 DEF Viable, VramBuffer
<1>7. whole \in Nat \ {0}
  <2> HIDE DEF fastest, slowest, memory
  <2>1. 9 * fastest * slowest \in Nat /\ 9 * fastest * slowest >= 1
    <3>1. (9 * fastest - 1) * slowest >= 0
      BY <1>4
    <3>2. 9 * fastest * slowest = (9 * fastest - 1) * slowest + slowest
      BY <1>4
    <3>3. QED BY <1>4, <3>1, <3>2
  <2> DEFINE nine == 9 * fastest * slowest
  <2>2. whole = nine * memory
    OBVIOUS
  <2> HIDE DEF nine, whole
  <2>3. nine \in Nat /\ nine >= 1 /\ memory \in Nat /\ memory >= 1
    BY <1>6, <2>1 DEF nine
  <2>4. 1 * memory <= nine * memory /\ nine * memory \in Nat
    BY <2>3, ProductGrows
  <2>5. QED BY <2>2, <2>3, <2>4
<1>8. /\ Score(f, E, total) = RoundedDiv(points(f), whole)
      /\ Score(g, E, total) = IF ~Viable(g, total) THEN 0 ELSE RoundedDiv(points(g), whole)
  <2>1. ASSUME NEW h \in E
        PROVE  Score(h, E, total) = IF ~Viable(h, total) THEN 0 ELSE RoundedDiv(points(h), whole)
    BY DEF Score, Points
  <2> HIDE DEF points, whole
  <2>2. QED BY <2>1
<1> HIDE DEF fastest, slowest, memory, room, whole
<1>9. points(f) \in Nat
  <2> DEFINE x == f.throughput
             s == f.ttft
             p == room(f)
  <2>1. x \in Nat /\ s \in Nat /\ p \in Nat /\ x <= x /\ s <= s /\ p <= p /\ s <= slowest
    BY <1>4, <1>5, <1>6
  <2>2. points(f) = Points(x, s, p, fastest, slowest, memory)
    OBVIOUS
  <2> HIDE DEF x, s, p, points
  <2>3. Points(x, s, p, fastest, slowest, memory) \in Nat
    BY <1>4, <1>6, <2>1, PointsGrow
  <2>4. QED BY <2>2, <2>3
<1>10. ASSUME Viable(g, total) PROVE points(g) \in Nat /\ points(g) <= points(f)
  BY <1>4, <1>5, <1>6, <1>10, PointsGrow
<1> HIDE DEF points
<1>11. CASE Viable(g, total)
  BY <1>7, <1>8, <1>9, <1>10, <1>11, RoundingGrows
<1>12. CASE ~Viable(g, total)
  BY <1>7, <1>8, <1>9, <1>12, RoundingGrows
<1>13. QED BY <1>11, <1>12

\* A viable model that is at least as good as another in every figure is listed
\* above it, or below it only because their rounded scores tie and the store
\* lists the other first: whatever results the directory has and whatever is
\* in the report beside them, with a GPU and without (advisor.py:122-197).
THEOREM AdvisorRespectsDominance == MeasurementSpec => []DominanceRespected
<1>1. MeasurementInit => RankInv
  <2>1. ASSUME NEW f \in ResultFile PROVE Rankable(f)
    BY DEF ResultFile, Rankable
  <2>2. QED BY <2>1, BenchmarkConstants DEF MeasurementInit, RankInv
<1>2. RankInv => DominanceRespected
  <2>1. SUFFICES ASSUME RankInv, NEW s \in Suites, NEW total \in {0, TotalVram},
                        NEW f \in Eligible(Selection(s)), NEW g \in Eligible(Selection(s)),
                        Viable(f, total), f.throughput >= g.throughput,
                        f.ttft <= g.ttft, f.vram <= g.vram,
                        RankedAbove(g, f, Eligible(Selection(s)), total)
                 PROVE  /\ Score(g, Eligible(Selection(s)), total)
                             = Score(f, Eligible(Selection(s)), total)
                        /\ g.model < f.model
    BY DEF DominanceRespected
  <2> DEFINE E == Eligible(Selection(s))
  <2>2. E \subseteq files
    BY DEF Eligible, Selection, LatestPerModel, AllResults
  <2>3. IsFiniteSet(E) /\ \A h \in E : Rankable(h)
    BY <2>1, <2>2, FS_Subset DEF RankInv
  <2>4. total \in Nat
    BY BenchmarkConstants
  <2> HIDE DEF E
  <2>5. /\ Score(g, E, total) <= Score(f, E, total)
        /\ Score(f, E, total) \in Nat /\ Score(g, E, total) \in Nat
    BY <2>1, <2>3, <2>4, ScoresFollowFigures DEF E
  <2>6. \/ Score(g, E, total) > Score(f, E, total)
        \/ Score(g, E, total) = Score(f, E, total) /\ g.model < f.model
    BY <2>1 DEF RankedAbove, E
  <2>7. QED BY <2>5, <2>6 DEF E
<1>3. QED BY <1>1, <1>2, FiguresInvariant, RankStep, PTL DEF MeasurementSpec
=============================================================================
