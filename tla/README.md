# Inference-X in TLA+

A formal model of Inference-X, a self-hosted OpenAI-compatible server over one
vLLM engine per process, with its benchmark tools and its terminal playground.
Modules are translated from the source (paths below are relative to
`src/src/inference_x/` unless they start with `src/`), checked with TLC on small
instances, and its safety properties are proved with TLAPS for every value of
the constants.

## 1. The system

| Component | State | Operations | Interacts with |
|---|---|---|---|
| Admission gates 2, 3 (`routing/admission.py:349-440`) | none of their own; they read the reserved-token counter | decide, clamp, refuse, warn | called by `admit()` after the sequence slot |
| `AdmissionController` (`routing/admission.py`) | a `BoundedSemaphore` per model, a reserved-token counter, a batch-waiter counter | `admit()`, `release()` | `ChatService`; asyncio's semaphore and timers |
| `ChatService` (`services/chat_service.py`) | the frames of its coroutines and generators | `complete()`, `stream_response()` | router, admission, engine; Starlette consumes its SSE events |
| `VLLMEngine` (`engines/vllm_engine.py`) | vLLM's `AsyncLLM`, health flag | construction with its checks, `generate()`, `generate_stream()`, `shutdown()` | vLLM's engine process |
| Lifespan and singletons (`api/deps.py`, `api/main.py`) | four `lru_cache` entries: registry, pool, router, admission controller | `initialize_app()`, `get_chat_service()`, `shutdown_app()` | request threads, the engine |
| Registry, router, variant selector (`services/model_service.py`, `routing/`) | immutable tables; the router's default model, fixed when it is built | resolve a name or a family to an entry | VRAM probes and tiers |
| VRAM tiers and pool sizing (`utils/`) | a probe cached for 2 s | resolve the tier, estimate weights, size the pool, check the fit | other processes on the GPU; engine construction |
| Observability (`observability/`, `services/metrics_service.py`) | ring buffer of records | record a response, wrap a stream, summarise | every response |
| Benchmarks (`benchmarks/`, `src/scripts/benchmark.py`) | JSON result files, the suite file | run, save, load, latest per model, score, rank | the HTTP API as a client; people who edit the suite |
| Playground: server control (`src/playground/server_control.py`) | server subprocesses, whether they are the playground's | attach, stop, start, wait for health, clean up | servers of others at the same ports, log files |
| Playground: log feed (`src/playground/log_feed.py`) | offset and buffer of a tail | poll, flush | log files being written and truncated |
| Playground: compare (`src/playground/app.py`) | worker, `in_flight`, panels, stream tasks | submit, gather, quit | one event loop with the UI |
| Sequential comparison, chat (`src/playground/client.py`, `chat.py`) | a history, the answers of one model | wait for a restart, compare, chat | a server that someone restarts |
| Settings, schemas, errors, scripts | configuration | parsing, wording | all of the above |

What is hard here:

* **Hand-over in the semaphore.** A permit leaves the semaphore when a waiter's
  future gets its result; the waiter resumes turns later. A time-out or a
  cancellation may fall in between.
* **A chain of three gates.** The slot is taken first; the later gates may still
  refuse, and must then give it back. KV reservations are checked and committed
  against a counter every request shares.
* **Streams end in many ways**: done, engine failure, stall and time-out, client
  gone during an await, at a yield, or before the first step. Each must release
  the reservation once and be recorded once.
* **Threads beside the event loop.** FastAPI resolves synchronous dependencies
  in a thread pool, and `lru_cache` does not serialise concurrent misses.
* **A GPU that others use.** Router, pool and engine each probe the free memory;
  it may change between any two of them, and a cached probe may be stale.
  Startup may fail at each of its steps, and shutdown swallows what the engine's
  own shutdown raises.
* **Files that others read.** Result files are written in place and a crash
  leaves half of one; the suite is edited while results of it exist; the logs of
  servers are truncated while the servers before still write them, and are read
  at whatever byte a poll ends.
* **A UI that can be quit at every await**, beside servers that it has started
  and servers that it has not, which fail, die and come up by themselves, and may
  outlive the sleep that is meant to let them stop.
* **A gather without `return_exceptions`**: when one stream fails, the other goes on.
* **Numeric edges**: ceilings, the minimum clamp, the scaled budget, zero waits,
  percentiles of small samples, weights near the cap.

What makes each component correct is stated by its properties module; the
hazards, each with its line and the properties that cover it, are listed in
`PROJECT.json`.

## 2. Modules

| Module | Models | Correspondence |
|---|---|---|
| `AdmissionGates` | gates 2 and 3 | one operator per quantity the code computes; `Verdict` keeps the order of the tests |
| `AdmissionContract` | - | what the gates promise, without following their steps |
| `AdmissionPressure` | one request while others reserve tokens | `request`: the request examined; `reservedNow`: the tracker's sum, which others raise by any number at once |
| `Admission` | `AdmissionController` | `phase`, `reserved`: the caller's frame; `value`, `waiters`, `future`: the fields of `BoundedSemaphore`; `wake`: the exception a suspended task will resume with; `batchWaiters`, `tracker`: the two counters |
| `AdmissionProperties` | - | type invariant, safety and liveness of the gate |
| `SequenceSlots` | - | abstract specification: bounded slots in arrival order; `queue` gives for each client queued those that queued before it |
| `AdmissionRefinement` | - | the mapping: a slot is held from the moment its permit leaves the semaphore; the queue is the deque less the futures that are done |
| `ChatService` | `ChatService` over `Admission` and one engine | extends `Admission` with `kind`, `at`, `chunk`, `engine`, `sent`; each action runs from one suspension to the next and joins what it calls of the admission; for `release()` that is `ReleaseStep`, its unguarded effect, which the service may take at any place its code calls it (`Release` of the gate adds when a caller should) |
| `ChatServiceProperties` | - | properties of the service |
| `AppLifecycle` | `api/deps.py`, lifespan | `app`: the process, "stuck" after a shutdown whose engine raised; `pool`, `controller`: the caches; `live`: engines loaded; `pc`, `mine`: each request thread |
| `AppLifecycleProperties` | - | properties of the singletons |
| `Rounding` | `round()` of a quotient | used by the sizing, the engine's check and the advisor's score |
| `VramSizing` | tiers, variant selector, weight estimate, pool sizing, the engine's memory check | pure operators over entries of `models.yaml` and `vram_tiers.yaml`, one per function |
| `Startup` | `initialize_app()` in steps | extends `AppLifecycle` and `VramSizing`; `step` goes from the router over the pool and the engine's checks to its loading; `free` changes at any time, `cache` is the cached probe, `routerSaw` and `poolSaw` what each was told |
| `StartupProperties` | - | what is loaded and routed to, and that startup is `AppLifecycle`'s single step |
| `Observability` | middleware, stream wrapper, recorder, ring buffer, percentile | `phase`: where a response is; `sent`: the events on its connection; `seen`: the wrapper's locals; `ring`, `calls`: what `record()` has done |
| `Benchmarks` | runner, store, advisor | extends `Observability`: the runner is one of the clients, next to others; `bench` is its frame, `files` the directory, `prompts` and `stored` the suite file |
| `MeasurementProperties` | - | server, runner and advisor agree |
| `ServerControl` | `server_control.py` and the log tailer | `at`, `target`, `started`: the frame of `ensure_models_loaded()`; `servers`: all processes at the ports, whoever started them; stopping them is two pkills and a sleep, each an action, with the servers' own steps between; `log`, `tail`: text of a log and the tailer on it. Two fields are history, for the properties only: `late` (a server was still closing when the sleep was over) and `cuts` (where a tailer's reads ended) |
| `CompareApp` | the compare view | extends `ServerControl`; `worker`, `inFlight`, `enabled`, `stream`, `panel` as in `app.py` |
| `PlaygroundProperties` | - | what a user of the playground relies on |
| `SequentialCompare` | sequential comparison and its wait for a restart | `at` is its frame, the server's model changes under it |
| `DataInduction` | - | induction over numbers and finite sets, and what it shows of recursive functions, maxima and sums |
| `AdmissionGatesProofs`, `AdmissionProofs`, `AdmissionRefinementProofs`, `ChatServiceProofs`, `StartupProofs`, `MeasurementProofs`, `PlaygroundProofs` | - | theorems and proofs; `StartupProofs` holds those of `AppLifecycle` and `VramSizing` too |
| `MC...` | - | instances for TLC |

An action is what one coroutine does between two suspensions, because server
and playground each run one event loop. `admit()` suspends in exactly one place,
the `wait_for` on the semaphore; the admission actions are therefore an arrival
(the request passes, is refused, or queues), an exception set on a waiter
(`Timeout`, `Cancel`), a waiter's resumption (`Resume...`), and `Release`.
asyncio's semaphore is modelled from CPython 3.13, the version the project
requires: `acquire()` queues when a permit is missing or anybody waits, and a
waiter leaving `acquire()` passes on all remaining permits. Startup is
synchronous, and its steps are cut where it looks at the GPU.

Data is abstract:

* A prompt is its token count; messages, chunk text and event payloads are not
  modelled; an SSE event is its kind. Errors are names.
* The controller keys everything by model name and models do not interact, so
  admission and service are modelled for one model. The KV budget is `capacity *
  0.9` as a float in the code, compared with integers only, so its floor decides
  the same way.
* Memory is counted in 1/10000 GiB, parameters in 1/100 of 2^30, shares in
  percent. What the code computes with is rounded as it does (`Rounding`): the
  utilisation to four digits, the memory the engine's check compares to two, the
  advisor's scores to two. A tie goes up where Python takes the even neighbour; no
  property tells the two apart. Rounding for display is left out.
* An event of a stream is known by its position in place of its time, so that
  TTFT is the position of the first content. A run's figures are sums over its
  prompts instead of averages, which orders results of one suite size the same. A
  score is counted in hundredths, as it is rounded.
* A panel is the set of prompts whose tokens it shows. The text of a log is a
  sequence of symbols: positive numbers are plain characters, `End` is a newline,
  `Break` another character at which `splitlines()` splits, `Lead` and `Trail` are
  the two parts of a character of several bytes. `Undecodable` and `Joined` are what
  a read makes of a part alone and of a `Break` at its very end.

**Wrong variants.** An operator standing right before the one whose name it
extends (`ReleaseTwice` before `Release`) is a wrong form of it, used by nothing
in the specifications. Put in its place, it breaks the property named for it in
`PROJECT.json`: each property is known to notice a plausible bug.

## 3. What the runs check

| Run | Instance | Shows |
|---|---|---|
| `gates` | every request over small counts, limits and chars, and every way in which reservations grow from 0 to the bound `MaxReserved` | whole requests pass untouched; a clamp is the largest output that fits; refusals are justified; strict mode admits exactly the unclamped; more pressure never helps |
| `gates_retry` (fails) | same | a 429 "retry shortly" that no retry can satisfy |
| `admission` | 4 clients, 2 permits, cap 2, four request shapes, symmetry | permits conserved, in-flight bounded, no wake-up lost, batch counter exact, budget respected, reservations sum up |
| `admission_live` | 3 clients, 1 permit, batch wait 0 s | refinement of `SequenceSlots` with its fairness; every waiter is answered |
| `zero_wait` (fails) | interactive wait 0 s | a free slot does not admit |
| `service` | 2 clients, 1 slot, 2 content chunks per stream | event order, one release per admission, engine work within slots, every request ends, slots come back, and the service uses the gate as specified (`UsesAdmission == Spec`): it releases only what it holds |
| `engine_limit` (fails) | same | the engine exceeds the ceiling after a disconnect |
| `app_lifecycle` | a 4 GiB GPU, a family of three variants (one with a cap of its own below its weights) and a model without family, 2 tiers, 6 settings (with no GPU and with no tiers file among them), 4 levels of free memory; then 3 request threads, ceiling 1 | one engine, which shutdown finds and releases unless the engine's own shutdown raises; the default model is the loaded one; a chosen variant gets its weights, up to the rounding of its utilisation, and is the most precise that fits; sizing and the engine's check agree; racing requests settle on one controller; startup implements the step `AppLifecycle` makes of it, fairness included |
| `controller_race` (fails) | 3 threads, ceiling 1 | two controllers admit beyond one ceiling |
| `measurement` | 2 requests, a ring of 1, a suite of 2 prompts with 2 versions, 2 runs; older results of five models, other machines, another suite with a tie of rounded scores, and half of one; ranked on a GPU and without one | one record per response, also of streams nobody pulls; server and runner measure the same; the advisor's selection changes only by a whole result; no ranking against dominance but where rounded scores tie |
| `playground` | 2 models, 2 prompts, 3 servers in all, logs of up to 4 symbols, one port verbose | the mapping is served, or was by an old server that outlived the sleep; the exit stops what was started and nothing else; panels show one prompt; feeds have every line once, in order and damaged only at the cuts; every submission ends |
| `sequential_wait` (fails) | 2 models, 1 prompt, 2 restarts | the wait for a restart ends with the first refused ping |

**Bounds.** Four clients over two permits give a hand-over in progress, a waiter
behind it, a waiter being cancelled and a release at once, the richest
configuration an interaction of permits needs: what a step does depends on the
front of the deque and on one neighbour. Of the four shapes one always fits, one
is clamped under pressure, one is refused under pressure, one always refused. The
service needs two clients: one whose slot is being lost and one waiting for it;
two content chunks tell first, middle and last apart, and `MaxContent` stands for
`max_tokens`, which every request carries.

The free levels of `app_lifecycle` are one where nothing fits, one where only the
most compressed variant fits, one between, and one where all fit; router, pool
and engine may see any three of them. A ring of 1 with two requests overwrites a
record; two runs give a later and an earlier result of the same model, and the
second version of the prompts makes results that are not of the suite. Three
servers are one per port and one that was there before or comes up meanwhile; at
the beginning there is none, one, or one per port. Logs of four symbols give two
lines in one read or in two, a line cut between two polls, a character of two bytes
cut between its parts, and a `Break` before a cut and elsewhere; one port's log is
followed (`Verbose`), and only while all servers are the playground's (`OnlyOwn`),
because tailers do not interact with each other or with whose servers there are. A server's own steps (failing, dying,
writing) are followed while the playground attaches, starts, or waits, and from
quitting to the exit; between the first prompt and quitting the server control
looks at none of them, and the streams may fail at any time by themselves.

The safety properties of the passing runs do not depend on the sizes of these
instances: they are proved (section 4).

**Symmetry** is used only in `admission`, whose properties are invariants and
name no client.

**Fairness.** `FairSpec` asks the event loop to run resumed waiters and
`wait_for`'s timers to fire (weak fairness of `Resume` and `Timeout`); a running
request need not ever release. `ServiceFairSpec` asks for the finalizer of
abandoned generators and the timers: the per-chunk
time-out (120 s unless disabled) and the 300 s bound of `generate()`. The engine is
asked for nothing: it may stall at any chunk. A client reads its events or
leaves; this is an assumption about clients, not about the code, and without it a
client that stops reading keeps its slot (no timer covers a yield).

`LifecycleFairSpec` assumes that threads run and requests end, the latter being
what `EveryRequestEnds` shows. `StartupFairSpec` asks in addition that each step
of startup is taken: startup is a sequence of calls that return or raise.
`MeasurementFairSpec` asks the server to go on with each request: the service
ends every request whose client reads or leaves (`EveryRequestEnds` again), and
the event loop closes generators that were dropped. The runner, the people who
edit and the crash are asked for nothing. `PlaygroundFairSpec` asks the loop to
run what is ready (a queued worker, a finished gather) and every stream to end,
which its read time-out makes it do. Nothing is asked of servers: one that was told
to stop may close its port late or never, and the sleep ends all the same.

**Deadlock** is checked except where the system really stops: after shutdown or
a failed start, when all requests and runs are over, after the exit of the
playground or the end of the sequential comparison, and at the highest reservation level examined by `gates`.

## 4. What is proved

Each safety property of a passing run is a theorem about its specification,
under the named assumptions on the constants.

`AdmissionGatesProofs` proves the gates' contract for every request, capacity,
ceiling and reservation level. `GateTypes` establishes that the compared numbers
are integers; each theorem then splits on the tests of `Verdict`. With
`PressureConstants`, the five properties of the run `gates` follow for every
behaviour of `PressureSpec`: under rising pressure the contract goes on to hold,
and `GatesAreMonotone` says that nobody gains from another's reservation. Together
they give the contract in one line, `AdmittedExactly`: a request is admitted if and
only if it fits whole, or may be clamped and the smallest output fits.

`AdmissionProofs` proves, under `GateConstants` and `AdmissionConstants` only
(finite set of clients, natural limits), that every behaviour of `Spec` satisfies:

* `TypeOK`. It contains two facts that make everything else inductive: a
  request is waiting exactly when it has a future, and the deque holds each
  future once. Without the second, "the deque without r" need not remove r.
* `PermitConservation`: permits in the semaphore, with granted waiters and with
  running requests add up to `max_num_seqs`. Inductive relative to `TypeOK`;
  `WakeUpFacts` says what a hand-over does, and the granted and the running are
  disjoint (`HeldApart`). `InFlightBounded` follows from it.
* `NoLostWakeUp`: relative to `TypeOK` too. A waiter leaving `acquire()` passes
  permits on until permits or waiters run out (`WakeUpWakes`); every other step
  that frees a permit wakes somebody itself.
* `BatchAccounting`: the counter is the cardinality of the set of waiting batch
  requests; a step adds or removes at most one.
* `BudgetRespected`: `ReservationFits` shows that an admitted request's tokens
  fit beside those already reserved.
* `TrackerIsSum`: the counter is the sum of what the running requests hold. A
  step changes one summand, or a running request joins or leaves, and the sum
  changes by what the counter does (`SumWithElement`, `SumOfEqualValues`).

What these say together, without a further induction: nobody queues beside an idle
slot (`NobodyWaitsBesideIdleSlot`), and whenever no request is in flight every permit
is back in the semaphore, the deque is empty and no token or batch waiter is counted
(`NothingLeaks`). The latter is what a service that runs for months relies on.

`AdmissionRefinementProofs` proves `GateImplementsSlots`: the gate implements
`SequenceSlots` without its fairness. It is proved where a tier sets a ceiling
(`SequenceGateRuns`); without one the code admits everybody at once and there are no
slots to speak of. The mapping reads the queue off the deque, as the set of the
pending futures ahead of each. `QueueGrows` and `QueueShrinks` say that joining and
leaving the deque keep the order of the others; `WokenFront` that a hand-over,
however many permits it passes on, serves the front of the queue, which is what
first-come-first-served means; and `PermitConservation` that no more slots are held
than there are. A time-out of a waiter that has its permit already gives back a
slot and may at once give it to others, so one step of the gate may be a return
and several grants; `PassOn` allows for that. `ServiceServesInOrder` carries it
over to the whole service. From the same step simulation follows, about single
requests, `NobodyIsOvertaken`: who gets a permit, queued or arriving, gets it only
together with everybody who queues before it.

**Induction over data.** The prover cannot instantiate the induction theorems of
its library, whose hypotheses are predicates. `DataInduction` therefore states
induction for sets: a set that holds the empty set, and with each subset of S the
subset with one element more, holds S (`FiniteSetInduction`, from the library's
well-founded subset ordering), and the same for numbers (`NatSetInduction`). What is
to be shown of all is then membership in a set. From these follow the existence
and uniqueness of functions defined by recursion, and with them the laws of sums
over finite sets, in which `AdmissionProofs` and `MeasurementProofs` reason, and of
functions on 0..n, with which `PlaygroundProofs` follows the cutting of a text.

`ChatServiceProofs` proves the service's type invariant, `ReservationLifetime`,
`EngineWorkHasSlot`, `EventOrder` and `UsesAdmission`, for any number of clients and
chunks. `UsesAdmission` is not for free: `release()` checks nothing, so that a second
one, or one without a permit, would be a step the gate does not have. That every
release is owed (`ReleasesOwed`) needs `FrameInv`, by which the place a frame is at
shows that its request runs. The invariant `FrameInv` speaks of one frame at a time: where it may be,
whether it then holds its slot (`SlotHeld`), and which events it has sent
(`InOrder`). A step moves one frame and leaves the others' variables alone
(`FrameMoved`), so each action is proved for its own frame. `InOrder` needs that a
frame which sends the error event has no engine any more; otherwise a chunk could
follow it. From the step simulation `ServiceKeepsGate` carries the gate's permit,
budget and wake-up invariants over to the service, and with `NothingLeaks` it shows
that streams, however they end, leave nothing behind (`ServiceLeaksNothing`).

`StartupProofs` has three parts. The first proves, under `LifecycleConstants`, that
the process never holds two engines (`OneEngineLoaded`), that whatever is loaded is
in the cached pool, also after a start that failed, and that shutdown leaves no engine
but one whose own shutdown raised (`EngineReleasedAtShutdown`). Neither is inductive: a request that
found the cache empty could build a second engine. `EngineInv` adds that a serving process has
its pool cached (`PoolCached`), hence that no request is building one
(`NobodyBuildsPool`). The race for the admission controller has an invariant of its
own, `ControllerInv`: a request has a controller exactly from when it is resolved
until it leaves, and each controller's requests are within its ceiling
(`EachControllerKeepsItsCeiling`); that a new controller starts empty needs a name
nobody holds, which counting the holders provides (`FreshController`). `StrangersOnlyLeave` is the safety half of
`SettlesOnOneController`: once the race is over it does not begin again, and the
requests with a controller of their own can only become fewer.

The second proves of the operators of `VramSizing`, for every entry, tier list and
amount of memory, what sizing grants: at most 0.92 of the GPU, and, within half of the
last digit it is rounded to, at most 98% of the free memory and at most the user's cap,
unless the weights need more than that cap (`GrantIsBounded`); never less than half of
that digit under the weights, where these fit (`WeightsAreGranted`). `AllottedBounds`
bounds the amount before it is rounded, `RoundedDivBounds` what rounding does to it.
`SelectionIsBest` says that a selected variant fits and none of higher precision does.
The third uses them, under `StartupConstants`, to prove the four properties of what is
loaded. That variants get their weights needs `CeilingsWithinHeadroom`: no tier has
a ceiling above the 0.92 that sizing keeps, true of `config/vram_tiers.yaml` but enforced
by nothing; with a larger one a selected variant could be given less than its weights.
That sizing and the engine's check agree, though they round differently, needs
`MarginCoversRounding`: the 2% that sizing keeps of the free memory are more than the
roundings from 0.48 GiB and 1/400 of the GPU on. The module also proves that startup
implements `AppLifecycle` (each of its steps is `InitializeApp` or a stutter), and with it
that startup loads one engine, released as above.

`MeasurementProofs` proves, under `ObservabilityConstants` and `BenchmarkConstants`,
that every response is recorded once and that only whole results change the
advisor's selection; the latter needs that a run's time is later than that of
every file. `P95NearNearestRank` shows how far the summary's percentile may be
off: its index is the nearest rank or the one below, for every sample size. Two
more properties rest on invariants of their own:

* `SameFigures`, from the invariant `FiguresInv`: while a stream is wrapped, the
  wrapper's figures are what the events sent so far say (`Measures`), records are of
  requests that are over and a run's results of streams that ended, so that no
  later step measures either again, and at its end the runner's and the wrapper's
  reading of the same events agree (`EndsMeasuredTwice`). It needs that statuses are
  numbers.
* `DominanceRespected`: rounding grows with what is rounded (`RoundingGrows`), so each
  part of a score grows with its figure (`PointsGrow`), and a viable model that is no
  worse in any figure has no smaller score (`ScoresFollowFigures`), on a GPU and
  without one, where the code scores no memory. It can then be listed below only at a
  tie of the rounded scores, by the order of the store. The maxima are over a report's
  results and exist because there are finitely many of them with natural figures
  (`RankInv`, kept by `RankStep`); that is assumed of the results there at the
  beginning, and the throughput and TTFT of a new one are sums of natural numbers.

`PlaygroundProofs` proves, under `ControlConstants` and `MaxPromptsAssumption`,
`MappingIsServed`, `CleanupMatchesStart`, `PanelsUnmixed` and `FeedFaithful` for any
number of models, ports, servers and prompts and logs of any length. `Evolve` says
what servers do by themselves: they come up, fail and die, but close only when
told. `MapInv` follows the loop over the ports: those it has passed have a server with their
model, which nobody stopped or which is one of the late ones; `ToldFacts`, `KilledFacts`
and `SleptFacts` say what the two pkills and the sleep leave. `CleanInv` says who may be
alive in which phase; it needs that the outcome stays "none" until
`ensure_models_loaded()` returns. `PanelInv` says which prompts a panel may hold before and
after it is cleared.

`FeedInv` says of every tailer that feed and buffer are its log as it was seen with its
cuts (`Seen`), cut into lines up to its offset (`CutUpTo`), and which tailers have stopped.
`ReadSees` shows that a read decodes what is new as the whole text is seen with one more
cut; `SplitGoesOn` that splitting the buffer with it cuts the whole text where splitting
that at once would, because what is kept in the buffer ends no line. `PlainFeedsAreWhole`
draws the conclusion for a log of single-byte characters and newlines: its feed is the
log's lines, whole, however the polls cut it.

**Only model-checked**: all liveness (`EveryWaiterAnswered`, `EveryRequestEnds`,
`SlotsComeBack`, `SettlesOnOneController`, `EveryStreamRecorded`,
`EverySubmissionEnds`) and the fairness of the two refinements (`ImplementsSlots`,
`ImplementsLifecycle`), which the prover does not reach. The safety parts of both
refinements are proved.

## 5. Where code and documentation disagree

1. `gates_retry`: requests larger than 90% of the KV pool are told to retry. A retry
   can succeed if and only if the request alone fits the budget (`RetryHelpsExactly`);
   one that does not is admitted at no level of reservations (`RetryInVain`).
2. `zero_wait`: a wait of 0 s rejects everything instead of "do not wait" or "disabled".
   Without such waits the promise holds (`FreeSlotAdmitsUnlessZeroWait`).
3. `engine_limit`: `gen.aclose()` closes only the outermost engine generator.
   The inner ones are closed by finalizers after the slot was given away. The engine
   never executes more than `max_num_seqs` sequences and such orphans (`ExcessIsOrphaned`).
4. `controller_race`: concurrent first requests build several admission controllers.
   The excess is at most the requests that hold another controller than the cached
   one (`ExcessIsStrangers`).
5. `sequential_wait`: `wait_for_loaded_model()` (`src/playground/client.py:460`) looks
   for the loaded model in an error's text that `api/errors.py:24-33` replaces by a
   generic one, so the first refused ping ends the comparison. A name that the
   registry does not have falls back to the default model, so that its ping
   succeeds although another model is loaded.

`PROJECT.json` quotes the lines each of these contradicts. The theorems named at 1 to
4 delimit them: the documented claim fails for the reason given and for no other. What else was found
while modelling, and is in the models as the code does it:

* `src/config/vram_tiers.yaml` calls a tier's ceiling "a hard cap layered on top of the
  existing auto-sizing"; only the selection of a variant applies it, sizing does not.
* Router and pool probe separately: when the memory changes between the two, a
  family can resolve to two variants, and requests that name no registered model
  are then routed to one that is not loaded. `DefaultIsServed` therefore assumes
  that both saw the same.
* Shutdown swallows an exception of the engine's own shutdown three times
  (`engines/vllm_engine.py:698`, `engines/pool.py:61`, `api/deps.py:279`) and drops every
  reference: an engine may stay loaded with nobody to stop it ("stuck"). A start that
  fails because the engine came up unhealthy leaves it loaded, in the cached pool.
* `utils/vllm_pool_config.py:340` rounds the utilisation last: where the weights are the
  floor of what is granted, it may end up below them by up to 0.00005 of the GPU. The
  same floor overrides the user's cap.
* `benchmarks/advisor.py:5` ranks "relative to the fastest viable model"; the maximum is
  taken over all eligible models. The comment at `:195` and
  `src/docs/DECISIONS.md:266`, by which models that do not fit come last, do not hold for
  ties at 0: the sort is stable, and the store's order decides, as for every two scores
  that are equal when rounded.
* A stream that the service breaks off ends cleanly on the wire: the runner saves
  a result of 0 tokens for it, and the middleware has recorded 200.
* `ensure_models_loaded()` truncates the logs (`:205`) before it stops the servers
  (`:224`): an old server can write its end into the new log, which the health wait
  may take for the new server's. In the model it may give up at any poll that is
  not answered.
* `stop_playground_server()` sleeps 1.5 s (`src/playground/server_control.py:79`) and looks at
  nothing: an old server that is slower may answer the health and model checks in place
  of the new one, and is gone afterwards. `MappingIsServed` names the case (`late`).
* The tailer (`src/playground/log_feed.py:342-354`) reads text from a byte offset: a
  character of several bytes that a poll cuts is shown as two replacement characters, and
  a line that ends at another terminator than a newline just before a cut is joined to
  the next.
* When one stream of a comparison fails, the other goes on after the submission has
  ended (`src/playground/app.py:406`) and writes into the panel of the next prompt.
* Quitting between the first start and the flag (`:228`) leaves servers behind; the
  model calls this outcome "cut", and `CleanupMatchesStart` excepts it.
* Clearing the panels (`src/playground/app.py:368`) in mid-stream can leave one empty
  when its stream ends, which then reports that there were no response tokens.
* A batch multiplier of 0 rejects every batch request, also when slots are free.

## 6. Not modelled

* The stream of a process without vLLM (one message, no terminal event): such a
  process does not get through startup.
* HTTP framing: a stream refused by admission after its 200 headers.
* The per-model override `max_completion_tokens` of the clamped `max_tokens`.
* The engine's keyword arguments, prompt building and sampling parameters; among them
  those a tier sets (`apply_tier_knobs()`, `utils/vllm_pool_config.py:363`).
* An `aclose()` of the engine's generator that raises or hangs: its outermost generator
  awaits vLLM's and catches nothing, so that the service's `finally` clause would be left
  at once; vLLM's own clean-up is external.
* How much memory each of two servers of a comparison gets: a server that finds
  too little fails or dies, which `ServerControl` lets it do at any time. What one
  process does when its memory changes is `Startup`.
* `src/playground/chat.py`: one task that awaits one stream at a time. When a stream
  fails, the user's turn stays in the history without an answer.
* The client's preflight and the parallel comparison of the command line, which
  send one request each and report.
* Hardware probing, the wording of reports, the Prometheus export with its counters, widgets
  and the classification of log lines: formatting.
* The environment patches, which act once before the server's modules are used,
  and the scripts, which parse arguments and call the components above.

## 7. What could come next

1. The history of the chat view, with the turn that stays after an error.
2. `max_completion_tokens` in `ChatService`: what the engine generates against what
   was reserved.
3. Two processes of `Startup` on one GPU, as a comparison starts them.
