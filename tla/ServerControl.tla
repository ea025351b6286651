--------------------------- MODULE ServerControl ----------------------------
(***************************************************************************)
(* The playground's control of the inference servers                       *)
(* (playground/server_control.py): ensure_models_loaded() attaches to      *)
(* servers that run, or stops all of them and starts one per model; log    *)
(* tailers (playground/log_feed.py) show what they write meanwhile; the    *)
(* servers are stopped at exit when the playground started them.           *)
(*                                                                         *)
(* The playground is one task on an event loop; it can be quit at every    *)
(* await.  Servers are other processes: leftovers of earlier sessions,     *)
(* servers the user has started and starts, and its own.  A server binds   *)
(* its port when its model is loaded, so that one that answers has it.     *)
(***************************************************************************)
EXTENDS Integers, Sequences, SequencesExt

CONSTANTS
  Models,      \* the models servers can have
  Wanted,      \* the models chosen; the i-th is to be served at port i
  MaxServers,  \* bound on the servers of a behaviour
  Verbose,     \* bound: the ports whose servers' logs are followed
  MaxLog       \* bound on what is written to a log

ASSUME ControlConstants ==
  /\ Wanted \in Seq(Models) /\ Wanted # <<>>
  /\ \A i, j \in DOMAIN Wanted : Wanted[i] = Wanted[j] => i = j
  /\ MaxServers \in Nat /\ MaxLog \in Nat /\ Verbose \subseteq DOMAIN Wanted

Ports == DOMAIN Wanted
LastPort == Len(Wanted)

VARIABLES
  servers,  \* all servers so far: [port, model, by, state, late], by is
            \* "playground", or "other" for those of earlier sessions and of
            \* the user; one that was told to stop is "closing" its port, then
            \* "ending"; one that has its port but no engine any more is
            \* "broken"; late is history: closing when the sleep was over
  at,       \* where the playground is
  target,   \* the port ensure_models_loaded() is at
  started,  \* _server_started_by_playground
  outcome,  \* of ensure_models_loaded(): "none", "loaded", "failed", "quit",
            \* "cut" (quit while it was starting servers)
  log,      \* per port, the text of the log
  tail      \* per port, the tailer: [on, offset, buffer, feed, cuts]; cuts is
            \* history: the offsets at which its reads ended

controlVars == <<servers, at, target, started, outcome, log, tail>>

NoTail == [on |-> FALSE, offset |-> 0, buffer |-> <<>>, feed |-> <<>>, cuts |-> {0}]

\* A text is a sequence of symbols: its plain characters are positive numbers.
End   == 0   \* a newline
Break == -1  \* another character at which splitlines() splits
Lead  == -2  \* the first part of a character of several bytes, and
Trail == -3  \* the second, which always follows the first
Undecodable == -4  \* what errors="replace" makes of one part alone
Joined      == -5  \* nothing, where a Break has been lost

\* One that is broken keeps its port, but its health is not a 200.
Listening(s) == s.state \in {"up", "closing"}
Taken(p) == \E s \in Range(servers) : s.port = p /\ s.state \in {"up", "closing", "broken"}
Answers(p) == \E s \in Range(servers) : s.port = p /\ Listening(s)
HasLoaded(p) ==
  \E s \in Range(servers) : s.port = p /\ Listening(s) /\ s.model = Wanted[p]

Becomes(i, state) == servers' = [servers EXCEPT ![i].state = state]

-----------------------------------------------------------------------------
(***************************************************************************)
(* LogTailer.                                                              *)
(***************************************************************************)
EndsLine(c) == c \in {End, Break}

\* A symbol ends the line begun before, or is added to it.
Add(found, c) ==
  IF EndsLine(c) THEN [lines |-> Append(found.lines, found.rest), rest |-> <<>>]
  ELSE [lines |-> found.lines, rest |-> Append(found.rest, c)]

\* splitlines(), with the last line apart when nothing ends it.
Split(text) ==
  LET upTo[n \in 0..Len(text)] ==
        IF n = 0 THEN [lines |-> <<>>, rest |-> <<>>] ELSE Add(upTo[n - 1], text[n])
  IN  upTo[Len(text)]

\* What a read makes of the bytes it finds: a character whose other part is out
\* of reach is replaced, and of the line that a Break at the very end has ended
\* the buffer keeps the text alone.
Decoded(chunk) ==
  [i \in 1..Len(chunk) |->
     CASE chunk[i] = Lead /\ i = Len(chunk) -> Undecodable
       [] chunk[i] = Trail /\ i = 1 -> Undecodable
       [] chunk[i] = Break /\ i = Len(chunk) -> Joined
       [] OTHER -> chunk[i]]

\* _poll_once(): what has been added since, the line begun before in front.
Fed(t, found, text) ==
  [t EXCEPT !.offset = Len(text), !.buffer = found.rest, !.feed = @ \o found.lines,
            !.cuts = @ \cup {Len(text)}]

PolledAfresh(t, text) ==
  Fed(t, Split(Decoded(SubSeq(text, t.offset + 1, Len(text)))), text)

Polled(t, text) ==
  Fed(t, Split(t.buffer \o Decoded(SubSeq(text, t.offset + 1, Len(text)))), text)

Poll(p) ==
  /\ tail[p].on /\ tail[p].offset < Len(log[p])
  /\ tail' = [tail EXCEPT ![p] = Polled(@, log[p])]
  /\ UNCHANGED <<servers, at, target, started, outcome, log>>

\* stop(): the task is cancelled and polls once more.
StopTail(p) ==
  tail' = [tail EXCEPT ![p] = [Polled(@, log[p]) EXCEPT !.on = FALSE]]

-----------------------------------------------------------------------------
(***************************************************************************)
(* The servers, and the user at another terminal.                          *)
(***************************************************************************)
\* Bound: logs are followed where only the playground's servers are.
OnlyOwn == \A s \in Range(servers) : s.by = "playground"

NextSymbols(text) ==
  IF text # <<>> /\ Last(text) = Lead THEN {Trail}
  ELSE {End, Break, Lead, Len(text) + 1}

ServerWrites(i) ==
  /\ servers[i].state \in {"starting", "ending"}
  /\ servers[i].port \in Verbose /\ OnlyOwn
  /\ tail[servers[i].port].on /\ Len(log[servers[i].port]) < MaxLog
  /\ \E c \in NextSymbols(log[servers[i].port]) :
       log' = [log EXCEPT ![servers[i].port] = Append(@, c)]
  /\ UNCHANGED <<servers, at, target, started, outcome, tail>>

\* The model is loaded and the port free.
ServerComesUp(i) ==
  /\ servers[i].state = "starting" /\ ~Taken(servers[i].port)
  /\ Becomes(i, "up")
  /\ UNCHANGED <<at, target, started, outcome, log, tail>>

ServerFails(i) ==
  /\ servers[i].state = "starting"
  /\ Becomes(i, "failed")
  /\ UNCHANGED <<at, target, started, outcome, log, tail>>

ServerDies(i) ==
  /\ servers[i].state \in {"up", "broken"}
  /\ Becomes(i, "died")
  /\ UNCHANGED <<at, target, started, outcome, log, tail>>

ServerCloses(i) ==
  /\ servers[i].state = "closing"
  /\ Becomes(i, "ending")
  /\ UNCHANGED <<at, target, started, outcome, log, tail>>

ServerEnds(i) ==
  /\ servers[i].state = "ending"
  /\ Becomes(i, "stopped")
  /\ UNCHANGED <<at, target, started, outcome, log, tail>>

NewServer(port, m, by, state) ==
  [port |-> port, model |-> m, by |-> by, state |-> state, late |-> FALSE]

Started(port, m, by) == Append(servers, NewServer(port, m, by, "starting"))

UserStarts ==
  /\ Len(servers) < MaxServers - LastPort
  /\ \E p \in Ports, m \in Models : servers' = Started(p, m, "other")
  /\ UNCHANGED <<at, target, started, outcome, log, tail>>

ServerStep(i) ==
  \/ ServerWrites(i) \/ ServerComesUp(i) \/ ServerFails(i) \/ ServerDies(i)
  \/ ServerCloses(i) \/ ServerEnds(i)

-----------------------------------------------------------------------------
(***************************************************************************)
(* ensure_models_loaded(), from await to await.                            *)
(***************************************************************************)
GoTo(place, p) == at' = place /\ target' = p

\* The next model, or what follows the last one.
Advance(place, then) ==
  IF target < LastPort THEN GoTo(place, target + 1) ELSE GoTo(then, 1)

\* The logs are emptied and their tailers started, before any server is
\* asked or stopped.
Begin ==
  /\ at = "selected"
  /\ log' = [p \in Ports |-> <<>>]
  /\ tail' = [p \in Ports |-> [NoTail EXCEPT !.on = TRUE]]
  /\ GoTo("probe", 1)
  /\ UNCHANGED <<servers, started, outcome>>

\* fetch_loaded_models(): a server that does not answer in 5 s counts as
\* absent.
Probe ==
  /\ at = "probe"
  /\ \/ HasLoaded(target) /\ Advance("probe", "model")
     \/ GoTo("stop", 1)
  /\ UNCHANGED <<servers, started, outcome, log, tail>>

\* stop_playground_server(): two pkills, which reach every server of this
\* machine, and a sleep; it is left at each await.  The first tells uvicorn to
\* stop: a server that runs closes its port, one that is still starting leaves
\* without having answered.
Told(s) ==
  [s EXCEPT !.state = CASE @ \in {"up", "broken"} -> "closing"
                        [] @ = "starting" -> "ending" [] OTHER -> @]

PkillUvicorn == servers' = [i \in DOMAIN servers |-> Told(servers[i])]

\* The second kills the engines.  A server that runs, because it has come up
\* meanwhile, is left with its port; one that starts fails, if it has its engine.
EngineKilled(s) ==
  [s EXCEPT !.state = CASE @ = "up" -> "broken" [] @ = "starting" -> "ending" [] OTHER -> @]

PkillEngines ==
  \E hit \in SUBSET DOMAIN servers :
    /\ \A i \in DOMAIN servers : servers[i].state = "up" => i \in hit
    /\ servers' = [i \in DOMAIN servers |->
                     IF i \in hit THEN EngineKilled(servers[i]) ELSE servers[i]]

StopServers ==
  /\ at = "stop"
  /\ PkillUvicorn /\ GoTo("stopping", 1)
  /\ UNCHANGED <<started, outcome, log, tail>>

StopEngines ==
  /\ at = "stopping"
  /\ PkillEngines /\ GoTo("slept", 1)
  /\ UNCHANGED <<started, outcome, log, tail>>

\* It has slept for 1.5 s, whatever the servers have done meanwhile.
Slept ==
  /\ at = "slept"
  /\ servers' = [i \in DOMAIN servers |->
                   [servers[i] EXCEPT !.late = servers[i].state = "closing"]]
  /\ GoTo("start", 1)
  /\ UNCHANGED <<started, outcome, log, tail>>

\* start_playground_server(): the process is there before the await returns.
Spawn ==
  /\ at = "start"
  /\ servers' = Started(target, Wanted[target], "playground")
  /\ GoTo("spawned", target)
  /\ UNCHANGED <<started, outcome, log, tail>>

SpawnFails ==
  /\ at = "start"
  /\ outcome' = "cut" /\ GoTo("untail", 1)
  /\ UNCHANGED <<servers, started, log, tail>>

SpawnedUnflagged ==
  /\ at = "spawned"
  /\ Advance("start", "health")
  /\ UNCHANGED <<servers, started, outcome, log, tail>>

\* The flag is set once all are started.
Spawned ==
  /\ at = "spawned"
  /\ Advance("start", "health")
  /\ started' = (started \/ target = LastPort)
  /\ UNCHANGED <<servers, outcome, log, tail>>

GivesUp == outcome' = "failed" /\ GoTo("untail", 1)

\* wait_for_health(): an answer, a failure in the log, or 120 s without.
WaitForHealth ==
  /\ at = "health"
  /\ IF Answers(target) THEN Advance("health", "model") /\ UNCHANGED outcome ELSE GivesUp
  /\ UNCHANGED <<servers, started, log, tail>>

\* wait_for_model(): the model is among the loaded ones, or 600 s without.
WaitForAnyModel ==
  /\ at = "model"
  /\ IF Answers(target)
     THEN IF target < LastPort THEN GoTo("model", target + 1) /\ UNCHANGED outcome
          ELSE outcome' = "loaded" /\ GoTo("untail", 1)
     ELSE GivesUp
  /\ UNCHANGED <<servers, started, log, tail>>

WaitForModel ==
  /\ at = "model"
  /\ IF HasLoaded(target)
     THEN IF target < LastPort THEN GoTo("model", target + 1) /\ UNCHANGED outcome
          ELSE outcome' = "loaded" /\ GoTo("untail", 1)
     ELSE GivesUp
  /\ UNCHANGED <<servers, started, log, tail>>

\* The finally clause, one tailer after the other.
StopTailers ==
  /\ at = "untail"
  /\ StopTail(target)
  /\ Advance("untail", "returned")
  /\ UNCHANGED <<servers, started, outcome, log>>

\* It returns or raises; nobody looks at the logs any more.
Return ==
  /\ at = "returned"
  /\ GoTo(CASE outcome = "loaded" -> "ready" [] outcome = "failed" -> "sorry"
            [] OTHER -> "exit", 1)
  /\ log' = [p \in Ports |-> <<>>] /\ tail' = [p \in Ports |-> NoTail]
  /\ UNCHANGED <<servers, started, outcome>>

-----------------------------------------------------------------------------
(***************************************************************************)
(* The end of the playground.                                              *)
(***************************************************************************)
Ensuring == {"probe", "stop", "stopping", "slept", "start", "spawned", "health", "model"}

\* ctrl+c cancels ensure_models_loaded() at its await.
Quit ==
  /\ \/ at \in Ensuring /\ GoTo("untail", 1)
        /\ outcome' = IF at = "spawned" \/ (at = "start" /\ target > 1) THEN "cut" ELSE "quit"
     \/ at \in {"selected", "ready", "sorry"} /\ GoTo("exit", 1) /\ UNCHANGED outcome
  /\ UNCHANGED <<servers, started, log, tail>>

\* cleanup_playground_server_if_started()
Cleanup ==
  /\ at = "exit"
  /\ IF started THEN PkillUvicorn /\ GoTo("exiting", 1)
     ELSE GoTo("exited", 1) /\ UNCHANGED servers
  /\ UNCHANGED <<started, outcome, log, tail>>

CleanupEngines ==
  /\ at = "exiting"
  /\ PkillEngines /\ GoTo("cleaned", 1)
  /\ UNCHANGED <<started, outcome, log, tail>>

Cleaned ==
  /\ at = "cleaned"
  /\ started' = FALSE /\ GoTo("exited", 1)
  /\ UNCHANGED <<servers, outcome, log, tail>>

Ensure ==
  \/ Begin \/ Probe \/ StopServers \/ StopEngines \/ Slept \/ Spawn \/ SpawnFails \/ Spawned
  \/ WaitForHealth \/ WaitForModel \/ StopTailers \/ Return

\* No server runs, or one, or one at each port.
ControlInit ==
  /\ servers \in {<<>>} \cup
       {<<NewServer(p, m, "other", state)>> : p \in Ports, m \in Models, state \in {"starting", "up"}}
       \cup {[p \in Ports |-> NewServer(p, m[p], "other", "up")] : m \in [Ports -> Models]}
  /\ at = "selected" /\ target = 1 /\ started = FALSE /\ outcome = "none"
  /\ log = [p \in Ports |-> <<>>] /\ tail = [p \in Ports |-> NoTail]

\* All but the quitting, which also ends the application.
ControlNext ==
  \/ Ensure \/ Cleanup \/ CleanupEngines \/ Cleaned \/ UserStarts
  \/ \E i \in DOMAIN servers : ServerStep(i)
  \/ \E p \in Ports : Poll(p)
=============================================================================
