-------------------------- MODULE PlaygroundProofs --------------------------
(***************************************************************************)
(* The playground's promises about the servers, the panels and the feeds,  *)
(* for any number of models, servers and prompts and logs of any length.   *)
(*                                                                         *)
(* Servers only ever come up, fail, die, close and end by themselves; only *)
(* the steps of stopping tell them to stop.  The first lemmas say so once, *)
(* for every step (Evolve), and the invariants are read off the place at   *)
(* which the playground is.                                                *)
(***************************************************************************)
EXTENDS PlaygroundProperties, DataInduction, SequenceTheorems, TLAPS

States == {"starting", "up", "broken", "failed", "died", "closing", "ending", "stopped"}
Stopping == {"closing", "ending", "stopped", "broken"}
Server == [port : Ports, model : Models, by : {"playground", "other"}, state : States,
           late : BOOLEAN]

Places == Ensuring \cup {"selected", "untail", "returned", "ready", "sorry", "exit",
                         "exiting", "cleaned", "exited"}

ControlTypes ==
  /\ servers \in Seq(Server)
  /\ at \in Places
  /\ target \in Ports
  /\ started \in BOOLEAN

Own(i) == servers[i].by = "playground"
OwnThere == \E i \in DOMAIN servers : Own(i)

\* A server at p that had loaded its model was not stopped since, or was late.
ServedAt(p) ==
  \E i \in DOMAIN servers :
    /\ servers[i].port = p /\ servers[i].model = Wanted[p]
    /\ servers[i].state \in {"up", "died"} \/ servers[i].late

\* While the playground asks for models no server is closing but late ones, so
\* that any other that answers runs; and what has answered stays in the mapping.
MapInv ==
  /\ at \in (Ensuring \ {"stopping", "slept"}) \cup {"selected"} =>
       \A i \in DOMAIN servers : servers[i].state = "closing" => servers[i].late
  /\ at = "model" => \A p \in 1..(target - 1) : ServedAt(p)
  /\ at \in {"untail", "returned"} /\ outcome = "loaded" => \A p \in Ports : ServedAt(p)
  /\ at = "ready" => \A p \in Ports : ServedAt(p)

\* The flag says whether there are servers of the playground, except from the
\* first start to the last and after the cleanup; and servers were stopped only
\* on the way to starting others.
CleanInv ==
  /\ OwnThere /\ ~started =>
       \/ at = "start" /\ target > 1
       \/ at \in {"spawned", "exited"} \/ outcome = "cut"
  /\ started \/ at \in {"spawned", "exiting", "cleaned"} => OwnThere
  /\ at \in {"exiting", "cleaned"} \/ (at = "exited" /\ outcome # "cut") =>
       \A i \in DOMAIN servers : Own(i) => servers[i].state \notin {"starting", "up", "broken"}
  /\ (\E i \in DOMAIN servers : servers[i].state \in Stopping) =>
       \/ OwnThere \/ at \in {"stopping", "slept", "start"}
       \/ outcome \in {"quit", "cut", "failed"}
  /\ at \in Ensuring \cup {"selected"} => outcome = "none"

ControlInv == ControlTypes /\ MapInv /\ CleanInv

\* An open stream that nobody gathers has lost its gathering to another one's
\* failure; a gathering panel shows nothing else of earlier prompts.
Orphaned(q, p) == \E o \in Ports \ {p} : stream[<<q, o>>] = "failed"

PanelInv ==
  /\ prompt \in 0..MaxPrompts
  /\ worker \in {"none", "queued", "refreshing", "gathering"}
  /\ worker \in {"refreshing", "gathering"} => inFlight = TRUE
  /\ stream \in [Streams -> {"none", "open", "done", "failed"}]
  /\ panel \in [Ports -> SUBSET (1..MaxPrompts)]
  /\ \A q \in 1..MaxPrompts, p \in Ports :
       stream[<<q, p>>] = "open" /\ (worker # "gathering" \/ q # prompt) => Orphaned(q, p)
  /\ worker = "gathering" =>
       \A p \in Ports : \A q \in panel[p] \ {prompt} : Orphaned(q, p)

-----------------------------------------------------------------------------
(***************************************************************************)
(* The panels.                                                             *)
(***************************************************************************)
\* At first there is no prompt.
LEMMA PanelInit == AppInit => PanelInv
BY MaxPromptsAssumption DEF AppInit, PanelInv, Streams

\* A stream that ends: panels get at most a text of its own prompt.
LEMMA StreamEndStep ==
  ASSUME PanelInv, NEW s \in Streams, StreamEnds(s)
  PROVE  PanelInv'
<1> DEFINE q == s[1]
           p == s[2]
<1>1. q \in 1..MaxPrompts /\ p \in Ports /\ s = <<q, p>>
  BY DEF Streams
<1>2. stream[<<q, p>>] = "open"
  BY <1>1 DEF StreamEnds, StreamDone, StreamFails
<1>3. worker # "gathering" \/ q # prompt => Orphaned(q, p)
  BY <1>1, <1>2 DEF PanelInv
<1>4. ASSUME NEW end \in {"done", "failed"}, stream' = [stream EXCEPT ![s] = end]
      PROVE  /\ stream' \in [Streams -> {"none", "open", "done", "failed"}]
             /\ \A a \in 1..MaxPrompts, b \in Ports :
                  stream'[<<a, b>>] = IF a = q /\ b = p THEN end ELSE stream[<<a, b>>]
             /\ \A a \in 1..MaxPrompts, b \in Ports : Orphaned(a, b) => Orphaned(a, b)'
  <2>1. stream' \in [Streams -> {"none", "open", "done", "failed"}]
    BY <1>4 DEF PanelInv
  <2>2. ASSUME NEW a \in 1..MaxPrompts, NEW b \in Ports
        PROVE  stream'[<<a, b>>] = IF a = q /\ b = p THEN end ELSE stream[<<a, b>>]
    BY <1>1, <1>4 DEF PanelInv, Streams
  <2>3. ASSUME NEW a \in 1..MaxPrompts, NEW b \in Ports, Orphaned(a, b)
        PROVE  Orphaned(a, b)'
    BY <1>2, <2>2, <2>3 DEF Orphaned
  <2>4. QED BY <2>1, <2>2, <2>3
<1>5. CASE StreamDone(s)
  <2>1. /\ stream' = [stream EXCEPT ![s] = "done"] /\ prompt' = prompt
        /\ panel' = [panel EXCEPT ![p] = IF @ = {} THEN {q} ELSE @]
        /\ IF LastOpen(s) THEN EndOfSubmit ELSE UNCHANGED <<worker, inFlight, enabled>>
    BY <1>5 DEF StreamDone
  <2>2. panel' \in [Ports -> SUBSET (1..MaxPrompts)]
    BY <1>1, <2>1 DEF PanelInv
  <2>3. ASSUME NEW a \in 1..MaxPrompts, NEW b \in Ports, stream'[<<a, b>>] = "open",
               worker' # "gathering" \/ a # prompt'
        PROVE  Orphaned(a, b)'
    <3>1. stream[<<a, b>>] = "open" /\ ~(a = q /\ b = p)
      BY <1>4, <2>1, <2>3
    <3>2. worker # "gathering" \/ a # prompt
      BY <1>1, <2>1, <2>3, <3>1 DEF LastOpen
    <3>3. QED BY <1>4, <2>1, <3>1, <3>2 DEF PanelInv
  <2>4. ASSUME worker' = "gathering", NEW b \in Ports, NEW a \in panel'[b] \ {prompt'}
        PROVE  Orphaned(a, b)'
    <3>1. worker = "gathering" /\ a \in 1..MaxPrompts
      BY <2>1, <2>2, <2>4 DEF EndOfSubmit
    <3>2. a \in panel[b] \ {prompt} \/ (a = q /\ b = p /\ a # prompt)
      BY <1>1, <2>1, <2>4 DEF PanelInv
    <3>3. Orphaned(a, b)
      BY <1>3, <2>4, <3>1, <3>2 DEF PanelInv
    <3>4. QED BY <1>4, <2>1, <2>4, <3>1, <3>3
  <2>5. /\ worker' \in {"none", "queued", "refreshing", "gathering"}
        /\ worker' \in {"refreshing", "gathering"} => inFlight' = TRUE
    BY <2>1 DEF PanelInv, EndOfSubmit
  <2>6. QED BY <1>4, <2>1, <2>2, <2>3, <2>4, <2>5 DEF PanelInv
<1>6. CASE StreamFails(s)
  <2>1. /\ stream' = [stream EXCEPT ![s] = "failed"] /\ UNCHANGED <<prompt, panel>>
        /\ IF worker = "gathering" /\ q = prompt THEN EndOfSubmit
           ELSE UNCHANGED <<worker, inFlight, enabled>>
    BY <1>6 DEF StreamFails
  <2>2. ASSUME NEW a \in 1..MaxPrompts, NEW b \in Ports, stream'[<<a, b>>] = "open",
               worker' # "gathering" \/ a # prompt'
        PROVE  Orphaned(a, b)'
    <3>1. stream[<<a, b>>] = "open" /\ ~(a = q /\ b = p)
      BY <1>4, <2>1, <2>2
    <3>2. CASE a = q
      BY <1>1, <1>4, <2>1, <3>1, <3>2 DEF Orphaned
    <3>3. CASE a # q
      <4>1. worker # "gathering" \/ a # prompt
        BY <2>1, <2>2, <3>3
      <4>2. QED BY <1>4, <2>1, <3>1, <4>1 DEF PanelInv
    <3>4. QED BY <3>2, <3>3
  <2>3. ASSUME worker' = "gathering", NEW b \in Ports, NEW a \in panel'[b] \ {prompt'}
        PROVE  Orphaned(a, b)'
    <3>1. worker = "gathering" /\ a \in panel[b] \ {prompt} /\ a \in 1..MaxPrompts
      BY <2>1, <2>3 DEF EndOfSubmit, PanelInv
    <3>2. QED BY <1>4, <2>1, <2>3, <3>1 DEF PanelInv
  <2>4. /\ worker' \in {"none", "queued", "refreshing", "gathering"}
        /\ worker' \in {"refreshing", "gathering"} => inFlight' = TRUE
    BY <2>1 DEF PanelInv, EndOfSubmit
  <2>5. QED BY <1>4, <2>1, <2>2, <2>3, <2>4 DEF PanelInv
<1>7. QED BY <1>5, <1>6 DEF StreamEnds

\* No step mixes the panels of prompts whose streams were gathered whole.
LEMMA PanelStep == PanelInv /\ [PlaygroundNext]_playgroundVars => PanelInv'
<1> SUFFICES ASSUME PanelInv, [PlaygroundNext]_playgroundVars PROVE PanelInv'
  OBVIOUS
<1>1. CASE UNCHANGED appVars
  BY <1>1 DEF appVars, PanelInv, Orphaned
<1>2. CASE QuitApp
  <2>1. /\ prompt' = 0 /\ worker' = "none" /\ inFlight' = FALSE
        /\ stream' = [s \in Streams |-> "none"] /\ panel' = [p \in Ports |-> {}]
    BY <1>2 DEF QuitApp
  <2>2. QED BY <2>1, MaxPromptsAssumption DEF PanelInv, Streams
<1>3. CASE EnableInput
  <2>1. UNCHANGED <<prompt, worker, inFlight, stream, panel>>
    BY <1>3 DEF EnableInput
  <2>2. QED BY <2>1 DEF PanelInv, Orphaned
<1>4. CASE Enter
  <2>1. /\ ~inFlight /\ prompt' = prompt + 1 /\ prompt < MaxPrompts /\ worker' = "queued"
        /\ UNCHANGED <<inFlight, stream, panel>>
    BY <1>4 DEF Enter
  <2>2. worker # "gathering" /\ prompt' \in 0..MaxPrompts
    BY <2>1, MaxPromptsAssumption DEF PanelInv
  <2>3. QED BY <2>1, <2>2 DEF PanelInv, Orphaned
<1>5. CASE BeginSubmit
  BY <1>5 DEF BeginSubmit, PanelInv, Orphaned
<1>6. CASE Gather
  <2>1. /\ worker = "refreshing" /\ worker' = "gathering" /\ UNCHANGED <<prompt, inFlight>>
        /\ stream' = [s \in Streams |-> IF s[1] = prompt THEN "open" ELSE stream[s]]
        /\ panel' = [p \in Ports |-> {}]
    BY <1>6 DEF Gather
  <2>2. \A q \in 1..MaxPrompts, p \in Ports :
          stream'[<<q, p>>] = IF q = prompt THEN "open" ELSE stream[<<q, p>>]
    BY <2>1 DEF Streams
  <2>3. ASSUME NEW q \in 1..MaxPrompts, NEW p \in Ports, q # prompt, stream'[<<q, p>>] = "open"
        PROVE  Orphaned(q, p)'
    <3>1. Orphaned(q, p)
      BY <2>1, <2>2, <2>3 DEF PanelInv
    <3>2. QED BY <2>2, <2>3, <3>1 DEF Orphaned
  <2>4. stream' \in [Streams -> {"none", "open", "done", "failed"}]
    BY <2>1 DEF PanelInv
  <2>5. QED BY <2>1, <2>3, <2>4 DEF PanelInv
<1>7. CASE ClearResponses
  BY <1>7 DEF ClearResponses, PanelInv, Orphaned
<1>8. ASSUME NEW s \in Streams, Token(s) PROVE PanelInv'
  <2> DEFINE q == s[1]
             p == s[2]
  <2>1. /\ q \in 1..MaxPrompts /\ p \in Ports /\ s = <<q, p>> /\ stream[<<q, p>>] = "open"
        /\ panel' = [panel EXCEPT ![p] = @ \cup {q}]
        /\ UNCHANGED <<prompt, worker, inFlight, stream>>
    BY <1>8 DEF Token, Streams
  <2>2. panel' \in [Ports -> SUBSET (1..MaxPrompts)]
    BY <2>1 DEF PanelInv
  <2>3. ASSUME worker' = "gathering", NEW b \in Ports, NEW a \in panel'[b] \ {prompt'}
        PROVE  Orphaned(a, b)'
    <3>1. a \in panel[b] \ {prompt} \/ (a = q /\ b = p /\ a # prompt)
      BY <2>1, <2>3 DEF PanelInv
    <3>2. Orphaned(a, b)
      BY <2>1, <2>3, <3>1 DEF PanelInv
    <3>3. QED BY <2>1, <3>2 DEF Orphaned
  <2>4. ASSUME NEW a \in 1..MaxPrompts, NEW b \in Ports, stream'[<<a, b>>] = "open",
               worker' # "gathering" \/ a # prompt'
        PROVE  Orphaned(a, b)'
    BY <2>1, <2>4 DEF PanelInv, Orphaned
  <2>5. /\ prompt' \in 0..MaxPrompts
        /\ worker' \in {"none", "queued", "refreshing", "gathering"}
        /\ worker' \in {"refreshing", "gathering"} => inFlight' = TRUE
        /\ stream' \in [Streams -> {"none", "open", "done", "failed"}]
    BY <2>1 DEF PanelInv
  <2>6. QED BY <2>2, <2>3, <2>4, <2>5 DEF PanelInv
<1>9. ASSUME NEW s \in Streams, StreamEnds(s) PROVE PanelInv'
  BY <1>9, StreamEndStep
<1>10. QED
  BY <1>1, <1>2, <1>3, <1>4, <1>5, <1>6, <1>7, <1>8, <1>9
     DEF PlaygroundNext, AppNext, playgroundVars

\* A gathered panel shows its prompt only, or also an earlier prompt's whose
\* other stream had failed (app.py:406).
THEOREM PanelsStayUnmixed == PlaygroundSpec => []PanelsUnmixed
<1>1. PanelInv => PanelsUnmixed
  BY DEF PanelInv, PanelsUnmixed, Orphaned
<1>2. AppInit => PanelInv
  BY PanelInit
<1>3. QED BY <1>1, <1>2, PanelStep, PTL DEF PlaygroundSpec

-----------------------------------------------------------------------------
(***************************************************************************)
(* The servers.                                                            *)
(***************************************************************************)
\* The changes of state of servers that nobody tells to stop.
ByItself(from, to) ==
  \/ to = from
  \/ from = "starting" /\ to \in {"up", "failed"}
  \/ from \in {"up", "broken"} /\ to = "died"
  \/ from = "closing" /\ to = "ending"
  \/ from = "ending" /\ to = "stopped"

Evolve ==
  /\ servers' \in Seq(Server) /\ Len(servers) <= Len(servers')
  /\ \A i \in 1..Len(servers) :
       /\ servers'[i].port = servers[i].port /\ servers'[i].model = servers[i].model
       /\ servers'[i].by = servers[i].by /\ servers'[i].late = servers[i].late
       /\ ByItself(servers[i].state, servers'[i].state)
  /\ \A i \in 1..Len(servers') : i > Len(servers) => servers'[i].state = "starting"

NoNewOwn ==
  \A i \in 1..Len(servers') : i > Len(servers) => servers'[i].by # "playground"

NoneClosing == \A i \in 1..Len(servers) : servers[i].state = "closing" => servers[i].late
OwnOver ==
  \A i \in 1..Len(servers) : Own(i) => servers[i].state \notin {"starting", "up", "broken"}
SomeStopping == \E i \in 1..Len(servers) : servers[i].state \in Stopping

\* What the choice of models says of ports.
LEMMA PortFacts ==
  /\ LastPort \in Nat \ {0} /\ Ports = 1..LastPort
  /\ \A p \in Ports : Wanted[p] \in Models
BY ControlConstants DEF LastPort, Ports

\* Indices and members of the sequence of servers.
LEMMA Indices ==
  ASSUME servers \in Seq(Server)
  PROVE  /\ DOMAIN servers = 1..Len(servers) /\ Len(servers) \in Nat
         /\ \A i \in 1..Len(servers) : servers[i] \in Server /\ servers[i] \in Range(servers)
         /\ \A s \in Range(servers) : \E i \in 1..Len(servers) : s = servers[i]
BY DEF Range

\* What evolving servers keep.
LEMMA EvolveKeeps ==
  ASSUME servers \in Seq(Server), Evolve
  PROVE  /\ \A p \in Ports : ServedAt(p) => ServedAt(p)'
         /\ NoneClosing => NoneClosing'
         /\ OwnThere => OwnThere'
         /\ SomeStopping' => SomeStopping
         /\ OwnOver /\ NoNewOwn => OwnOver'
<1>1. /\ DOMAIN servers = 1..Len(servers) /\ DOMAIN servers' = 1..Len(servers')
      /\ Len(servers) \in Nat /\ Len(servers') \in Nat
      /\ \A i \in 1..Len(servers) : i \in 1..Len(servers')
  BY DEF Evolve
<1>2. ASSUME NEW p \in Ports, ServedAt(p) PROVE ServedAt(p)'
  BY <1>1, <1>2 DEF ServedAt, Evolve, ByItself
<1>3. ASSUME NoneClosing PROVE NoneClosing'
  <2>1. ASSUME NEW i \in 1..Len(servers'), servers'[i].state = "closing" PROVE servers'[i].late
    <3>1. CASE i \in 1..Len(servers)
      BY <1>3, <2>1, <3>1 DEF NoneClosing, Evolve, ByItself
    <3>2. CASE i \notin 1..Len(servers)
      BY <1>1, <2>1, <3>2 DEF Evolve
    <3>3. QED BY <3>1, <3>2
  <2>2. QED BY <2>1 DEF NoneClosing
<1>4. OwnThere => OwnThere'
  BY <1>1 DEF OwnThere, Own, Evolve
<1>5. ASSUME SomeStopping' PROVE SomeStopping
  <2>1. PICK i \in 1..Len(servers') : servers'[i].state \in Stopping
    BY <1>5 DEF SomeStopping
  <2>2. i \in 1..Len(servers)
    BY <1>1, <2>1 DEF Evolve, Stopping
  <2>3. QED BY <2>1, <2>2 DEF SomeStopping, Evolve, ByItself, Stopping
<1>6. ASSUME OwnOver, NoNewOwn
      PROVE  OwnOver'
  <2>1. ASSUME NEW i \in 1..Len(servers'), Own(i)'
        PROVE  servers'[i].state \notin {"starting", "up", "broken"}
    <3>1. i \in 1..Len(servers)
      BY <1>1, <1>6, <2>1 DEF NoNewOwn, Own
    <3>2. QED BY <1>6, <2>1, <3>1 DEF OwnOver, Own, Evolve, ByItself
  <2>2. QED BY <2>1 DEF OwnOver
<1>7. QED BY <1>2, <1>3, <1>4, <1>5, <1>6

\* A server that starts.
LEMMA StartedEvolve ==
  ASSUME servers \in Seq(Server), NEW p \in Ports, NEW m \in Models,
         NEW by \in {"playground", "other"}, servers' = Started(p, m, by)
  PROVE  /\ Evolve
         /\ Len(servers') = Len(servers) + 1 /\ servers'[Len(servers) + 1].by = by
<1> DEFINE s == [port |-> p, model |-> m, by |-> by, state |-> "starting", late |-> FALSE]
<1>1. s \in Server /\ s.state = "starting" /\ s.by = by
  BY DEF Server, States
<1>2. servers' = Append(servers, s)
  BY DEF Started, NewServer
<1> HIDE DEF s
<1>3. /\ servers' \in Seq(Server) /\ Len(servers) \in Nat /\ Len(servers') = Len(servers) + 1
      /\ \A i \in 1..Len(servers) : servers'[i] = servers[i]
      /\ servers'[Len(servers) + 1] = s
  BY <1>1, <1>2
<1>4. QED BY <1>1, <1>3 DEF Evolve, ByItself

\* A server that changes its state by itself.
LEMMA BecomesEvolve ==
  ASSUME servers \in Seq(Server), NEW i \in DOMAIN servers, NEW to \in States,
         ByItself(servers[i].state, to), Becomes(i, to)
  PROVE  Evolve /\ Len(servers') = Len(servers)
<1>1. servers' = [servers EXCEPT ![i] = [servers[i] EXCEPT !.state = to]]
  BY DEF Becomes
<1>2. servers[i] \in Server /\ [servers[i] EXCEPT !.state = to] \in Server
  <2>1. servers[i] \in Server
    OBVIOUS
  <2>2. QED BY <2>1 DEF Server
<1>3. /\ servers' \in Seq(Server) /\ Len(servers') = Len(servers)
      /\ servers'[i] = [servers[i] EXCEPT !.state = to]
      /\ \A j \in 1..Len(servers) : j # i => servers'[j] = servers[j]
  BY <1>1, <1>2
<1>4. ASSUME NEW j \in 1..Len(servers)
      PROVE  /\ servers'[j].port = servers[j].port /\ servers'[j].model = servers[j].model
             /\ servers'[j].by = servers[j].by /\ servers'[j].late = servers[j].late
             /\ ByItself(servers[j].state, servers'[j].state)
  <2>1. CASE j = i
    BY <1>2, <1>3, <2>1 DEF Server
  <2>2. CASE j # i
    BY <1>3, <2>2 DEF ByItself
  <2>3. QED BY <2>1, <2>2
<1>5. QED BY <1>3, <1>4 DEF Evolve

\* Servers that do nothing.
LEMMA SameEvolve ==
  ASSUME servers \in Seq(Server), servers' = servers
  PROVE  Evolve /\ Len(servers') = Len(servers) /\ Len(servers) \in Nat
BY DEF Evolve, ByItself

\* Servers of which the playground rewrites the states keep their number and owners.
LEMMA OwnersKept ==
  ASSUME servers \in Seq(Server), servers' \in [DOMAIN servers -> Server],
         \A i \in DOMAIN servers : servers'[i].by = servers[i].by
  PROVE  /\ servers' \in Seq(Server) /\ Len(servers') = Len(servers)
         /\ DOMAIN servers = 1..Len(servers)
         /\ OwnThere' <=> OwnThere
<1>1. DOMAIN servers = 1..Len(servers) /\ Len(servers) \in Nat
  OBVIOUS
<1>2. servers' \in Seq(Server) /\ Len(servers') = Len(servers)
  BY <1>1
<1>3. QED BY <1>1, <1>2 DEF OwnThere, Own

\* Once uvicorn is told to stop no server starts or runs.
LEMMA ToldFacts ==
  ASSUME servers \in Seq(Server), PkillUvicorn
  PROVE  /\ servers' \in Seq(Server) /\ OwnOver'
         /\ OwnThere' <=> OwnThere
<1>1. ASSUME NEW i \in DOMAIN servers
      PROVE  /\ Told(servers[i]) \in Server /\ Told(servers[i]).by = servers[i].by
             /\ Told(servers[i]).state \notin {"starting", "up", "broken"}
  <2>1. servers[i] \in Server
    OBVIOUS
  <2>2. QED BY <2>1 DEF Told, Server, States
<1>2. servers' = [i \in DOMAIN servers |-> Told(servers[i])]
  BY DEF PkillUvicorn
<1>3. /\ servers' \in [DOMAIN servers -> Server]
      /\ \A i \in DOMAIN servers :
           /\ servers'[i].by = servers[i].by
           /\ servers'[i].state \notin {"starting", "up", "broken"}
  BY <1>1, <1>2
<1>4. QED BY <1>3, OwnersKept DEF OwnOver

\* Once their engines are killed no server runs that did not before.
LEMMA KilledFacts ==
  ASSUME servers \in Seq(Server), PkillEngines
  PROVE  /\ servers' \in Seq(Server) /\ (OwnOver => OwnOver')
         /\ OwnThere' <=> OwnThere
<1>1. PICK hit \in SUBSET DOMAIN servers :
        servers' = [i \in DOMAIN servers |->
                     IF i \in hit THEN EngineKilled(servers[i]) ELSE servers[i]]
  BY DEF PkillEngines
<1>2. ASSUME NEW i \in DOMAIN servers
      PROVE  /\ EngineKilled(servers[i]) \in Server
             /\ EngineKilled(servers[i]).by = servers[i].by
             /\ servers[i].state \notin {"starting", "up", "broken"} =>
                  EngineKilled(servers[i]).state = servers[i].state
  <2>1. servers[i] \in Server
    OBVIOUS
  <2>2. QED BY <2>1 DEF EngineKilled, Server, States
<1>3. \A i \in DOMAIN servers : servers[i] \in Server
  OBVIOUS
<1>4. /\ servers' \in [DOMAIN servers -> Server]
      /\ \A i \in DOMAIN servers :
           /\ servers'[i].by = servers[i].by
           /\ servers[i].state \notin {"starting", "up", "broken"} =>
                servers'[i].state = servers[i].state
  BY <1>1, <1>2, <1>3
<1>5. /\ servers' \in Seq(Server) /\ Len(servers') = Len(servers)
      /\ DOMAIN servers = 1..Len(servers) /\ (OwnThere' <=> OwnThere)
  BY <1>4, OwnersKept
<1>6. OwnOver => OwnOver'
  BY <1>4, <1>5 DEF OwnOver, Own
<1>7. QED BY <1>5, <1>6

\* When the sleep is over those that are still closing are known to be late.
LEMMA SleptFacts ==
  ASSUME servers \in Seq(Server), Slept
  PROVE  /\ servers' \in Seq(Server) /\ NoneClosing'
         /\ OwnThere' <=> OwnThere
         /\ OwnOver' <=> OwnOver
         /\ SomeStopping' <=> SomeStopping
<1> DEFINE F(i) == [servers[i] EXCEPT !.late = servers[i].state = "closing"]
<1>1. ASSUME NEW i \in DOMAIN servers
      PROVE  /\ F(i) \in Server /\ F(i).by = servers[i].by /\ F(i).state = servers[i].state
             /\ F(i).state = "closing" => F(i).late
  <2>1. servers[i] \in Server /\ (servers[i].state = "closing") \in BOOLEAN
    OBVIOUS
  <2>2. QED BY <2>1 DEF Server
<1>2. servers' = [i \in DOMAIN servers |-> F(i)]
  BY DEF Slept
<1> HIDE DEF F
<1>3. /\ servers' \in [DOMAIN servers -> Server]
      /\ \A i \in DOMAIN servers :
           /\ servers'[i].by = servers[i].by /\ servers'[i].state = servers[i].state
           /\ servers'[i].state = "closing" => servers'[i].late
  BY <1>1, <1>2
<1>4. /\ servers' \in Seq(Server) /\ Len(servers') = Len(servers)
      /\ DOMAIN servers = 1..Len(servers) /\ (OwnThere' <=> OwnThere)
  BY <1>3, OwnersKept
<1>5. QED BY <1>3, <1>4 DEF NoneClosing, OwnOver, SomeStopping, Own

-----------------------------------------------------------------------------
(***************************************************************************)
(* The steps, by who takes them.                                           *)
(***************************************************************************)
Elsewhere == UNCHANGED <<at, target, started, outcome>>

\* Servers, users and tailers leave the playground where it is.
LEMMA OthersStep ==
  ASSUME ControlTypes,
         \/ UserStarts \/ (\E i \in DOMAIN servers : ServerStep(i))
         \/ (\E p \in Ports : Poll(p)) \/ UNCHANGED controlVars
  PROVE  Elsewhere /\ Evolve /\ NoNewOwn
<1>1. servers \in Seq(Server)
  BY DEF ControlTypes
<1>2. CASE UserStarts
  <2>1. PICK p \in Ports, m \in Models : servers' = Started(p, m, "other")
    BY <1>2 DEF UserStarts
  <2>2. /\ Evolve /\ Len(servers') = Len(servers) + 1 /\ Len(servers) \in Nat
        /\ servers'[Len(servers) + 1].by = "other"
    BY <1>1, <2>1, StartedEvolve
  <2>3. QED BY <1>2, <2>2 DEF UserStarts, Elsewhere, NoNewOwn
<1>3. ASSUME NEW i \in DOMAIN servers, ServerStep(i)
      PROVE  Elsewhere /\ Evolve /\ Len(servers') = Len(servers)
  <2>1. Elsewhere
    BY <1>3 DEF ServerStep, ServerWrites, ServerComesUp, ServerFails, ServerDies, ServerCloses,
                ServerEnds, Elsewhere
  <2>2. CASE ServerWrites(i)
    BY <1>1, <2>1, <2>2, SameEvolve DEF ServerWrites
  <2>3. CASE ~ServerWrites(i)
    <3>1. PICK to \in States : ByItself(servers[i].state, to) /\ Becomes(i, to)
      BY <1>3, <2>3 DEF ServerStep, ServerComesUp, ServerFails, ServerDies, ServerCloses,
                        ServerEnds, States, ByItself
    <3>2. QED BY <1>1, <2>1, <3>1, BecomesEvolve
  <2>4. QED BY <2>2, <2>3
<1>4. CASE (\E p \in Ports : Poll(p)) \/ UNCHANGED controlVars
  <2>1. servers' = servers /\ Elsewhere
    BY <1>4 DEF Poll, controlVars, Elsewhere
  <2>2. Evolve /\ Len(servers') = Len(servers) /\ Len(servers) \in Nat
    BY <1>1, <2>1, SameEvolve
  <2>3. QED BY <2>1, <2>2 DEF NoNewOwn
<1>5. ASSUME Elsewhere, Evolve, Len(servers') = Len(servers)
      PROVE  NoNewOwn
  <2>1. Len(servers) \in Nat
    BY <1>1
  <2>2. QED BY <1>5, <2>1 DEF NoNewOwn
<1>6. QED BY <1>2, <1>3, <1>4, <1>5

\* The steps in which the playground looks, waits and decides.
Looks ==
  \/ Begin \/ Probe \/ SpawnFails \/ Spawned \/ WaitForHealth \/ WaitForModel
  \/ StopTailers \/ Return \/ Quit \/ Cleaned \/ (Cleanup /\ ~started)

\* The steps in which it stops servers.
Stops == StopServers \/ StopEngines \/ Slept \/ Cleanup \/ CleanupEngines

\* What stopping does to the servers as a whole.
LEMMA StopsFacts ==
  ASSUME servers \in Seq(Server), Stops
  PROVE  servers' \in Seq(Server) /\ (OwnThere' <=> OwnThere)
<1>1. CASE PkillUvicorn
  BY <1>1, ToldFacts
<1>2. CASE PkillEngines
  BY <1>2, KilledFacts
<1>3. CASE Slept
  BY <1>3, SleptFacts
<1>4. CASE servers' = servers
  BY <1>4 DEF OwnThere, Own
<1>5. QED BY <1>1, <1>2, <1>3, <1>4 DEF Stops, StopServers, StopEngines, Cleanup, CleanupEngines

\* Every step of the playground keeps the types of its own variables.
LEMMA TypesStep ==
  ASSUME ControlTypes, Looks \/ Spawn \/ Stops
  PROVE  at' \in Places /\ target' \in Ports /\ started' \in BOOLEAN
<1>1. /\ LastPort \in Nat \ {0} /\ Ports = 1..LastPort
      /\ at \in Places /\ target \in Ports /\ started \in BOOLEAN
  BY PortFacts DEF ControlTypes
<1>2. ASSUME NEW place \in Places, NEW then \in Places, Advance(place, then)
      PROVE  at' \in Places /\ target' \in Ports
  BY <1>1, <1>2 DEF Advance, GoTo
<1>3. ASSUME NEW place \in Places, NEW p \in Ports, GoTo(place, p)
      PROVE  at' \in Places /\ target' \in Ports
  BY <1>1, <1>3 DEF GoTo
<1>4. started' \in BOOLEAN
  BY <1>1 DEF Looks, Stops, Begin, Probe, Slept, SpawnFails, Spawned, WaitForHealth,
              WaitForModel, StopTailers, Return, Quit, Cleaned, Cleanup, CleanupEngines,
              StopServers, StopEngines, Spawn, GivesUp
<1>5. 1 \in Ports /\ (target < LastPort => target + 1 \in Ports)
  BY <1>1
<1>6. CASE Begin \/ SpawnFails \/ Return \/ Quit \/ Cleaned \/ Spawn \/ Stops
  BY <1>1, <1>3, <1>4, <1>5, <1>6
     DEF Begin, SpawnFails, Return, Quit, Cleaned, Spawn, Stops, StopServers, StopEngines, Slept,
         Cleanup, CleanupEngines, Places, Ensuring
<1>7. CASE Probe \/ Spawned \/ WaitForHealth \/ WaitForModel \/ StopTailers
  BY <1>2, <1>3, <1>4, <1>5, <1>7
     DEF Probe, Spawned, WaitForHealth, WaitForModel, StopTailers, GivesUp, Places, Ensuring
<1>8. QED BY <1>6, <1>7 DEF Looks, Stops

\* Types hold in every step.
LEMMA ControlTypesStep ==
  ASSUME ControlTypes, ControlNext \/ Quit \/ UNCHANGED controlVars
  PROVE  ControlTypes'
<1>1. CASE \/ UserStarts \/ (\E i \in DOMAIN servers : ServerStep(i))
           \/ (\E p \in Ports : Poll(p)) \/ UNCHANGED controlVars
  BY <1>1, OthersStep DEF ControlTypes, Elsewhere, Evolve
<1>2. CASE Looks \/ Spawn \/ Stops
  <2>1. at' \in Places /\ target' \in Ports /\ started' \in BOOLEAN
    BY <1>2, TypesStep
  <2>2. servers' \in Seq(Server)
    <3>1. servers \in Seq(Server)
      BY DEF ControlTypes
    <3>2. CASE Stops
      BY <3>1, <3>2, StopsFacts
    <3>3. CASE Spawn
      <4>1. target \in Ports /\ Wanted[target] \in Models
        BY PortFacts DEF ControlTypes
      <4>2. servers' = Started(target, Wanted[target], "playground")
        BY <3>3 DEF Spawn
      <4>3. QED BY <3>1, <4>1, <4>2, StartedEvolve DEF Evolve
    <3>4. CASE servers' = servers
      BY <3>1, <3>4
    <3>5. Stops \/ Spawn \/ servers' = servers
      BY <1>2 DEF Looks, Begin, Probe, SpawnFails, Spawned, WaitForHealth, WaitForModel,
                  StopTailers, Return, Quit, Cleaned, Stops
    <3>6. QED BY <3>2, <3>3, <3>4, <3>5
  <2>3. QED BY <2>1, <2>2 DEF ControlTypes
<1>3. QED BY <1>1, <1>2 DEF ControlNext, Ensure, Looks, Stops

\* Whatever has loaded a model serves it, unless it is closing and not late.
LEMMA LoadedServes ==
  ASSUME ControlTypes, NEW p \in Ports, HasLoaded(p), NoneClosing
  PROVE  ServedAt(p)
<1>1. DOMAIN servers = 1..Len(servers)
  BY DEF ControlTypes
<1>2. PICK s \in Range(servers) :
        s.port = p /\ s.model = Wanted[p] /\ s.state \in {"up", "closing"}
  BY DEF HasLoaded, Listening
<1>3. PICK i \in 1..Len(servers) : s = servers[i]
  BY <1>1, <1>2 DEF Range
<1>4. QED BY <1>1, <1>2, <1>3 DEF ServedAt, NoneClosing

\* The mapping's part of the invariant.
LEMMA MapStep ==
  ASSUME ControlTypes, MapInv, ControlNext \/ Quit \/ UNCHANGED controlVars
  PROVE  MapInv'
<1>1. /\ servers \in Seq(Server) /\ servers' \in Seq(Server)
      /\ DOMAIN servers = 1..Len(servers) /\ DOMAIN servers' = 1..Len(servers')
      /\ at \in Places /\ target \in Ports /\ LastPort \in Nat \ {0} /\ Ports = 1..LastPort
  BY ControlTypesStep, PortFacts DEF ControlTypes
<1> DEFINE Calm == at \in (Ensuring \ {"stopping", "slept"}) \cup {"selected"}
           Mapped(place, result) ==
             place = "ready" \/ (place \in {"untail", "returned"} /\ result = "loaded")
<1>2. /\ Calm => NoneClosing
      /\ at = "model" => \A p \in 1..(target - 1) : ServedAt(p)
      /\ Mapped(at, outcome) => \A p \in Ports : ServedAt(p)
  BY <1>1 DEF MapInv, NoneClosing
<1>3. ASSUME Evolve PROVE (NoneClosing => NoneClosing')
                          /\ \A p \in Ports : ServedAt(p) => ServedAt(p)'
  BY <1>1, <1>3, EvolveKeeps
<1>4. ASSUME Calm' => NoneClosing',
             at' = "model" => \A p \in 1..(target' - 1) : ServedAt(p)',
             Mapped(at', outcome') => \A p \in Ports : ServedAt(p)'
      PROVE  MapInv'
  BY <1>1, <1>4 DEF MapInv, NoneClosing
<1>5. CASE \/ UserStarts \/ (\E i \in DOMAIN servers : ServerStep(i))
           \/ (\E p \in Ports : Poll(p)) \/ UNCHANGED controlVars
  <2>1. Elsewhere /\ Evolve
    BY <1>5, OthersStep DEF ControlTypes
  <2>2. QED BY <1>1, <1>2, <1>3, <1>4, <2>1 DEF Elsewhere
<1>6. ASSUME servers' = servers
      PROVE  (NoneClosing => NoneClosing') /\ \A p \in Ports : ServedAt(p) => ServedAt(p)'
  BY <1>6 DEF NoneClosing, ServedAt
\* The steps that lead to where nothing is promised.
<1>7. CASE StopServers \/ StopEngines \/ SpawnFails \/ Quit \/ Cleaned \/ Cleanup \/ CleanupEngines
  <2>1. /\ at' \in {"stopping", "slept", "untail", "exit", "exiting", "cleaned", "exited"}
        /\ at' = "untail" => outcome' # "loaded"
    BY <1>7 DEF StopServers, StopEngines, SpawnFails, Quit, Cleaned, Cleanup, CleanupEngines, GoTo
  <2>2. QED BY <1>4, <2>1 DEF Ensuring
\* The steps before the first model is awaited.
<1>8. CASE Begin \/ Probe \/ Spawned \/ WaitForHealth
  <2>1. /\ at \in {"selected", "probe", "spawned", "health"} /\ servers' = servers
        /\ at' \in {"probe", "model", "stop", "start", "health", "untail"}
        /\ at' = "model" => target' = 1
        /\ at' = "untail" => outcome' = "failed"
    BY <1>8 DEF Begin, Probe, Spawned, WaitForHealth, GivesUp, Advance, GoTo
  <2>2. NoneClosing' /\ (at' = "model" => 1..(target' - 1) = {})
    BY <1>2, <1>6, <2>1 DEF Ensuring
  <2>3. QED BY <1>4, <2>1, <2>2
<1>9. CASE Slept
  <2>1. at' = "start"
    BY <1>9 DEF Slept, GoTo
  <2>2. NoneClosing'
    BY <1>1, <1>9, SleptFacts
  <2>3. QED BY <1>4, <2>1, <2>2
<1>10. CASE Spawn
  <2>1. at = "start" /\ at' = "spawned" /\ servers' = Started(target, Wanted[target], "playground")
    BY <1>10 DEF Spawn, GoTo
  <2>2. Evolve
    BY <1>1, <2>1, PortFacts, StartedEvolve
  <2>3. QED BY <1>2, <1>3, <1>4, <2>1, <2>2 DEF Ensuring
<1>11. CASE WaitForModel
  <2>1. at = "model" /\ servers' = servers /\ NoneClosing
    BY <1>2, <1>11 DEF WaitForModel, Ensuring
  <2>2. CASE HasLoaded(target)
    <3>1. \A p \in 1..target : ServedAt(p)
      BY <1>1, <1>2, <2>1, <2>2, LoadedServes
    <3>2. \A p \in 1..target : ServedAt(p)'
      BY <1>1, <1>6, <2>1, <3>1
    <3>3. \/ at' = "model" /\ target' = target + 1
          \/ at' = "untail" /\ target = LastPort
      BY <1>1, <1>11, <2>2 DEF WaitForModel, GoTo
    <3>4. QED BY <1>1, <1>4, <1>6, <2>1, <3>2, <3>3
  <2>3. CASE ~HasLoaded(target)
    <3>1. at' = "untail" /\ outcome' = "failed"
      BY <1>11, <2>3 DEF WaitForModel, GivesUp, GoTo
    <3>2. QED BY <1>4, <3>1 DEF Ensuring
  <2>4. QED BY <2>2, <2>3
<1>12. CASE StopTailers \/ Return
  <2>1. /\ at \in {"untail", "returned"} /\ servers' = servers /\ outcome' = outcome
        /\ at' \in {"untail", "returned", "ready", "sorry", "exit"}
        /\ at' = "ready" => outcome = "loaded"
    BY <1>12 DEF StopTailers, Return, Advance, GoTo
  <2>2. QED BY <1>2, <1>4, <1>6, <2>1 DEF Ensuring
<1>13. QED
  BY <1>5, <1>7, <1>8, <1>9, <1>10, <1>11, <1>12 DEF ControlNext, Ensure

\* The cleanup's part of the invariant.
LEMMA CleanStep ==
  ASSUME ControlTypes, CleanInv, ControlNext \/ Quit \/ UNCHANGED controlVars
  PROVE  CleanInv'
<1>1. /\ servers \in Seq(Server) /\ servers' \in Seq(Server)
      /\ DOMAIN servers = 1..Len(servers) /\ DOMAIN servers' = 1..Len(servers')
      /\ at \in Places /\ target \in Ports /\ LastPort \in Nat \ {0} /\ Ports = 1..LastPort
  BY ControlTypesStep, PortFacts DEF ControlTypes
<1> DEFINE Unflagged == \/ at = "start" /\ target > 1
                        \/ at \in {"spawned", "exited"} \/ outcome = "cut"
           Over == at \in {"exiting", "cleaned"} \/ (at = "exited" /\ outcome # "cut")
           Excused == at \in {"stopping", "slept", "start"} \/ outcome \in {"quit", "cut", "failed"}
<1>2. /\ OwnThere => started = TRUE \/ Unflagged
      /\ started = TRUE \/ at \in {"spawned", "exiting", "cleaned"} => OwnThere
      /\ Over => OwnOver
      /\ SomeStopping => OwnThere \/ Excused
      /\ at \in Ensuring \cup {"selected"} => outcome = "none"
      /\ started \in BOOLEAN /\ started' \in BOOLEAN
  BY <1>1, ControlTypesStep DEF CleanInv, OwnOver, SomeStopping, ControlTypes
<1>3. ASSUME OwnThere' => started' = TRUE \/ Unflagged',
             started' = TRUE \/ at' \in {"spawned", "exiting", "cleaned"} => OwnThere',
             Over' => OwnOver',
             SomeStopping' => OwnThere' \/ Excused',
             at' \in Ensuring \cup {"selected"} => outcome' = "none"
      PROVE  CleanInv'
  BY <1>1, <1>2, <1>3 DEF CleanInv, OwnOver, SomeStopping, Own
<1>4. ASSUME servers' = servers
      PROVE  (OwnThere' <=> OwnThere) /\ (OwnOver' <=> OwnOver) /\ (SomeStopping' <=> SomeStopping)
  BY <1>4 DEF OwnThere, OwnOver, SomeStopping, Own
<1>5. CASE \/ UserStarts \/ (\E i \in DOMAIN servers : ServerStep(i))
           \/ (\E p \in Ports : Poll(p)) \/ UNCHANGED controlVars
  <2>1. Elsewhere /\ Evolve /\ NoNewOwn
    BY <1>5, OthersStep DEF ControlTypes
  <2>2. OwnThere' => OwnThere
    <3>1. ASSUME NEW i \in 1..Len(servers'), Own(i)' PROVE OwnThere
      <4>1. i \in 1..Len(servers)
        BY <1>1, <2>1, <3>1 DEF NoNewOwn, Own
      <4>2. QED BY <1>1, <2>1, <3>1, <4>1 DEF Own, OwnThere, Evolve
    <3>2. QED BY <1>1, <3>1 DEF OwnThere
  <2>3. (OwnThere => OwnThere') /\ (OwnOver => OwnOver') /\ (SomeStopping' => SomeStopping)
    BY <1>1, <2>1, EvolveKeeps
  <2>4. QED BY <1>2, <1>3, <2>1, <2>2, <2>3 DEF Elsewhere
<1>6. CASE StopServers \/ StopEngines
  <2>1. /\ at \in {"stop", "stopping"} /\ at' \in {"stopping", "slept"}
        /\ started' = started /\ outcome' = outcome
    BY <1>6 DEF StopServers, StopEngines, GoTo
  <2>2. OwnThere' <=> OwnThere
    BY <1>1, <1>6, StopsFacts DEF Stops
  <2>3. (OwnThere => started' = TRUE) /\ (started' = TRUE => OwnThere)
    BY <1>2, <2>1 DEF Ensuring
  <2>4. QED BY <1>2, <1>3, <2>1, <2>2, <2>3 DEF Ensuring
<1>7. CASE Spawn
  <2>1. /\ at = "start" /\ at' = "spawned"
        /\ servers' = Started(target, Wanted[target], "playground")
    BY <1>7 DEF Spawn, GoTo
  <2>2. Len(servers) + 1 \in 1..Len(servers') /\ servers'[Len(servers) + 1].by = "playground"
    BY <1>1, <2>1, PortFacts, StartedEvolve
  <2>3. OwnThere'
    BY <1>1, <2>2 DEF OwnThere, Own
  <2>4. outcome' = "none"
    BY <1>2, <1>7, <2>1 DEF Spawn, Ensuring
  <2>5. QED BY <1>3, <2>1, <2>3, <2>4
<1>8. CASE Spawned
  <2>1. /\ at = "spawned" /\ servers' = servers /\ outcome' = outcome /\ OwnThere
        /\ \/ at' = "start" /\ target < LastPort /\ target' = target + 1
           \/ at' = "health" /\ ~(target < LastPort)
    BY <1>2, <1>8 DEF Spawned, Advance, GoTo
  <2>2. target = LastPort => started' = TRUE
    BY <1>8 DEF Spawned
  <2>3. \/ at' = "start" /\ target' > 1
        \/ at' = "health" /\ started' = TRUE
    BY <1>1, <2>1, <2>2
  <2>4. OwnThere' /\ outcome' = "none"
    BY <1>2, <1>4, <2>1 DEF Ensuring
  <2>5. QED BY <1>3, <2>1, <2>3, <2>4
\* Looking does not change who runs; and until servers are started there are none.
<1>9. CASE Begin \/ Probe \/ Slept \/ WaitForHealth \/ WaitForModel \/ StopTailers \/ Return
  <2>0. (OwnThere' <=> OwnThere) /\ (OwnOver' <=> OwnOver) /\ (SomeStopping' <=> SomeStopping)
    <3>1. CASE Slept
      BY <1>1, <3>1, SleptFacts
    <3>2. CASE servers' = servers
      BY <1>4, <3>2
    <3>3. QED BY <1>9, <3>1, <3>2
              DEF Begin, Probe, WaitForHealth, WaitForModel, StopTailers, Return
  <2>1. /\ started' = started
        /\ at \notin {"stopping", "start", "spawned", "exiting", "cleaned", "exited"}
        /\ at' \notin {"stopping", "spawned", "exiting", "cleaned", "exited"}
        /\ at = "slept" => at' = "start" /\ target' = 1
        /\ at' \in Ensuring => at \in Ensuring \cup {"selected"} /\ outcome' = outcome
        /\ outcome' = outcome \/ at \in {"health", "model"}
        /\ at' # "selected"
    BY <1>9 DEF Begin, Probe, Slept, WaitForHealth, WaitForModel, StopTailers, Return, GivesUp,
                Advance, GoTo, Ensuring
  <2>2. OwnThere => started = TRUE \/ outcome = "cut"
    BY <1>2, <2>1
  <2>3. OwnThere => started = TRUE \/ outcome' = "cut"
    BY <1>2, <2>1, <2>2 DEF Ensuring
  <2>4. SomeStopping => OwnThere \/ Excused'
    BY <1>2, <2>1 DEF Ensuring
  <2>5. QED BY <1>2, <1>3, <2>0, <2>1, <2>3, <2>4
<1>10. CASE SpawnFails
  <2>1. /\ servers' = servers /\ started' = started /\ outcome' = "cut" /\ at' = "untail"
    BY <1>10 DEF SpawnFails, GoTo
  <2>2. QED BY <1>2, <1>3, <1>4, <2>1 DEF Ensuring
<1>11. CASE Quit
  <2>1. /\ servers' = servers /\ started' = started /\ at' \in {"untail", "exit"}
        /\ \/ /\ at \in Ensuring /\ outcome' \in {"cut", "quit"}
              /\ at = "spawned" \/ (at = "start" /\ target > 1) => outcome' = "cut"
           \/ at \in {"selected", "ready", "sorry"} /\ outcome' = outcome
    BY <1>11 DEF Quit, GoTo
  <2>2. CASE at \in Ensuring
    <3>1. /\ outcome = "none" /\ at # "exited" /\ outcome' \in {"cut", "quit"}
          /\ at = "spawned" \/ (at = "start" /\ target > 1) => outcome' = "cut"
      BY <1>2, <2>1, <2>2 DEF Ensuring
    <3>2. OwnThere => started = TRUE \/ outcome' = "cut"
      BY <1>2, <3>1
    <3>3. QED BY <1>2, <1>3, <1>4, <2>1, <3>1, <3>2 DEF Ensuring
  <2>3. CASE at \in {"selected", "ready", "sorry"}
    <3>1. outcome' = outcome
      BY <2>1, <2>3 DEF Ensuring
    <3>2. QED BY <1>2, <1>3, <1>4, <2>1, <2>3, <3>1 DEF Ensuring
  <2>4. QED BY <2>1, <2>2, <2>3
<1>12. CASE Cleanup
  <2>1. at = "exit" /\ started' = started /\ outcome' = outcome
    BY <1>12 DEF Cleanup
  <2>2. CASE started = TRUE
    <3>1. PkillUvicorn /\ at' = "exiting"
      BY <1>12, <2>2 DEF Cleanup, GoTo
    <3>2. OwnOver' /\ (OwnThere' <=> OwnThere)
      BY <1>1, <3>1, ToldFacts
    <3>3. QED BY <1>2, <1>3, <2>1, <2>2, <3>1, <3>2 DEF Ensuring
  <2>3. CASE started = FALSE
    <3>1. servers' = servers /\ at' = "exited"
      BY <1>12, <2>3 DEF Cleanup, GoTo
    <3>2. outcome # "cut" => ~OwnThere
      BY <1>2, <2>1, <2>3
    <3>3. ~OwnThere => OwnOver
      BY <1>1 DEF OwnThere, OwnOver
    <3>4. QED BY <1>2, <1>3, <1>4, <2>1, <2>3, <3>1, <3>2, <3>3 DEF Ensuring
  <2>4. QED BY <1>2, <2>2, <2>3
<1>13. CASE Cleaned
  <2>1. /\ at = "cleaned" /\ at' = "exited" /\ servers' = servers /\ started' = FALSE
        /\ outcome' = outcome
    BY <1>13 DEF Cleaned, GoTo
  <2>2. QED BY <1>2, <1>3, <1>4, <2>1 DEF Ensuring
<1>14. CASE CleanupEngines
  <2>1. /\ at = "exiting" /\ at' = "cleaned" /\ started' = started /\ outcome' = outcome
        /\ PkillEngines
    BY <1>14 DEF CleanupEngines, GoTo
  <2>2. (OwnOver => OwnOver') /\ (OwnThere' <=> OwnThere)
    BY <1>1, <2>1, KilledFacts
  <2>3. QED BY <1>2, <1>3, <2>1, <2>2 DEF Ensuring
<1>15. QED
  BY <1>5, <1>6, <1>7, <1>8, <1>9, <1>10, <1>11, <1>12, <1>13, <1>14 DEF ControlNext, Ensure

-----------------------------------------------------------------------------

\* At first nothing has been stopped and nothing is the playground's.
LEMMA ControlStarts == AppInit => ControlInv
<1> SUFFICES ASSUME ControlInit PROVE ControlInv
  BY DEF AppInit
<1>1. LastPort \in Nat \ {0} /\ Ports = 1..LastPort
  BY PortFacts
<1>2. /\ servers \in Seq(Server)
      /\ \A i \in DOMAIN servers :
           servers[i].by # "playground" /\ servers[i].state \in {"starting", "up"}
  <2>1. CASE servers = <<>>
    BY <2>1
  <2>2. ASSUME NEW p \in Ports, NEW m \in Models, NEW state \in {"starting", "up"},
               servers = <<NewServer(p, m, "other", state)>>
        PROVE  /\ servers \in Seq(Server)
               /\ \A i \in DOMAIN servers :
                    servers[i].by # "playground" /\ servers[i].state \in {"starting", "up"}
    <3> DEFINE s == NewServer(p, m, "other", state)
    <3>1. s \in Server /\ s.by # "playground" /\ s.state \in {"starting", "up"}
      BY DEF NewServer, Server, States
    <3> HIDE DEF s
    <3>2. servers = <<s>>
      BY <2>2 DEF s
    <3>3. QED BY <3>1, <3>2
  <2>3. ASSUME NEW m \in [Ports -> Models],
               servers = [p \in Ports |-> NewServer(p, m[p], "other", "up")]
        PROVE  /\ servers \in Seq(Server)
               /\ \A i \in DOMAIN servers :
                    servers[i].by # "playground" /\ servers[i].state \in {"starting", "up"}
    <3>1. /\ DOMAIN servers = 1..LastPort
          /\ \A i \in 1..LastPort :
               /\ servers[i] \in Server
               /\ servers[i].by = "other" /\ servers[i].state = "up"
      BY <1>1, <2>3 DEF NewServer, Server, States
    <3>2. servers \in [1..LastPort -> Server]
      BY <1>1, <2>3, <3>1
    <3>3. QED BY <1>1, <3>1, <3>2
  <2>4. QED BY <2>1, <2>2, <2>3 DEF ControlInit
<1>3. at = "selected" /\ target = 1 /\ started = FALSE /\ outcome = "none"
  BY DEF ControlInit
<1>4. ControlTypes
  <2>1. at \in Places /\ target \in Ports
    BY <1>1, <1>3 DEF Places
  <2>2. started \in BOOLEAN
    BY <1>3
  <2>3. QED BY <1>2, <2>1, <2>2 DEF ControlTypes
<1>5. MapInv /\ CleanInv
  BY <1>2, <1>3 DEF MapInv, CleanInv, OwnThere, Own, Stopping
<1>6. QED BY <1>4, <1>5 DEF ControlInv

\* Every step of the playground keeps the three parts.
LEMMA ControlStep == ControlInv /\ [PlaygroundNext]_playgroundVars => ControlInv'
<1> SUFFICES ASSUME ControlInv, [PlaygroundNext]_playgroundVars PROVE ControlInv'
  OBVIOUS
<1>1. ControlNext \/ Quit \/ UNCHANGED controlVars
  BY DEF PlaygroundNext, QuitApp, AppNext, EnableInput, Enter, BeginSubmit, Gather,
         ClearResponses, Token, StreamEnds, StreamDone, StreamFails, playgroundVars
<1>2. QED BY <1>1, ControlTypesStep, MapStep, CleanStep DEF ControlInv

\* In every state the servers are as the place of the playground says.
THEOREM ControlSound == PlaygroundSpec => []ControlInv
BY ControlStarts, ControlStep, PTL DEF PlaygroundSpec

\* A mapping returned is of servers that have loaded their models and that
\* nobody stopped, or that outlived the sleep after they were told to
\* (server_control.py:65-79, 174-177).
THEOREM MappingServed == PlaygroundSpec => []MappingIsServed
<1>1. ControlInv => MappingIsServed
  <2> SUFFICES ASSUME ControlInv, at = "ready", NEW p \in Ports
               PROVE  \E s \in Range(servers) :
                        /\ s.port = p /\ s.model = Wanted[p]
                        /\ s.state \in {"up", "died"} \/ s.late
    BY DEF MappingIsServed
  <2>1. ServedAt(p)
    BY DEF ControlInv, MapInv
  <2>2. QED BY <2>1 DEF ServedAt, Range
<1>2. QED BY <1>1, ControlSound, PTL

\* After the exit the playground's servers are gone and nobody else's were
\* stopped, with the exception the property names (server_control.py:82-88).
THEOREM CleanupComplete == PlaygroundSpec => []CleanupMatchesStart
<1>1. ControlInv => CleanupMatchesStart
  <2> SUFFICES ASSUME ControlInv, at = "exited" PROVE CleanupMatchesStart
    BY DEF CleanupMatchesStart
  <2>1. \A s \in Range(servers) : \E i \in DOMAIN servers : s = servers[i]
    BY DEF Range
  <2>2. outcome # "cut" =>
          \A s \in Range(servers) : s.by = "playground" => s.state \notin {"starting", "up", "broken"}
    BY <2>1 DEF ControlInv, CleanInv, Own
  <2>3. ASSUME outcome = "loaded", ~OwnThere
        PROVE  \A s \in Range(servers) : s.state \notin {"closing", "ending", "stopped", "broken"}
    BY <2>1, <2>3 DEF ControlInv, CleanInv, Stopping
  <2>4. OwnThere => {s \in Range(servers) : s.by = "playground"} # {}
    BY DEF OwnThere, Own, Range
  <2>5. QED BY <2>2, <2>3, <2>4 DEF CleanupMatchesStart
<1>2. QED BY <1>1, ControlSound, PTL

-----------------------------------------------------------------------------
Text == Seq(Int)
Found == [lines : Seq(Text), rest : Text]

SplitSteps(text, f) ==
  f = [n \in 0..Len(text) |->
         IF n = 0 THEN [lines |-> <<>>, rest |-> <<>>] ELSE Add(f[n - 1], text[n])]

LEMMA SplitIsChosen ==
  ASSUME NEW text
  PROVE  Split(text) = (CHOOSE f : SplitSteps(text, f))[Len(text)]
BY DEF Split, SplitSteps

LEMMA FoundParts ==
  ASSUME NEW l, NEW r, NEW t, t = [lines |-> l, rest |-> r]
  PROVE  t.lines = l /\ t.rest = r
OBVIOUS

\* What a character that ends a line makes of what has been found.
LEMMA AddEnds ==
  ASSUME NEW found, NEW c, EndsLine(c)
  PROVE  /\ Add(found, c).lines = Append(found.lines, found.rest)
         /\ Add(found, c).rest = <<>>
<1> DEFINE l == Append(found.lines, found.rest)
           next == Add(found, c)
<1>1. next = [lines |-> l, rest |-> <<>>]
  BY DEF Add
<1> HIDE DEF l, next
<1>2. next.lines = l /\ next.rest = <<>>
  BY <1>1, FoundParts
<1>3. QED BY <1>2 DEF l, next

\* And what any other makes of it.
LEMMA AddGoesOn ==
  ASSUME NEW found, NEW c, ~EndsLine(c)
  PROVE  /\ Add(found, c) = [lines |-> found.lines, rest |-> Append(found.rest, c)]
         /\ Add(found, c).lines = found.lines
         /\ Add(found, c).rest = Append(found.rest, c)
<1> DEFINE l == found.lines
           r == Append(found.rest, c)
           next == Add(found, c)
<1>1. next = [lines |-> l, rest |-> r]
  BY DEF Add
<1> HIDE DEF l, r, next
<1>2. next.lines = l /\ next.rest = r
  BY <1>1, FoundParts
<1>3. QED BY <1>1, <1>2 DEF l, r, next

LEMMA AddKeepsType ==
  ASSUME NEW found \in Found, NEW c \in Int
  PROVE  Add(found, c) \in Found
<1>1. found.lines \in Seq(Text) /\ found.rest \in Seq(Int) /\ found.rest \in Text
  BY DEF Found, Text
<1>2. Append(found.lines, found.rest) \in Seq(Text)
  BY <1>1
<1>3. Append(found.rest, c) \in Seq(Int) /\ <<>> \in Seq(Int)
  BY <1>1
<1>4. QED BY <1>1, <1>2, <1>3 DEF Add, Found, Text

\* What Split has found after each character.
LEMMA SplitRuns ==
  ASSUME NEW text \in Text
  PROVE  \E f \in [0..Len(text) -> Found] :
           /\ f[0] = [lines |-> <<>>, rest |-> <<>>]
           /\ \A n \in 1..Len(text) : f[n] = Add(f[n - 1], text[n])
           /\ Split(text) = f[Len(text)]
<1> DEFINE base == [lines |-> <<>>, rest |-> <<>>]
           F == Found
           step == [n \in 1..Len(text) |-> [found \in F |-> Add(found, text[n])]]
<1>1. base \in F
  BY DEF Found, Text
<1>2. Len(text) \in Nat /\ \A n \in 1..Len(text) : text[n] \in Int
  BY DEF Text
<1>3. step \in [1..Len(text) -> [F -> F]]
  BY <1>2, AddKeepsType
<1>4. PICK g \in [0..Len(text) -> F] :
        g = [n \in 0..Len(text) |-> IF n = 0 THEN base ELSE step[n][g[n - 1]]]
  <2> DEFINE N == Len(text)
  <2>1. N \in Nat /\ step \in [1..N -> [F -> F]]
    BY <1>2, <1>3
  <2> HIDE DEF base, F, step, N
  <2>2. PICK g \in [0..N -> F] : RecursionUpTo(N, base, step, g)
    BY <1>1, <2>1, NatRecursion
  <2>3. QED BY <2>2 DEF N, RecursionUpTo
<1>5. ASSUME NEW n \in 1..Len(text) PROVE step[n][g[n - 1]] = Add(g[n - 1], text[n])
  <2>1. n - 1 \in 0..Len(text)
    BY <1>2
  <2>2. g[n - 1] \in F
    BY <2>1
  <2>3. QED BY <2>2
<1>6. SplitSteps(text, g)
  <2> HIDE DEF step
  <2>1. \A n \in 0..Len(text) : n # 0 => n \in 1..Len(text)
    BY <1>2
  <2>2. QED BY <1>4, <1>5, <2>1 DEF SplitSteps
<1> DEFINE f == CHOOSE f : SplitSteps(text, f)
<1>7. SplitSteps(text, f) /\ Split(text) = f[Len(text)]
  BY <1>6, SplitIsChosen
<1>8. ASSUME NEW h, SplitSteps(text, h)
      PROVE  h[0] = base /\ \A n \in 1..Len(text) : h[n] = Add(h[n - 1], text[n])
  <2>1. 0 \in 0..Len(text) /\ \A n \in 1..Len(text) : n \in 0..Len(text) /\ n # 0
    BY <1>2
  <2>2. QED BY <1>8, <2>1 DEF SplitSteps
<1> HIDE DEF f
<1>9. f \in [0..Len(text) -> F]
  <2> DEFINE I == {n \in Nat : n <= Len(text) => f[n] \in F}
  <2>1. 0 \in I
    BY <1>1, <1>7, <1>8
  <2>2. ASSUME NEW n \in Nat, n \in I PROVE n + 1 \in I
    <3>1. SUFFICES ASSUME n + 1 <= Len(text) PROVE f[n + 1] \in F
      OBVIOUS
    <3>2. f[n] \in F /\ n + 1 \in 1..Len(text) /\ (n + 1) - 1 = n
      BY <1>2, <2>2, <3>1
    <3>3. f[n + 1] = Add(f[n], text[n + 1])
      BY <1>7, <1>8, <3>2
    <3>4. QED BY <1>2, <3>2, <3>3, AddKeepsType
  <2>3. \A n \in Nat : n \in I
    <3> HIDE DEF I
    <3> QED BY <2>1, <2>2, NatSetInduction
  <2>4. \A n \in 0..Len(text) : f[n] \in F
    BY <1>2, <2>3
  <2>5. f = [n \in 0..Len(text) |-> f[n]]
    BY <1>7 DEF SplitSteps
  <2>6. QED BY <2>4, <2>5
<1>10. QED BY <1>7, <1>8, <1>9

-----------------------------------------------------------------------------
LEMMA SubSeqGrows ==
  ASSUME NEW text \in Text, NEW m \in 1..Len(text), NEW k \in (m - 1)..(Len(text) - 1)
  PROVE  SubSeq(text, m, k + 1) = Append(SubSeq(text, m, k), text[k + 1])
<1> DEFINE c == text[k + 1]
           s == SubSeq(text, m, k)
<1>1. text \in Seq(Int) /\ Len(text) \in Nat /\ m \in Nat /\ k + 1 \in m..Len(text)
  BY DEF Text
<1>2. c \in Int /\ \A i \in m..k : text[i] \in Int
  BY <1>1
<1>3. s \in Seq(Int)
  BY <1>1, <1>2, SubSeqProperties
<1>4. SubSeq(text, m, k + 1) = SubSeq(text, m, (k + 1) - 1) \o <<text[k + 1]>>
  BY <1>1, SubSeqRecursiveSecond
<1>5. (k + 1) - 1 = k
  BY <1>1
<1>6. Append(s, c) = s \o <<c>>
  <2> HIDE DEF s, c
  <2> QED BY <1>2, <1>3, AppendIsConcat
<1>7. QED BY <1>4, <1>5, <1>6

\* Texts that agree up to k have the same parts up to k.
SameUpTo(text, other, k) ==
  k <= Len(text) /\ k <= Len(other) /\ \A i \in 1..k : text[i] = other[i]

LEMMA SameSubSeq ==
  ASSUME NEW text \in Text, NEW other \in Text, NEW k \in Nat, SameUpTo(text, other, k),
         NEW m \in Nat \ {0}, NEW n \in Int, n <= k
  PROVE  SubSeq(text, m, n) = SubSeq(other, m, n) /\ SubSeq(text, m, n) \in Text
<1> DEFINE s == SubSeq(text, m, n)
           t == SubSeq(other, m, n)
<1>1. /\ Len(text) \in Nat /\ Len(other) \in Nat /\ k <= Len(text) /\ k <= Len(other)
      /\ text \in Seq(Int) /\ other \in Seq(Int) /\ m \in Int
  BY DEF SameUpTo, Text
<1>2. \A i \in m..n : i \in 1..Len(text) /\ i \in 1..Len(other) /\ i \in 1..k
  BY <1>1
<1>3. \A i \in m..n : text[i] \in Int /\ other[i] \in Int /\ text[i] = other[i]
  BY <1>1, <1>2 DEF SameUpTo
<1>4. /\ s \in Seq(Int) /\ Len(s) = IF m <= n THEN n - m + 1 ELSE 0
      /\ \A i \in 1..(n - m + 1) : s[i] = text[m + i - 1]
  BY <1>1, <1>3, SubSeqProperties
<1>5. /\ t \in Seq(Int) /\ Len(t) = IF m <= n THEN n - m + 1 ELSE 0
      /\ \A i \in 1..(n - m + 1) : t[i] = other[m + i - 1]
  BY <1>1, <1>3, SubSeqProperties
<1> HIDE DEF s, t
<1>6. ASSUME NEW i \in 1..Len(s) PROVE s[i] = t[i]
  <2>1. i \in 1..(n - m + 1) /\ m + i - 1 \in m..n
    BY <1>4
  <2>2. s[i] = text[m + i - 1] /\ t[i] = other[m + i - 1]
    BY <1>4, <1>5, <2>1
  <2>3. QED BY <1>3, <2>1, <2>2
<1>7. s = t
  BY <1>4, <1>5, <1>6, SeqEqual
<1>8. QED BY <1>4, <1>7 DEF s, t, Text

-----------------------------------------------------------------------------
LastEnd(ends, lines) == IF lines = <<>> THEN 0 ELSE ends[Len(lines)]

EndsUpTo(ends, lines, text, k) ==
  /\ \A j \in DOMAIN lines : \A i \in 1..(j - 1) : ends[i] < ends[j]
  /\ \A i \in 1..k : EndsLine(text[i]) <=> \E j \in DOMAIN lines : ends[j] = i
  /\ \A j \in DOMAIN lines :
       lines[j] = SubSeq(text, IF j = 1 THEN 1 ELSE ends[j - 1] + 1, ends[j] - 1)

\* Up to k the text consists of `lines', each ended, and of `rest', which is
\* not.
CutUpTo(lines, rest, text, k) ==
  \E ends \in [DOMAIN lines -> 1..k] :
    EndsUpTo(ends, lines, text, k) /\ rest = SubSeq(text, LastEnd(ends, lines) + 1, k)

LEMMA LastEndType ==
  ASSUME NEW lines \in Seq(Text), NEW k \in Nat, NEW ends \in [DOMAIN lines -> 1..k]
  PROVE  /\ DOMAIN lines = 1..Len(lines) /\ Len(lines) \in Nat
         /\ LastEnd(ends, lines) \in 0..k
         /\ Len(lines) # 0 => LastEnd(ends, lines) = ends[Len(lines)]
         /\ Len(lines) = 0 => LastEnd(ends, lines) = 0
<1>1. DOMAIN lines = 1..Len(lines) /\ Len(lines) \in Nat /\ (lines = <<>> <=> Len(lines) = 0)
  BY LenProperties, EmptySeq
<1>2. Len(lines) # 0 => ends[Len(lines)] \in 1..k
  BY <1>1
<1>3. QED BY <1>1, <1>2 DEF LastEnd

LEMMA CutOfNothing ==
  ASSUME NEW text \in Text
  PROVE  CutUpTo(<<>>, <<>>, text, 0)
<1> DEFINE lines == <<>>
           ends == [j \in DOMAIN lines |-> 1]
<1>1. DOMAIN lines = {}
  OBVIOUS
<1>2. ends \in [DOMAIN lines -> 1..0] /\ EndsUpTo(ends, lines, text, 0)
  BY <1>1 DEF EndsUpTo
<1>3. SubSeq(text, LastEnd(ends, lines) + 1, 0) = <<>>
  <2>1. LastEnd(ends, lines) = 0
    BY DEF LastEnd
  <2>2. SubSeq(text, 1, 0) = <<>>
    BY SubSeqEmpty
  <2>3. QED BY <2>1, <2>2
<1>4. QED BY <1>2, <1>3 DEF CutUpTo

\* What follows the last end of a line has no end of a line.
LEMMA RestUnended ==
  ASSUME NEW lines \in Seq(Text), NEW rest, NEW text \in Text, NEW k \in 0..Len(text),
         CutUpTo(lines, rest, text, k)
  PROVE  rest \in Text /\ \A i \in 1..Len(rest) : ~EndsLine(rest[i])
<1>1. PICK ends \in [DOMAIN lines -> 1..k] :
        EndsUpTo(ends, lines, text, k) /\ rest = SubSeq(text, LastEnd(ends, lines) + 1, k)
  BY DEF CutUpTo
<1> DEFINE last == LastEnd(ends, lines)
           m == last + 1
<1>2. k \in Nat /\ Len(text) \in Nat /\ text \in Seq(Int)
  BY DEF Text
<1>3. last \in 0..k /\ DOMAIN lines = 1..Len(lines) /\ Len(lines) \in Nat
      /\ (Len(lines) # 0 => last = ends[Len(lines)])
  BY <1>2, LastEndType
<1> HIDE DEF last
<1>4. m \in Int /\ k \in Int /\ \A i \in m..k : text[i] \in Int
  BY <1>2, <1>3
<1>5. /\ rest \in Seq(Int) /\ Len(rest) = IF m <= k THEN k - m + 1 ELSE 0
      /\ \A i \in 1..(k - m + 1) : rest[i] = text[m + i - 1]
  <2>1. rest = SubSeq(text, m, k)
    BY <1>1 DEF last
  <2> HIDE DEF m
  <2>2. QED BY <1>4, <2>1, SubSeqProperties
<1>6. ASSUME NEW i \in 1..Len(rest), EndsLine(rest[i]) PROVE FALSE
  <2>1. i \in 1..(k - m + 1) /\ last + i \in 1..k /\ m + i - 1 = last + i
    BY <1>2, <1>3, <1>5
  <2>2. EndsLine(text[last + i])
    BY <1>5, <1>6, <2>1
  <2>3. PICK j \in DOMAIN lines : ends[j] = last + i
    BY <1>1, <2>1, <2>2 DEF EndsUpTo
  <2>4. Len(lines) # 0 /\ Len(lines) \in DOMAIN lines /\ ends[Len(lines)] = last
    BY <1>3, <2>3
  <2>5. j = Len(lines) \/ j \in 1..(Len(lines) - 1)
    BY <1>3, <2>3
  <2>6. ends[j] <= last
    <3>1. CASE j = Len(lines)
      BY <2>3, <2>4, <3>1, <1>3, <2>1
    <3>2. CASE j \in 1..(Len(lines) - 1)
      <4>1. ends[j] < ends[Len(lines)]
        BY <1>1, <2>4, <3>2 DEF EndsUpTo
      <4>2. ends[j] \in Int /\ last \in Int
        BY <1>3, <2>3
      <4>3. QED BY <2>4, <4>1, <4>2
    <3>3. QED BY <2>5, <3>1, <3>2
  <2>7. QED BY <1>3, <2>1, <2>3, <2>6
<1>7. QED BY <1>5, <1>6 DEF Text
\* One character more.
LEMMA CutStep ==
  ASSUME NEW lines \in Seq(Text), NEW rest, NEW text \in Text, NEW k \in Nat, k + 1 <= Len(text),
         CutUpTo(lines, rest, text, k), NEW found, found.lines = lines, found.rest = rest,
         found \in Found
  PROVE  LET next == Add(found, text[k + 1])
         IN  CutUpTo(next.lines, next.rest, text, k + 1)
<1> DEFINE c == text[k + 1]
           next == Add(found, c)
<1>1. PICK ends \in [DOMAIN lines -> 1..k] :
        EndsUpTo(ends, lines, text, k) /\ rest = SubSeq(text, LastEnd(ends, lines) + 1, k)
  BY DEF CutUpTo
<1> DEFINE last == LastEnd(ends, lines)
           L == Len(lines)
<1>2. Len(text) \in Nat /\ text \in Seq(Int)
  BY DEF Text
<1>3. /\ last \in 0..k /\ DOMAIN lines = 1..L /\ L \in Nat
      /\ L # 0 => last = ends[L]
      /\ L = 0 => last = 0
  BY LastEndType
<1>4. rest \in Text
  <2>1. k \in 0..Len(text)
    BY <1>2
  <2>2. QED BY <2>1, RestUnended
<1>5. c \in Int
  BY <1>2
<1>6. CASE EndsLine(c)
  <2>1. next.lines = Append(lines, rest) /\ next.rest = <<>>
    BY <1>6, AddEnds
  <2> DEFINE more == Append(lines, rest)
             ends2 == [j \in DOMAIN more |-> IF j = L + 1 THEN k + 1 ELSE ends[j]]
  <2>2. /\ more \in Seq(Text) /\ Len(more) = L + 1 /\ more # <<>>
        /\ \A j \in 1..L : more[j] = lines[j]
        /\ more[L + 1] = rest
    BY <1>4, AppendProperties
  <2>3. DOMAIN more = 1..(L + 1)
    BY <2>2, LenProperties
  <2>4. ends2[L + 1] = k + 1 /\ \A j \in 1..L : ends2[j] = ends[j] /\ ends[j] \in 1..k
    BY <1>3, <2>3
  <2> HIDE DEF L, last, more, next, c
  <2>5. ends2 \in [DOMAIN more -> 1..(k + 1)]
    <3>1. ASSUME NEW j \in DOMAIN more PROVE ends2[j] \in 1..(k + 1)
      <4>1. j \in 1..(L + 1)
        BY <2>3
      <4>2. j = L + 1 \/ j \in 1..L
        BY <1>3, <4>1
      <4> HIDE DEF ends2
      <4>3. QED BY <2>4, <4>2
    <3>2. QED BY <3>1
  <2> HIDE DEF ends2
  <2>6. ASSUME NEW j \in DOMAIN more, NEW i \in 1..(j - 1) PROVE ends2[i] < ends2[j]
    <3>1. i \in 1..L /\ (j = L + 1 \/ (j \in 1..L /\ i \in 1..(j - 1)))
      BY <1>3, <2>3
    <3>2. CASE j = L + 1
      BY <2>4, <3>1, <3>2
    <3>3. CASE j \in 1..L
      <4>1. ends[i] < ends[j]
        BY <1>1, <1>3, <3>3 DEF EndsUpTo
      <4>2. QED BY <2>4, <3>1, <3>3, <4>1
    <3>4. QED BY <3>1, <3>2, <3>3
  <2>7. ASSUME NEW i \in 1..(k + 1)
        PROVE  EndsLine(text[i]) <=> \E j \in DOMAIN more : ends2[j] = i
    <3>1. CASE i = k + 1
      <4>1. EndsLine(text[i]) /\ L + 1 \in DOMAIN more
        BY <1>3, <1>6, <2>3, <3>1 DEF c
      <4>2. QED BY <2>4, <3>1, <4>1
    <3>2. CASE i \in 1..k
      <4>1. EndsLine(text[i]) <=> \E j \in DOMAIN lines : ends[j] = i
        BY <1>1, <3>2 DEF EndsUpTo
      <4>2. (\E j \in DOMAIN lines : ends[j] = i) => \E j \in DOMAIN more : ends2[j] = i
        BY <1>3, <2>3, <2>4
      <4>3. ASSUME NEW j \in DOMAIN more, ends2[j] = i PROVE \E h \in DOMAIN lines : ends[h] = i
        <5>1. j # L + 1
          BY <2>4, <3>2, <4>3
        <5>2. j \in 1..L
          BY <1>3, <2>3, <5>1
        <5>3. QED BY <1>3, <2>4, <4>3, <5>2
      <4>4. QED BY <4>1, <4>2, <4>3
    <3>3. QED BY <3>1, <3>2
  <2>8. ASSUME NEW j \in DOMAIN more
        PROVE  more[j] = SubSeq(text, IF j = 1 THEN 1 ELSE ends2[j - 1] + 1, ends2[j] - 1)
    <3>1. CASE j = L + 1
      <4>1. (IF j = 1 THEN 1 ELSE ends2[j - 1] + 1) = last + 1
        <5>1. CASE L = 0
          BY <1>3, <3>1, <5>1
        <5>2. CASE L # 0
          <6>1. j - 1 = L /\ L \in 1..L /\ j # 1
            BY <1>3, <3>1, <5>2
          <6>2. QED BY <1>3, <2>4, <5>2, <6>1
        <5>3. QED BY <5>1, <5>2
      <4>2. ends2[j] - 1 = k
        BY <2>4, <3>1
      <4>3. QED BY <1>1, <2>2, <3>1, <4>1, <4>2 DEF last
    <3>2. CASE j \in 1..L
      <4>1. j # 1 => j - 1 \in 1..L
        BY <1>3, <3>2
      <4>2. ends2[j] = ends[j] /\ (j # 1 => ends2[j - 1] = ends[j - 1]) /\ more[j] = lines[j]
        BY <2>2, <2>4, <3>2, <4>1
      <4>3. lines[j] = SubSeq(text, IF j = 1 THEN 1 ELSE ends[j - 1] + 1, ends[j] - 1)
        BY <1>1, <1>3, <3>2 DEF EndsUpTo
      <4>4. QED BY <4>2, <4>3
    <3>3. QED BY <1>3, <2>3, <3>1, <3>2
  <2>9. EndsUpTo(ends2, more, text, k + 1)
    BY <2>6, <2>7, <2>8 DEF EndsUpTo
  <2>10. SubSeq(text, LastEnd(ends2, more) + 1, k + 1) = <<>>
    <3>1. LastEnd(ends2, more) = k + 1
      BY <2>2, <2>4 DEF LastEnd
    <3>2. SubSeq(text, (k + 1) + 1, k + 1) = <<>>
      <4> DEFINE m == (k + 1) + 1
                 n == k + 1
      <4>1. m \in Int /\ n \in Int /\ n < m
        OBVIOUS
      <4> HIDE DEF m, n
      <4>2. SubSeq(text, m, n) = <<>>
        BY <4>1, SubSeqEmpty
      <4>3. QED BY <4>2 DEF m, n
    <3>3. QED BY <3>1, <3>2
  <2>11. CutUpTo(more, <<>>, text, k + 1)
    BY <2>5, <2>9, <2>10 DEF CutUpTo
  <2>12. next.lines = more /\ next.rest = <<>>
    BY <2>1 DEF more
  <2>13. QED BY <2>11, <2>12 DEF next, c
<1>7. CASE ~EndsLine(c)
  <2>1. next.lines = lines /\ next.rest = Append(rest, c)
    BY <1>7, AddGoesOn
  <2>2. ends \in [DOMAIN lines -> 1..(k + 1)]
    OBVIOUS
  <2>3. EndsUpTo(ends, lines, text, k + 1)
    <3>1. ASSUME NEW i \in 1..(k + 1)
          PROVE  EndsLine(text[i]) <=> \E j \in DOMAIN lines : ends[j] = i
      <4>1. CASE i = k + 1
        <5>1. \A j \in DOMAIN lines : ends[j] \in 1..k
          OBVIOUS
        <5>2. QED BY <1>7, <4>1, <5>1
      <4>2. CASE i \in 1..k
        BY <1>1, <4>2 DEF EndsUpTo
      <4>3. QED BY <4>1, <4>2
    <3>2. QED BY <1>1, <3>1 DEF EndsUpTo
  <2>4. Append(rest, c) = SubSeq(text, last + 1, k + 1)
    <3>1. last + 1 \in 1..Len(text) /\ k \in ((last + 1) - 1)..(Len(text) - 1)
      BY <1>2, <1>3
    <3> DEFINE m == last + 1
    <3>2. m \in 1..Len(text) /\ k \in (m - 1)..(Len(text) - 1)
      BY <3>1
    <3> HIDE DEF m
    <3>3. SubSeq(text, m, k + 1) = Append(SubSeq(text, m, k), text[k + 1])
      BY <3>2, SubSeqGrows
    <3>4. QED BY <1>1, <3>3 DEF m
  <2>5. CutUpTo(lines, Append(rest, c), text, k + 1)
    BY <2>2, <2>3, <2>4 DEF CutUpTo
  <2>6. QED BY <2>1, <2>5
<1>8. QED BY <1>6, <1>7

\* What a text is cut into up to k depends on the text up to k alone.
LEMMA CutOfSame ==
  ASSUME NEW lines \in Seq(Text), NEW rest, NEW text \in Text, NEW other \in Text, NEW k \in Nat,
         SameUpTo(text, other, k), CutUpTo(lines, rest, text, k)
  PROVE  CutUpTo(lines, rest, other, k)
<1>1. PICK ends \in [DOMAIN lines -> 1..k] :
        EndsUpTo(ends, lines, text, k) /\ rest = SubSeq(text, LastEnd(ends, lines) + 1, k)
  BY DEF CutUpTo
<1>2. LastEnd(ends, lines) \in 0..k /\ DOMAIN lines = 1..Len(lines) /\ Len(lines) \in Nat
  BY LastEndType
<1>3. \A j \in DOMAIN lines : lines[j] = SubSeq(other, IF j = 1 THEN 1 ELSE ends[j - 1] + 1, ends[j] - 1)
  <2>1. SUFFICES ASSUME NEW j \in DOMAIN lines
                 PROVE lines[j] = SubSeq(other, IF j = 1 THEN 1 ELSE ends[j - 1] + 1, ends[j] - 1)
    OBVIOUS
  <2> DEFINE m == IF j = 1 THEN 1 ELSE ends[j - 1] + 1
             n == ends[j] - 1
  <2>2. j # 1 => j - 1 \in DOMAIN lines
    BY <1>2
  <2>3. m \in Nat \ {0} /\ n \in Int /\ n <= k
    BY <2>2
  <2>4. lines[j] = SubSeq(text, m, n)
    BY <1>1 DEF EndsUpTo
  <2> HIDE DEF m, n
  <2>5. SubSeq(text, m, n) = SubSeq(other, m, n)
    BY <2>3, SameSubSeq
  <2>6. QED BY <2>4, <2>5 DEF m, n
<1>4. EndsUpTo(ends, lines, other, k)
  BY <1>1, <1>3 DEF EndsUpTo, SameUpTo
<1>5. rest = SubSeq(other, LastEnd(ends, lines) + 1, k)
  <2> DEFINE m == LastEnd(ends, lines) + 1
  <2>1. m \in Nat \ {0} /\ k \in Int /\ k <= k
    BY <1>2
  <2> HIDE DEF m
  <2>2. SubSeq(text, m, k) = SubSeq(other, m, k)
    BY <2>1, SameSubSeq
  <2>3. QED BY <1>1, <2>2 DEF m
<1>6. QED BY <1>4, <1>5 DEF CutUpTo

\* The part of a text up to k.
LEMMA BeginOfText ==
  ASSUME NEW text \in Text, NEW k \in 0..Len(text)
  PROVE  LET part == SubSeq(text, 1, k)
         IN  part \in Text /\ Len(part) = k /\ \A i \in 1..k : part[i] = text[i]
<1> DEFINE part == SubSeq(text, 1, k)
<1>1. Len(text) \in Nat /\ text \in Seq(Int) /\ k \in Nat /\ \A i \in 1..k : text[i] \in Int
  BY DEF Text
<1>2. 1 \in Int /\ k \in Int /\ k - 1 + 1 = k /\ (~(1 <= k) => k = 0)
  BY <1>1
<1>3. /\ part \in Seq(Int) /\ Len(part) = IF 1 <= k THEN k - 1 + 1 ELSE 0
      /\ \A i \in 1..(k - 1 + 1) : part[i] = text[1 + i - 1]
  BY <1>1, <1>2, SubSeqProperties
<1>4. \A i \in 1..k : 1 + i - 1 = i
  OBVIOUS
<1> HIDE DEF part
<1>5. QED BY <1>2, <1>3, <1>4 DEF Text, part

\* The lines cut off a text up to k are the ended lines of that part of it.
LEMMA CutIsEnded ==
  ASSUME NEW lines \in Seq(Text), NEW rest, NEW text \in Text, NEW k \in 0..Len(text),
         CutUpTo(lines, rest, text, k)
  PROVE  AreEndedLines(lines, SubSeq(text, 1, k))
<1> DEFINE part == SubSeq(text, 1, k)
<1>1. Len(text) \in Nat /\ text \in Seq(Int) /\ k \in Nat
  BY DEF Text
<1>2. part \in Text /\ Len(part) = k /\ \A i \in 1..k : part[i] = text[i]
  BY BeginOfText
<1> HIDE DEF part
<1>3. SameUpTo(text, part, k)
  BY <1>1, <1>2 DEF SameUpTo
<1>4. CutUpTo(lines, rest, part, k)
  BY <1>1, <1>2, <1>3, CutOfSame
<1>5. PICK ends \in [DOMAIN lines -> 1..k] : EndsUpTo(ends, lines, part, k)
  BY <1>4 DEF CutUpTo
<1>6. DOMAIN part = 1..k
  BY <1>2, LenProperties DEF Text
<1>7. EndLines(ends, lines, part)
  BY <1>5, <1>6 DEF EndLines, EndsUpTo
<1>8. QED BY <1>5, <1>6, <1>7 DEF AreEndedLines, part
\* f is what Split has found after each character of a text.
Finds(f, text) ==
  /\ f[0] = [lines |-> <<>>, rest |-> <<>>]
  /\ \A n \in 1..Len(text) : f[n] = Add(f[n - 1], text[n])

EndsNoLine(text) == \A i \in 1..Len(text) : ~EndsLine(text[i])

\* What Split has found after a beginning that ends no line.
LEMMA SplitUnended ==
  ASSUME NEW buffer \in Text, EndsNoLine(buffer), NEW more \in Text,
         NEW all, all = buffer \o more, NEW f, Finds(f, all)
  PROVE  f[Len(buffer)] = [lines |-> <<>>, rest |-> buffer]
<1> USE DEF Finds, EndsNoLine
<1> DEFINE B == Len(buffer)
           I == {n \in Nat : n <= B => f[n] = [lines |-> <<>>, rest |-> SubSeq(buffer, 1, n)]}
<1>1. B \in Nat /\ buffer \in Seq(Int) /\ more \in Seq(Int) /\ Len(more) \in Nat
  BY DEF Text
<1>2. Len(all) = B + Len(more) /\ \A n \in 1..B : all[n] = buffer[n]
  <2>1. \A i \in 1..(B + Len(more)) : all[i] = IF i <= B THEN buffer[i] ELSE more[i - B]
    BY <1>1, ConcatProperties
  <2>2. \A n \in 1..B : n \in 1..(B + Len(more)) /\ n <= B
    BY <1>1
  <2>3. Len(all) = B + Len(more)
    BY <1>1, ConcatProperties
  <2> HIDE DEF B
  <2>4. QED BY <2>1, <2>2, <2>3
<1>3. 0 \in I
  <2>1. SubSeq(buffer, 1, 0) = <<>>
    BY SubSeqEmpty
  <2>2. QED BY <2>1
<1>4. ASSUME NEW n \in Nat, n \in I PROVE n + 1 \in I
  <2>1. SUFFICES ASSUME n + 1 <= B
                 PROVE  f[n + 1] = [lines |-> <<>>, rest |-> SubSeq(buffer, 1, n + 1)]
    OBVIOUS
  <2>2. n + 1 \in 1..B /\ n + 1 \in 1..Len(all) /\ (n + 1) - 1 = n /\ n <= B
    BY <1>1, <1>2, <2>1
  <2>3. f[n] = [lines |-> <<>>, rest |-> SubSeq(buffer, 1, n)]
    BY <1>4, <2>2
  <2>4. f[n + 1] = Add(f[n], buffer[n + 1]) /\ ~EndsLine(buffer[n + 1])
    BY <1>2, <2>2
  <2>5. SubSeq(buffer, 1, n + 1) = Append(SubSeq(buffer, 1, n), buffer[n + 1])
    <3> DEFINE m == 1
    <3>1. m \in 1..Len(buffer) /\ n \in (m - 1)..(Len(buffer) - 1)
      BY <1>1, <2>1
    <3> HIDE DEF m
    <3>2. SubSeq(buffer, m, n + 1) = Append(SubSeq(buffer, m, n), buffer[n + 1])
      BY <3>1, SubSeqGrows
    <3>3. QED BY <3>2 DEF m
  <2>6. Add(f[n], buffer[n + 1]) = [lines |-> <<>>, rest |-> Append(SubSeq(buffer, 1, n), buffer[n + 1])]
    <3> DEFINE r == SubSeq(buffer, 1, n)
               c == buffer[n + 1]
               was == f[n]
    <3> HIDE DEF r, c, was
    <3>1. was = [lines |-> <<>>, rest |-> r] /\ ~EndsLine(c)
      BY <2>3, <2>4 DEF r, c, was
    <3>2. was.lines = <<>> /\ was.rest = r
      BY <3>1, FoundParts
    <3>3. Add(was, c) = [lines |-> was.lines, rest |-> Append(was.rest, c)]
      BY <3>1, AddGoesOn
    <3>4. Add(was, c) = [lines |-> <<>>, rest |-> Append(r, c)]
      BY <3>2, <3>3
    <3>5. QED BY <3>4 DEF r, c, was
  <2>7. QED BY <2>4, <2>5, <2>6
<1>5. B \in I
  <2> HIDE DEF I, B
  <2> QED BY <1>1, <1>3, <1>4, NatSetInduction
<1>6. SubSeq(buffer, 1, B) = buffer
  BY <1>1, SubSeqFull
<1>7. QED BY <1>1, <1>5, <1>6

LEMMA AppendToFeed ==
  ASSUME NEW feed \in Seq(Text), NEW lines \in Seq(Text), NEW line \in Text
  PROVE  feed \o Append(lines, line) = Append(feed \o lines, line)
<1>1. <<line>> \in Seq(Text) /\ feed \o lines \in Seq(Text)
  BY ConcatProperties
<1>2. /\ Append(lines, line) = lines \o <<line>>
      /\ Append(feed \o lines, line) = (feed \o lines) \o <<line>>
  BY <1>1, AppendIsConcat
<1>3. QED BY <1>1, <1>2, ConcatAssociative

\* The part of a text that begins after k.
LEMMA RestOfText ==
  ASSUME NEW text \in Text, NEW k \in 0..Len(text)
  PROVE  LET more == SubSeq(text, k + 1, Len(text))
         IN  /\ more \in Text /\ Len(more) = Len(text) - k
             /\ \A i \in 1..(Len(text) - k) : more[i] = text[k + i]
<1> DEFINE T == Len(text)
           m == k + 1
<1>1. T \in Nat /\ k \in Nat /\ k <= T /\ text \in Seq(Int)
  BY DEF Text
<1>2. m \in Int /\ T \in Int /\ T - m + 1 = T - k /\ (~(m <= T) => T - k = 0)
  BY <1>1
<1>3. \A i \in m..T : text[i] \in Int
  BY <1>1
<1>4. \A i \in 1..(T - k) : m + i - 1 = k + i
  BY <1>1
<1> HIDE DEF m, T
<1>5. /\ SubSeq(text, m, T) \in Seq(Int)
      /\ Len(SubSeq(text, m, T)) = IF m <= T THEN T - m + 1 ELSE 0
      /\ \A i \in 1..(T - m + 1) : SubSeq(text, m, T)[i] = text[m + i - 1]
  BY <1>2, <1>3, SubSeqProperties
<1>6. Len(SubSeq(text, m, T)) = T - k
  BY <1>2, <1>5
<1>7. \A i \in 1..(T - k) : SubSeq(text, m, T)[i] = text[k + i]
  BY <1>2, <1>4, <1>5
<1>8. QED BY <1>5, <1>6, <1>7 DEF m, T, Text

\* To go on with the line begun before is to cut the whole text.
LEMMA SplitGoesOn ==
  ASSUME NEW feed \in Seq(Text), NEW buffer, NEW text \in Text, NEW k \in 0..Len(text),
         CutUpTo(feed, buffer, text, k)
  PROVE  LET found == Split(buffer \o SubSeq(text, k + 1, Len(text)))
         IN  found \in Found /\ CutUpTo(feed \o found.lines, found.rest, text, Len(text))
<1> DEFINE T == Len(text)
           B == Len(buffer)
           more == SubSeq(text, k + 1, T)
           all == buffer \o more
<1>1. buffer \in Text /\ \A i \in 1..Len(buffer) : ~EndsLine(buffer[i])
  BY RestUnended
<1>2. T \in Nat /\ k \in Nat /\ k <= T /\ text \in Seq(Int) /\ B \in Nat /\ buffer \in Seq(Int)
  BY <1>1 DEF Text
<1>3. /\ more \in Seq(Int) /\ Len(more) = T - k
      /\ \A i \in 1..(T - k) : more[i] = text[k + i]
  BY RestOfText DEF Text
<1> HIDE DEF more
<1>4. /\ all \in Text /\ Len(all) = B + (T - k)
      /\ \A i \in 1..(T - k) : all[B + i] = text[k + i]
  <2>0. buffer \in Seq(Int) /\ more \in Seq(Int)
    BY <1>2, <1>3
  <2>1. /\ all \in Seq(Int) /\ Len(all) = B + Len(more)
        /\ \A i \in 1..(B + Len(more)) : all[i] = IF i <= B THEN buffer[i] ELSE more[i - B]
    BY <2>0, ConcatProperties
  <2> HIDE DEF all, B, T
  <2>2. \A i \in 1..(T - k) : B + i \in 1..(B + Len(more)) /\ ~(B + i <= B) /\ (B + i) - B = i
    <3> DEFINE d == T - k
    <3>1. B \in Nat /\ d \in Nat /\ Len(more) = d
      BY <1>2, <1>3
    <3> HIDE DEF d
    <3>2. \A i \in 1..d : B + i \in 1..(B + d) /\ ~(B + i <= B) /\ (B + i) - B = i
      BY <3>1
    <3>3. QED BY <3>1, <3>2 DEF d
  <2>3. \A i \in 1..(T - k) : all[B + i] = more[i]
    BY <2>1, <2>2
  <2>4. QED BY <1>3, <2>1, <2>3 DEF Text
<1>5. PICK f \in [0..Len(all) -> Found] :
        /\ f[0] = [lines |-> <<>>, rest |-> <<>>]
        /\ \A n \in 1..Len(all) : f[n] = Add(f[n - 1], all[n])
        /\ Split(all) = f[Len(all)]
  <2> HIDE DEF all
  <2> QED BY <1>4, SplitRuns
<1>6. f[B] = [lines |-> <<>>, rest |-> buffer]
  <2>1. more \in Text
    BY <1>3 DEF Text
  <2>2. all = buffer \o more /\ Finds(f, all) /\ EndsNoLine(buffer)
    BY <1>1, <1>5 DEF Finds, EndsNoLine
  <2> HIDE DEF all, B
  <2>3. f[Len(buffer)] = [lines |-> <<>>, rest |-> buffer]
    BY <1>1, <2>1, <2>2, SplitUnended
  <2>4. QED BY <2>3 DEF B
<1> HIDE DEF all, B, T
<1>7. \A i \in 0..(T - k) : B + i \in 0..Len(all) /\ f[B + i] \in Found
  BY <1>2, <1>4, <1>5
<1> DEFINE Cuts(i) == CutUpTo(feed \o f[B + i].lines, f[B + i].rest, text, k + i)
           I == {i \in Nat : i <= T - k => Cuts(i)}
<1>8. 0 \in I
  <2>1. B + 0 = B /\ k + 0 = k
    BY <1>2
  <2>2. f[B].lines = <<>> /\ f[B].rest = buffer
    BY <1>6
  <2>3. feed \o <<>> = feed
    BY ConcatEmptySeq
  <2>4. Cuts(0)
    BY <2>1, <2>2, <2>3
  <2>5. QED BY <2>4
<1>9. ASSUME NEW i \in Nat, i \in I PROVE i + 1 \in I
  <2>1. SUFFICES ASSUME i + 1 <= T - k PROVE Cuts(i + 1)
    OBVIOUS
  <2>2. /\ i \in 0..(T - k) /\ i + 1 \in 1..(T - k) /\ i + 1 \in 0..(T - k)
        /\ B + (i + 1) \in 1..Len(all) /\ (B + (i + 1)) - 1 = B + i
        /\ k + (i + 1) = (k + i) + 1 /\ k + i \in Nat /\ (k + i) + 1 <= T
    BY <1>2, <1>4, <2>1
  <2> DEFINE was == f[B + i]
             now == f[B + (i + 1)]
             c == text[(k + i) + 1]
             so == feed \o was.lines
             found == [lines |-> so, rest |-> was.rest]
  <2>3. now = Add(was, c)
    BY <1>4, <1>5, <2>2
  <2>4. CutUpTo(so, was.rest, text, k + i) /\ was \in Found
    BY <1>7, <1>9, <2>1, <2>2
  <2>5. was.lines \in Seq(Text) /\ was.rest \in Text
    BY <2>4 DEF Found
  <2> HIDE DEF was, now, c
  <2>6. so \in Seq(Text)
    BY <2>5, ConcatProperties
  <2>7. found \in Found
    <3> HIDE DEF so
    <3> QED BY <2>5, <2>6 DEF Found
  <2>8. CutUpTo(Add(found, c).lines, Add(found, c).rest, text, (k + i) + 1)
    <3> HIDE DEF so
    <3>1. found.lines = so /\ found.rest = was.rest
      OBVIOUS
    <3>2. k + i \in Nat /\ (k + i) + 1 <= Len(text)
      BY <2>2 DEF T
    <3> DEFINE q == k + i
    <3> HIDE DEF found, q
    <3>3. CutUpTo(Add(found, text[q + 1]).lines, Add(found, text[q + 1]).rest, text, q + 1)
      <4>1. q \in Nat /\ q + 1 <= Len(text) /\ CutUpTo(so, was.rest, text, q)
        BY <2>4, <3>2 DEF q
      <4>2. QED BY <2>6, <2>7, <3>1, <4>1, CutStep
    <3>4. QED BY <3>3 DEF c, q
  <2>9. Add(found, c).lines = feed \o Add(was, c).lines /\ Add(found, c).rest = Add(was, c).rest
    <3>0. found.lines = so /\ found.rest = was.rest
      <4> HIDE DEF so
      <4> QED BY FoundParts
    <3> HIDE DEF found
    <3>1. CASE EndsLine(c)
      <4>1. Add(found, c).lines = Append(so, was.rest) /\ Add(found, c).rest = <<>>
        BY <3>0, <3>1, AddEnds
      <4>2. Add(was, c).lines = Append(was.lines, was.rest) /\ Add(was, c).rest = <<>>
        BY <3>1, AddEnds
      <4>3. feed \o Append(was.lines, was.rest) = Append(so, was.rest)
        BY <2>5, AppendToFeed
      <4> HIDE DEF so
      <4>4. QED BY <4>1, <4>2, <4>3
    <3>2. CASE ~EndsLine(c)
      <4>1. Add(found, c).lines = so /\ Add(found, c).rest = Append(was.rest, c)
        BY <3>0, <3>2, AddGoesOn
      <4>2. Add(was, c).lines = was.lines /\ Add(was, c).rest = Append(was.rest, c)
        BY <3>2, AddGoesOn
      <4>3. QED BY <4>1, <4>2
    <3>3. QED BY <3>1, <3>2
  <2>10. CutUpTo(feed \o now.lines, now.rest, text, k + (i + 1))
    BY <2>2, <2>3, <2>8, <2>9
  <2>11. QED BY <2>10 DEF now
<1>10. T - k \in I
  <2>1. T - k \in Nat
    BY <1>2
  <2> HIDE DEF I
  <2>2. QED BY <1>8, <1>9, <2>1, NatSetInduction
<1>11. B + (T - k) = Len(all) /\ k + (T - k) = T /\ T - k <= T - k /\ Len(all) \in 0..Len(all)
  BY <1>2, <1>4
<1>12. CutUpTo(feed \o f[Len(all)].lines, f[Len(all)].rest, text, T) /\ f[Len(all)] \in Found
  BY <1>5, <1>10, <1>11
<1>13. Split(all) \in Found /\ CutUpTo(feed \o Split(all).lines, Split(all).rest, text, T)
  BY <1>5, <1>12
<1>14. QED BY <1>13 DEF all, more, T

-----------------------------------------------------------------------------
(***************************************************************************)
(* The feeds.  FeedInv holds for every tailer, running or not: what it has *)
(* fed and kept is its log, cut into lines up to where it has read.        *)
(***************************************************************************)
Tailer == [on : BOOLEAN, offset : Nat, buffer : Text, feed : Seq(Text), cuts : SUBSET Nat]

HasRead(t, text) ==
  /\ t.offset \in 0..Len(text) /\ t.offset \in t.cuts /\ t.cuts \subseteq 0..t.offset
  /\ CutUpTo(t.feed, t.buffer, Seen(text, t.cuts), t.offset)

FeedInv ==
  /\ log \in [Ports -> Text]
  /\ tail \in [Ports -> Tailer]
  /\ \A p \in Ports : HasRead(tail[p], log[p])
  /\ at \notin Ensuring \cup {"untail"} => \A p \in Ports : ~tail[p].on
  /\ at = "untail" => \A p \in Ports : p < target => ~tail[p].on

\* How the i-th symbol of a text is seen.
SeenAt(text, cuts, i) ==
  CASE text[i] = Lead /\ i \in cuts -> Undecodable
    [] text[i] = Trail /\ i - 1 \in cuts -> Undecodable
    [] text[i] = Break /\ i \in cuts -> Joined
    [] OTHER -> text[i]

LEMMA SeenType ==
  ASSUME NEW text \in Text, NEW cuts
  PROVE  /\ Seen(text, cuts) \in Text /\ Len(Seen(text, cuts)) = Len(text)
         /\ \A i \in 1..Len(text) : Seen(text, cuts)[i] = SeenAt(text, cuts, i)
<1> DEFINE seen == [i \in 1..Len(text) |-> SeenAt(text, cuts, i)]
<1>1. Len(text) \in Nat /\ \A i \in 1..Len(text) : text[i] \in Int
  BY DEF Text
<1>2. \A i \in 1..Len(text) : SeenAt(text, cuts, i) \in Int
  BY <1>1 DEF SeenAt, Undecodable, Joined
<1>3. seen \in Seq(Int) /\ Len(seen) = Len(text)
  <2> HIDE DEF SeenAt
  <2> QED BY <1>1, <1>2
<1>4. Seen(text, cuts) = seen
  BY DEF Seen, SeenAt
<1>5. \A i \in 1..Len(text) : seen[i] = SeenAt(text, cuts, i)
  OBVIOUS
<1>6. QED BY <1>3, <1>4, <1>5 DEF Text

\* What decides how a symbol is seen is the symbol and two of the cuts.
LEMMA SeenAlike ==
  ASSUME NEW text, NEW other, NEW cuts, NEW more, NEW i, NEW j, text[i] = other[j],
         i \in cuts <=> j \in more, i - 1 \in cuts <=> j - 1 \in more
  PROVE  SeenAt(text, cuts, i) = SeenAt(other, more, j)
BY DEF SeenAt

\* The read that finds the rest of a text sees it as the text is seen with
\* that cut, and changes nothing of how the text before was seen.
LEMMA ReadSees ==
  ASSUME NEW text \in Text, NEW k \in 0..Len(text),
         NEW cuts \in SUBSET (0..k), k \in cuts
  PROVE  LET seen == Seen(text, cuts \cup {Len(text)})
         IN  /\ SameUpTo(Seen(text, cuts), seen, k)
             /\ Decoded(SubSeq(text, k + 1, Len(text))) = SubSeq(seen, k + 1, Len(text))
<1> DEFINE T == Len(text)
           more == cuts \cup {T}
           seen == Seen(text, more)
           chunk == SubSeq(text, k + 1, T)
           rest == SubSeq(seen, k + 1, T)
<1>1. T \in Nat /\ k \in Nat /\ k <= T
  BY DEF Text
<1>2. /\ seen \in Text /\ Len(seen) = T /\ Len(Seen(text, cuts)) = T
      /\ \A i \in 1..T : seen[i] = SeenAt(text, more, i)
      /\ \A i \in 1..T : Seen(text, cuts)[i] = SeenAt(text, cuts, i)
  <2> HIDE DEF more
  <2> QED BY SeenType
<1>3. ASSUME NEW i \in 1..k PROVE SeenAt(text, cuts, i) = SeenAt(text, more, i)
  <2>1. (i \in cuts <=> i \in more) /\ (i - 1 \in cuts <=> i - 1 \in more)
    BY <1>1
  <2> HIDE DEF more
  <2>2. QED BY <2>1, SeenAlike
<1>4. SameUpTo(Seen(text, cuts), seen, k)
  <2> HIDE DEF seen, more
  <2>1. k <= T /\ \A i \in 1..k : i \in 1..T
    BY <1>1
  <2> HIDE DEF T
  <2>2. QED BY <1>2, <1>3, <2>1 DEF SameUpTo
<1>5. /\ chunk \in Text /\ Len(chunk) = T - k
      /\ \A i \in 1..(T - k) : chunk[i] = text[k + i]
  <2> HIDE DEF T, chunk
  <2> QED BY <1>1, RestOfText DEF chunk, T
<1>6. /\ rest \in Text /\ Len(rest) = T - k
      /\ \A i \in 1..(T - k) : rest[i] = seen[k + i]
  <2> HIDE DEF seen
  <2>1. k \in 0..Len(seen)
    BY <1>1, <1>2
  <2>2. QED BY <1>2, <2>1, RestOfText
<1> HIDE DEF chunk, rest, seen
<1>7. ASSUME NEW i \in 1..(T - k)
      PROVE  SeenAt(chunk, {0, T - k}, i) = SeenAt(text, more, k + i)
  <2>1. k + i \in more <=> i \in {0, T - k}
    BY <1>1
  <2>2. (k + i) - 1 \in more <=> i - 1 \in {0, T - k}
    BY <1>1
  <2>3. chunk[i] = text[k + i]
    BY <1>5
  <2> HIDE DEF more, T
  <2>4. QED BY <2>1, <2>2, <2>3, SeenAlike
<1>8. Decoded(chunk) = [i \in 1..(T - k) |-> SeenAt(chunk, {0, T - k}, i)]
  <2> DEFINE d == T - k
             D(i) == CASE chunk[i] = Lead /\ i = d -> Undecodable
                       [] chunk[i] = Trail /\ i = 1 -> Undecodable
                       [] chunk[i] = Break /\ i = d -> Joined
                       [] OTHER -> chunk[i]
             F(i) == SeenAt(chunk, {0, d}, i)
  <2>1. Decoded(chunk) = [i \in 1..d |-> D(i)]
    BY <1>5 DEF Decoded
  <2>2. d \in Nat
    BY <1>1
  <2> HIDE DEF d
  <2>3. ASSUME NEW i \in 1..d PROVE F(i) = D(i)
    <3>1. (i \in {0, d} <=> i = d) /\ (i - 1 \in {0, d} <=> i = 1)
      BY <2>2
    <3>2. QED BY <3>1 DEF SeenAt
  <2> HIDE DEF D, F
  <2>4. [i \in 1..d |-> D(i)] = [i \in 1..d |-> F(i)]
    BY <2>3
  <2>5. QED BY <2>1, <2>4 DEF F, d
<1>9. \A i \in 1..(T - k) : SeenAt(chunk, {0, T - k}, i) = rest[i]
  <2>1. \A i \in 1..(T - k) : k + i \in 1..T
    BY <1>1
  <2> HIDE DEF T, more
  <2>2. QED BY <1>2, <1>6, <1>7, <2>1
<1>10. rest = [i \in 1..(T - k) |-> rest[i]]
  BY <1>6 DEF Text
<1>11. Decoded(chunk) = rest
  <2> DEFINE F(i) == SeenAt(chunk, {0, T - k}, i)
  <2>1. /\ Decoded(chunk) = [i \in 1..(T - k) |-> F(i)] /\ \A i \in 1..(T - k) : F(i) = rest[i]
    BY <1>8, <1>9
  <2> HIDE DEF F, T
  <2>2. QED BY <1>10, <2>1
<1>12. QED BY <1>4, <1>11 DEF chunk, rest, seen

\* A poll reads to the end of the log.
LEMMA PolledReads ==
  ASSUME NEW t \in Tailer, NEW text \in Text, HasRead(t, text)
  PROVE  /\ Polled(t, text) \in Tailer /\ Polled(t, text).on = t.on
         /\ Polled(t, text).offset = Len(text)
         /\ HasRead(Polled(t, text), text)
<1> DEFINE k == t.offset
           T == Len(text)
           more == t.cuts \cup {T}
           seen == Seen(text, more)
           found == Split(t.buffer \o Decoded(SubSeq(text, k + 1, T)))
           l == found.lines
           r == found.rest
           read == [on |-> t.on, offset |-> T, buffer |-> r, feed |-> t.feed \o l, cuts |-> more]
<1>1. /\ t.feed \in Seq(Text) /\ k \in 0..T /\ k \in Nat /\ T \in Nat /\ t.on \in BOOLEAN
      /\ t.cuts \in SUBSET (0..k) /\ k \in t.cuts
      /\ CutUpTo(t.feed, t.buffer, Seen(text, t.cuts), k)
  BY DEF Tailer, HasRead, Text
<1>2. /\ seen \in Text /\ Len(seen) = T /\ Seen(text, t.cuts) \in Text
  <2> HIDE DEF more
  <2> QED BY SeenType
<1>3. /\ SameUpTo(Seen(text, t.cuts), seen, k)
      /\ Decoded(SubSeq(text, k + 1, T)) = SubSeq(seen, k + 1, T)
  <2> HIDE DEF k
  <2> QED BY <1>1, ReadSees
<1> HIDE DEF seen
<1>4. CutUpTo(t.feed, t.buffer, seen, k)
  <2> HIDE DEF k
  <2> QED BY <1>1, <1>2, <1>3, CutOfSame
<1>5. found \in Found /\ CutUpTo(t.feed \o l, r, seen, T)
  <2>1. found = Split(t.buffer \o SubSeq(seen, k + 1, Len(seen)))
    BY <1>2, <1>3
  <2>2. k \in 0..Len(seen)
    BY <1>1, <1>2
  <2> HIDE DEF k, found
  <2>3. found \in Found /\ CutUpTo(t.feed \o found.lines, found.rest, seen, Len(seen))
    BY <1>1, <1>2, <1>4, <2>1, <2>2, SplitGoesOn
  <2>4. QED BY <1>2, <2>3
<1>6. l \in Seq(Text) /\ r \in Text
  <2> HIDE DEF found
  <2> QED BY <1>5 DEF Found
<1>7. Polled(t, text) = read
  <2>1. Polled(t, text) =
          [t EXCEPT !.offset = T, !.buffer = found.rest, !.feed = @ \o found.lines,
                    !.cuts = @ \cup {T}]
    BY DEF Polled, Fed
  <2> HIDE DEF found
  <2> QED BY <2>1 DEF Tailer
<1> HIDE DEF l, r
<1>8. t.feed \o l \in Seq(Text)
  BY <1>1, <1>6, ConcatProperties
<1>9. more \in SUBSET Nat /\ T \in more /\ more \subseteq 0..T
  BY <1>1
<1> DEFINE feed == t.feed \o l
<1> HIDE DEF feed, more, T
<1>10. /\ read \in Tailer /\ read.on = t.on /\ read.offset = T
       /\ read.feed = feed /\ read.buffer = r /\ read.cuts = more
  BY <1>1, <1>6, <1>8, <1>9 DEF Tailer, feed
<1> HIDE DEF read
<1>11. HasRead(read, text)
  <2>1. T \in 0..Len(text)
    BY <1>1 DEF T
  <2>2. CutUpTo(feed, r, Seen(text, more), T)
    BY <1>5 DEF feed, seen
  <2>3. QED BY <1>9, <1>10, <2>1, <2>2 DEF HasRead
<1>12. QED BY <1>7, <1>10, <1>11 DEF T

\* A tailer that is only switched on or off.
LEMMA Switched ==
  ASSUME NEW a, NEW o, NEW b, NEW f, NEW c, NEW on \in BOOLEAN,
         NEW t, t = [on |-> a, offset |-> o, buffer |-> b, feed |-> f, cuts |-> c],
         NEW u, u = [t EXCEPT !.on = on]
  PROVE  u = [on |-> on, offset |-> o, buffer |-> b, feed |-> f, cuts |-> c]
OBVIOUS

\* A tailer that has begun has read nothing of an empty log, and nothing else.
LEMMA NothingRead ==
  /\ <<>> \in Text /\ NoTail \in Tailer /\ HasRead(NoTail, <<>>) /\ ~NoTail.on
  /\ LET t == [NoTail EXCEPT !.on = TRUE] IN t \in Tailer /\ HasRead(t, <<>>)
<1> DEFINE empty == <<>>
           zero == 0
           start == {0}
<1>1. empty \in Text /\ empty \in Seq(Text) /\ Len(empty) = 0
  BY DEF Text
<1>2. CutUpTo(empty, empty, Seen(empty, start), zero)
  <2>1. Seen(empty, start) \in Text
    <3> HIDE DEF empty, start
    <3> QED BY <1>1, SeenType
  <2> HIDE DEF start
  <2>2. QED BY <2>1, CutOfNothing
<1>3. zero \in 0..Len(empty) /\ zero \in start /\ start \subseteq 0..zero /\ start \subseteq Nat
  BY <1>1
<1> HIDE DEF empty, start
<1>4. ASSUME NEW b \in BOOLEAN
      PROVE  LET t == [on |-> b, offset |-> zero, buffer |-> empty, feed |-> empty, cuts |-> start]
             IN  t \in Tailer /\ HasRead(t, empty)
  <2> DEFINE t == [on |-> b, offset |-> zero, buffer |-> empty, feed |-> empty, cuts |-> start]
  <2>1. t \in Tailer
    BY <1>1, <1>3 DEF Tailer
  <2>2. t.offset = zero /\ t.buffer = empty /\ t.feed = empty /\ t.cuts = start
    OBVIOUS
  <2> HIDE DEF t, zero
  <2>3. HasRead(t, empty)
    BY <1>2, <1>3, <2>2 DEF HasRead
  <2>4. QED BY <2>1, <2>3 DEF t
<1>5. /\ NoTail = [on |-> FALSE, offset |-> zero, buffer |-> empty, feed |-> empty, cuts |-> start]
      /\ [NoTail EXCEPT !.on = TRUE] =
           [on |-> TRUE, offset |-> zero, buffer |-> empty, feed |-> empty, cuts |-> start]
  <2> DEFINE u == [NoTail EXCEPT !.on = TRUE]
  <2>1. NoTail = [on |-> FALSE, offset |-> zero, buffer |-> empty, feed |-> empty, cuts |-> start]
    BY DEF NoTail, empty, start
  <2>2. u = [NoTail EXCEPT !.on = TRUE] /\ TRUE \in BOOLEAN
    OBVIOUS
  <2> HIDE DEF u, zero
  <2>3. u = [on |-> TRUE, offset |-> zero, buffer |-> empty, feed |-> empty, cuts |-> start]
    BY <2>1, <2>2, Switched
  <2>4. QED BY <2>1, <2>3 DEF u
<1>6. NoTail \in Tailer /\ HasRead(NoTail, empty) /\ ~NoTail.on
  <2>1. FALSE \in BOOLEAN
    OBVIOUS
  <2>2. QED BY <1>4, <1>5, <2>1
<1>7. LET t == [NoTail EXCEPT !.on = TRUE] IN t \in Tailer /\ HasRead(t, empty)
  <2>1. TRUE \in BOOLEAN
    OBVIOUS
  <2>2. QED BY <1>4, <1>5, <2>1
<1>8. QED BY <1>1, <1>6, <1>7 DEF empty

\* Steps that leave logs and tailers alone, and stop nothing halfway.
Quiet ==
  /\ UNCHANGED <<log, tail>>
  /\ \/ at' \in Ensuring
     \/ at' = "untail" /\ target' = 1
     \/ at \notin Ensuring \cup {"untail"} /\ at' \notin Ensuring \cup {"untail"}
     \/ UNCHANGED <<at, target>>

LEMMA FeedSteps ==
  ASSUME ControlTypes, [PlaygroundNext]_playgroundVars
  PROVE  \/ Quiet \/ Begin \/ StopTailers \/ Return
         \/ \E p \in Ports : Poll(p)
         \/ \E i \in DOMAIN servers : ServerWrites(i)
<1>1. ControlNext \/ Quit \/ UNCHANGED controlVars
  BY DEF PlaygroundNext, QuitApp, AppNext, EnableInput, Enter, BeginSubmit, Gather,
         ClearResponses, Token, StreamEnds, StreamDone, StreamFails, playgroundVars
<1>2. UNCHANGED controlVars => Quiet
  BY DEF controlVars, Quiet
<1>3. Quit => Quiet
  BY DEF Quit, Quiet, GoTo, Ensuring
<1>4. Probe \/ StopServers \/ StopEngines \/ Slept \/ Spawn \/ SpawnFails \/ Spawned \/ WaitForHealth
        \/ WaitForModel => Quiet
  BY DEF Probe, StopServers, StopEngines, Slept, Spawn, SpawnFails, Spawned, WaitForHealth,
         WaitForModel, GivesUp, Advance, GoTo, Quiet, Ensuring
<1>5. Cleanup \/ CleanupEngines \/ Cleaned \/ UserStarts => Quiet
  BY DEF Cleanup, CleanupEngines, Cleaned, UserStarts, GoTo, Quiet, Ensuring
<1>6. ASSUME NEW i \in DOMAIN servers, ServerStep(i) PROVE ServerWrites(i) \/ Quiet
  BY <1>6 DEF ServerStep, ServerComesUp, ServerFails, ServerDies, ServerCloses, ServerEnds, Quiet
<1>7. QED BY <1>1, <1>2, <1>3, <1>4, <1>5, <1>6 DEF ControlNext, Ensure

\* Writing leaves what has been read as it was.
LEMMA WritesKeep ==
  ASSUME ControlTypes, FeedInv, NEW i \in DOMAIN servers, ServerWrites(i)
  PROVE  FeedInv'
<1> DEFINE p == servers[i].port
<1>1. p \in Ports
  <2>1. servers[i] \in Server
    BY DEF ControlTypes
  <2>2. QED BY <2>1 DEF Server
<1>2. log[p] \in Text /\ Len(log[p]) \in Nat
  BY <1>1 DEF FeedInv, Text
<1>3. PICK c \in NextSymbols(log[p]) : log' = [log EXCEPT ![p] = Append(@, c)]
  BY DEF ServerWrites
<1>4. c \in Int
  BY <1>2 DEF NextSymbols, End, Break, Lead, Trail
<1> DEFINE text == log[p]
           more == Append(text, c)
<1> HIDE DEF p
<1>5. /\ more \in Text /\ Len(more) = Len(text) + 1
      /\ \A j \in 1..Len(text) : more[j] = text[j]
  BY <1>2, <1>4, AppendProperties DEF Text
<1>6. log' = [log EXCEPT ![p] = more] /\ UNCHANGED <<tail, at, target>>
  BY <1>3 DEF ServerWrites
<1>7. HasRead(tail[p], more)
  <2> DEFINE k == tail[p].offset
             cuts == tail[p].cuts
             seen == Seen(text, cuts)
             now == Seen(more, cuts)
  <2>1. /\ k \in 0..Len(text) /\ CutUpTo(tail[p].feed, tail[p].buffer, seen, k)
        /\ tail[p].feed \in Seq(Text) /\ k \in cuts /\ cuts \subseteq 0..k
    BY <1>1 DEF FeedInv, HasRead, Tailer
  <2> HIDE DEF k, cuts, more
  <2>2. k \in Nat /\ text \in Text
    BY <1>2, <2>1
  <2> HIDE DEF text
  <2>3. /\ seen \in Text /\ Len(seen) = Len(text) /\ now \in Text /\ Len(now) = Len(more)
        /\ \A j \in 1..Len(text) : seen[j] = SeenAt(text, cuts, j)
        /\ \A j \in 1..Len(more) : now[j] = SeenAt(more, cuts, j)
    BY <1>5, <2>2, SeenType
  <2>4. \A j \in 1..Len(text) : SeenAt(more, cuts, j) = SeenAt(text, cuts, j)
    BY <1>5, SeenAlike
  <2> HIDE DEF seen, now
  <2>5. k <= Len(text) /\ Len(text) \in Nat /\ \A j \in 1..k : j \in 1..Len(text)
    BY <2>1, <2>2 DEF Text
  <2>6. SameUpTo(seen, now, k)
    BY <1>5, <2>2, <2>3, <2>4, <2>5 DEF SameUpTo
  <2>7. CutUpTo(tail[p].feed, tail[p].buffer, now, k)
    BY <2>1, <2>2, <2>3, <2>6, CutOfSame
  <2>8. k \in 0..Len(more)
    BY <1>5, <2>1, <2>5
  <2>9. QED BY <2>1, <2>7, <2>8 DEF HasRead, k, cuts, now
<1> HIDE DEF more
<1>8. log' \in [Ports -> Text] /\ \A q \in Ports : log'[q] = IF q = p THEN more ELSE log[q]
  BY <1>1, <1>5, <1>6 DEF FeedInv
<1>9. \A q \in Ports : HasRead(tail[q], log'[q])
  BY <1>7, <1>8 DEF FeedInv
<1>10. QED BY <1>6, <1>8, <1>9 DEF FeedInv

\* A poll of one tailer, which may be its last.
LEMMA PollKeeps ==
  ASSUME FeedInv, NEW p \in Ports, NEW t, t \in Tailer, HasRead(t, log[p]),
         tail' = [tail EXCEPT ![p] = t], UNCHANGED log
  PROVE  /\ log' \in [Ports -> Text] /\ tail' \in [Ports -> Tailer]
         /\ \A q \in Ports : HasRead(tail'[q], log'[q])
         /\ \A q \in Ports : tail'[q] = IF q = p THEN t ELSE tail[q]
<1>1. \A q \in Ports : tail'[q] = IF q = p THEN t ELSE tail[q]
  BY DEF FeedInv
<1>2. tail' \in [Ports -> Tailer] /\ log' \in [Ports -> Text]
  BY DEF FeedInv
<1>3. \A q \in Ports : HasRead(tail'[q], log'[q])
  BY <1>1 DEF FeedInv
<1>4. QED BY <1>1, <1>2, <1>3

\* The tailer that stops has read its whole log.
LEMMA StopReads ==
  ASSUME ControlTypes, FeedInv, StopTailers
  PROVE  /\ FeedInv'
         /\ tail'[target].offset = Len(log[target]) /\ log' = log
         /\ \A q \in Ports \ {target} : tail'[q] = tail[q]
<1> DEFINE t == tail[target]
           text == log[target]
           last == [Polled(t, text) EXCEPT !.on = FALSE]
<1>1. target \in Ports /\ LastPort \in Nat \ {0} /\ Ports = 1..LastPort
  BY PortFacts DEF ControlTypes
<1>2. t \in Tailer /\ text \in Text /\ HasRead(t, text)
  BY <1>1 DEF FeedInv
<1>3. /\ at = "untail" /\ log' = log /\ tail' = [tail EXCEPT ![target] = last]
      /\ IF target < LastPort THEN at' = "untail" /\ target' = target + 1
         ELSE at' = "returned" /\ target' = 1
  BY DEF StopTailers, StopTail, Advance, GoTo
<1> DEFINE read == Polled(t, text)
<1> HIDE DEF t, text, read
<1>4. read \in Tailer /\ read.offset = Len(text) /\ HasRead(read, text)
  BY <1>2, PolledReads DEF read
<1>5. last \in Tailer /\ ~last.on /\ last.offset = Len(text) /\ HasRead(last, text)
  <2> DEFINE o == read.offset
             b == read.buffer
             f == read.feed
             a == read.on
             c == read.cuts
  <2>0. last = [read EXCEPT !.on = FALSE] /\ read = [on |-> a, offset |-> o, buffer |-> b, feed |-> f, cuts |-> c]
        /\ FALSE \in BOOLEAN
    BY <1>4 DEF read, Tailer
  <2> HIDE DEF last, o, b, f, a, c
  <2>1. last = [on |-> FALSE, offset |-> o, buffer |-> b, feed |-> f, cuts |-> c]
    BY <2>0, Switched
  <2> USE DEF o, b, f, c
  <2>2. QED BY <1>4, <2>1 DEF Tailer, HasRead
<1> HIDE DEF last
<1>6. /\ log' \in [Ports -> Text] /\ tail' \in [Ports -> Tailer]
      /\ \A q \in Ports : HasRead(tail'[q], log'[q])
      /\ \A q \in Ports : tail'[q] = IF q = target THEN last ELSE tail[q]
  BY <1>1, <1>3, <1>5, PollKeeps DEF text
<1>7. ASSUME NEW q \in Ports, q <= target PROVE ~tail'[q].on
  <2>1. q = target \/ q < target
    BY <1>1, <1>7
  <2>2. q < target => ~tail[q].on
    BY <1>3 DEF FeedInv
  <2>3. QED BY <1>5, <1>6, <2>1, <2>2
<1>8. CASE target < LastPort
  <2>1. at' = "untail" /\ \A q \in Ports : q < target' => q <= target
    BY <1>1, <1>3, <1>8
  <2>2. QED BY <1>3, <1>1, <1>5, <1>6, <1>7, <2>1 DEF FeedInv, Ensuring, text
<1>9. CASE ~(target < LastPort)
  <2>1. at' = "returned" /\ \A q \in Ports : q <= target
    BY <1>1, <1>3, <1>9
  <2>2. QED BY <1>3, <1>1, <1>5, <1>6, <1>7, <2>1 DEF FeedInv, Ensuring, text
<1>10. QED BY <1>8, <1>9

LEMMA FeedStarts == AppInit => FeedInv
<1> SUFFICES ASSUME AppInit PROVE FeedInv
  OBVIOUS
<1>1. /\ log = [p \in Ports |-> <<>>] /\ tail = [p \in Ports |-> NoTail] /\ at = "selected"
  BY DEF AppInit, ControlInit
<1> HIDE DEF NoTail
<1>2. QED BY <1>1, NothingRead DEF FeedInv

LEMMA FeedStep ==
  ASSUME ControlTypes, FeedInv, [PlaygroundNext]_playgroundVars
  PROVE  FeedInv'
<1>1. CASE Quiet
  <2>1. at' \in Ensuring => at' \notin {"untail"}
    BY DEF Ensuring
  <2>2. \A p \in Ports : ~(p < 1)
    BY PortFacts
  <2>3. QED BY <1>1, <2>1, <2>2 DEF Quiet, FeedInv
<1>2. CASE Begin
  <2> DEFINE t == [NoTail EXCEPT !.on = TRUE]
  <2>1. /\ log' = [p \in Ports |-> <<>>] /\ tail' = [p \in Ports |-> t] /\ at' = "probe"
    BY <1>2 DEF Begin, GoTo
  <2>2. <<>> \in Text /\ t \in Tailer /\ HasRead(t, <<>>)
    BY NothingRead
  <2> HIDE DEF t
  <2>3. QED BY <2>1, <2>2 DEF FeedInv, Ensuring
<1>3. CASE StopTailers
  BY <1>3, StopReads
<1>4. CASE Return
  <2>1. /\ log' = [p \in Ports |-> <<>>] /\ tail' = [p \in Ports |-> NoTail]
        /\ at' \in {"ready", "sorry", "exit"}
    BY <1>4 DEF Return, GoTo
  <2> HIDE DEF NoTail
  <2>2. QED BY <2>1, NothingRead DEF FeedInv, Ensuring
<1>5. ASSUME NEW p \in Ports, Poll(p) PROVE FeedInv'
  <2> DEFINE t == Polled(tail[p], log[p])
  <2>1. tail[p] \in Tailer /\ log[p] \in Text /\ HasRead(tail[p], log[p])
    BY DEF FeedInv
  <2>2. t \in Tailer /\ t.on = tail[p].on /\ HasRead(t, log[p])
    BY <2>1, PolledReads
  <2>3. /\ tail' = [tail EXCEPT ![p] = t] /\ UNCHANGED <<log, at, target>>
    BY <1>5 DEF Poll
  <2> HIDE DEF t
  <2>4. /\ log' \in [Ports -> Text] /\ tail' \in [Ports -> Tailer]
        /\ \A q \in Ports : HasRead(tail'[q], log'[q])
        /\ \A q \in Ports : tail'[q] = IF q = p THEN t ELSE tail[q]
    BY <2>2, <2>3, PollKeeps
  <2>5. \A q \in Ports : tail'[q].on = tail[q].on
    BY <2>2, <2>4
  <2>6. QED BY <2>3, <2>4, <2>5 DEF FeedInv
<1>6. ASSUME NEW i \in DOMAIN servers, ServerWrites(i) PROVE FeedInv'
  BY <1>6, WritesKeep
<1>7. QED BY <1>1, <1>2, <1>3, <1>4, <1>5, <1>6, FeedSteps

\* How a part of a text is seen.
LEMMA PartSeen ==
  ASSUME NEW text \in Text, NEW cuts, NEW k \in 0..Len(text)
  PROVE  Seen(SubSeq(text, 1, k), cuts) = SubSeq(Seen(text, cuts), 1, k)
<1> DEFINE part == SubSeq(text, 1, k)
           seen == Seen(text, cuts)
           first == SubSeq(seen, 1, k)
<1>1. Len(text) \in Nat /\ k \in Nat /\ k <= Len(text) /\ \A i \in 1..k : i \in 1..Len(text)
  BY DEF Text
<1>2. /\ seen \in Text /\ Len(seen) = Len(text)
      /\ \A i \in 1..Len(text) : seen[i] = SeenAt(text, cuts, i)
  BY SeenType
<1> HIDE DEF seen
<1>3. /\ part \in Text /\ Len(part) = k /\ \A i \in 1..k : part[i] = text[i]
  BY <1>1, BeginOfText
<1>4. /\ first \in Text /\ Len(first) = k /\ \A i \in 1..k : first[i] = seen[i]
  BY <1>1, <1>2, BeginOfText
<1> HIDE DEF part, first
<1>5. /\ Seen(part, cuts) \in Text /\ Len(Seen(part, cuts)) = k
      /\ \A i \in 1..k : Seen(part, cuts)[i] = SeenAt(part, cuts, i)
  BY <1>3, SeenType
<1>6. \A i \in 1..k : SeenAt(part, cuts, i) = SeenAt(text, cuts, i)
  BY <1>3, SeenAlike
<1>7. \A i \in 1..k : Seen(part, cuts)[i] = first[i]
  BY <1>1, <1>2, <1>4, <1>5, <1>6
<1>8. Seen(part, cuts) = first
  BY <1>4, <1>5, <1>7, SeqEqual DEF Text
<1>9. QED BY <1>8 DEF part, first, seen

\* What a tailer has fed are the ended lines of what it has read.
LEMMA FeedIsEnded ==
  ASSUME NEW t \in Tailer, NEW text \in Text, HasRead(t, text)
  PROVE  AreEndedLines(t.feed, Seen(SubSeq(text, 1, t.offset), t.cuts))
<1> DEFINE k == t.offset
           seen == Seen(text, t.cuts)
<1>1. /\ t.feed \in Seq(Text) /\ k \in 0..Len(text) /\ CutUpTo(t.feed, t.buffer, seen, k)
  BY DEF Tailer, HasRead
<1>2. seen \in Text /\ Len(seen) = Len(text)
  BY SeenType
<1> HIDE DEF k, seen
<1>3. AreEndedLines(t.feed, SubSeq(seen, 1, k))
  BY <1>1, <1>2, CutIsEnded
<1>4. SubSeq(seen, 1, k) = Seen(SubSeq(text, 1, k), t.cuts)
  BY <1>1, PartSeen DEF seen
<1>5. QED BY <1>3, <1>4 DEF k

\* A tailer stops only in StopTailers, when it has read its whole log.
LEMMA FeedStops ==
  ASSUME ControlTypes, FeedInv, [PlaygroundNext]_playgroundVars, NEW p \in Ports,
         tail[p].on, ~tail'[p].on
  PROVE  AreEndedLines(tail'[p].feed, Seen(log[p], tail'[p].cuts))
<1>1. at \in Ensuring \cup {"untail"}
  BY DEF FeedInv
<1>2. ~Quiet /\ ~Begin /\ ~Return /\ ~\E i \in DOMAIN servers : ServerWrites(i)
  BY <1>1 DEF Quiet, Begin, Return, ServerWrites, Ensuring
<1>3. ASSUME NEW q \in Ports, Poll(q) PROVE FALSE
  <2> DEFINE t == Polled(tail[q], log[q])
  <2>1. tail[q] \in Tailer /\ log[q] \in Text /\ HasRead(tail[q], log[q])
    BY DEF FeedInv
  <2>2. t.on = tail[q].on
    BY <2>1, PolledReads
  <2>3. tail' = [tail EXCEPT ![q] = t] /\ tail \in [Ports -> Tailer]
    BY <1>3 DEF Poll, FeedInv
  <2> HIDE DEF t
  <2>4. tail'[p] = IF p = q THEN t ELSE tail[p]
    BY <2>3
  <2>5. QED BY <2>2, <2>4
<1>4. StopTailers
  BY <1>2, <1>3, FeedSteps
<1>5. FeedInv' /\ p = target /\ tail'[p].offset = Len(log[p]) /\ log' = log
  BY <1>4, StopReads
<1>6. AreEndedLines(tail'[p].feed, Seen(SubSeq(log'[p], 1, tail'[p].offset), tail'[p].cuts))
  <2> DEFINE t == tail'[p]
             text == log'[p]
  <2>1. t \in Tailer /\ text \in Text /\ HasRead(t, text)
    BY <1>5 DEF FeedInv
  <2> HIDE DEF t, text
  <2>2. AreEndedLines(t.feed, Seen(SubSeq(text, 1, t.offset), t.cuts))
    BY <2>1, FeedIsEnded
  <2>3. QED BY <2>2 DEF t, text
<1>7. log[p] \in Seq(Int) /\ SubSeq(log[p], 1, Len(log[p])) = log[p]
  BY SubSeqFull DEF FeedInv, Text
<1>8. QED BY <1>5, <1>6, <1>7

\* Feeds have every ended line of what was read, once and in order, however
\* logs grow between the polls, and stopped ones have left nothing out, for logs
\* of any length and any number of them; the cuts damage no symbol but those
\* that stand at them (log_feed.py:329-359).
THEOREM FeedsAreFaithful == PlaygroundSpec => FeedFaithful
<1> DEFINE Kept == \A p \in Ports : tail[p].on =>
                     AreEndedLines(tail[p].feed,
                                   Seen(SubSeq(log[p], 1, tail[p].offset), tail[p].cuts))
           Whole == \A p \in Ports : tail[p].on /\ ~tail[p].on' =>
                      AreEndedLines(tail[p].feed', Seen(log[p], tail[p].cuts'))
<1>1. ControlInv /\ FeedInv /\ [PlaygroundNext]_playgroundVars => FeedInv' /\ Kept /\ Whole
  <2>1. ASSUME FeedInv, NEW p \in Ports
        PROVE  AreEndedLines(tail[p].feed,
                             Seen(SubSeq(log[p], 1, tail[p].offset), tail[p].cuts))
    BY <2>1, FeedIsEnded DEF FeedInv
  <2>2. ASSUME ControlInv, FeedInv, [PlaygroundNext]_playgroundVars, NEW p \in Ports,
               tail[p].on, ~tail[p].on'
        PROVE  AreEndedLines(tail[p].feed', Seen(log[p], tail[p].cuts'))
    BY <2>2, FeedStops DEF ControlInv
  <2>3. QED BY <2>1, <2>2, FeedStep DEF ControlInv
<1>2. AppInit => FeedInv
  BY FeedStarts
<1>3. PlaygroundSpec => [][Kept]_playgroundVars /\ [][Whole]_playgroundVars
  BY <1>1, <1>2, ControlSound, PTL DEF PlaygroundSpec
<1>4. QED BY <1>3 DEF FeedFaithful

\* A log of one-byte characters whose lines newlines alone end.
Plain(text) == \A i \in DOMAIN text : text[i] >= 0

\* The cuts do not matter to such a log: a tailer that stops has fed its ended
\* lines whole, wherever the polls have cut it (log_feed.py:329-359).
THEOREM PlainFeedsAreWhole ==
  PlaygroundSpec =>
    [][\A p \in Ports : tail[p].on /\ ~tail[p].on' /\ Plain(log[p]) =>
         AreEndedLines(tail[p].feed', log[p])]_playgroundVars
<1>1. ASSUME NEW text \in Text, Plain(text), NEW cuts PROVE Seen(text, cuts) = text
  <2>1. /\ Seen(text, cuts) \in Text /\ Len(Seen(text, cuts)) = Len(text)
        /\ \A i \in 1..Len(text) : Seen(text, cuts)[i] = SeenAt(text, cuts, i)
    BY SeenType
  <2>2. ASSUME NEW i \in 1..Len(text) PROVE SeenAt(text, cuts, i) = text[i]
    <3>1. text[i] \in Int /\ text[i] >= 0
      BY <1>1 DEF Text, Plain
    <3>2. QED BY <3>1 DEF SeenAt, Lead, Trail, Break
  <2>3. QED BY <2>1, <2>2, SeqEqual DEF Text
<1> DEFINE Whole == \A p \in Ports : tail[p].on /\ ~tail[p].on' =>
                      AreEndedLines(tail[p].feed', Seen(log[p], tail[p].cuts'))
           PlainWhole == \A p \in Ports : tail[p].on /\ ~tail[p].on' /\ Plain(log[p]) =>
                           AreEndedLines(tail[p].feed', log[p])
<1>2. ControlInv /\ FeedInv /\ [PlaygroundNext]_playgroundVars => FeedInv' /\ PlainWhole
  <2>1. ASSUME ControlInv, FeedInv, [PlaygroundNext]_playgroundVars, NEW p \in Ports,
               tail[p].on, ~tail[p].on', Plain(log[p])
        PROVE  AreEndedLines(tail[p].feed', log[p])
    <3>1. AreEndedLines(tail'[p].feed, Seen(log[p], tail'[p].cuts))
      BY <2>1, FeedStops DEF ControlInv
    <3>2. log[p] \in Text
      BY <2>1 DEF FeedInv
    <3>3. Seen(log[p], tail'[p].cuts) = log[p]
      BY <1>1, <2>1, <3>2
    <3>4. QED BY <3>1, <3>3
  <2>2. QED BY <2>1, FeedStep DEF ControlInv
<1>3. AppInit => FeedInv
  BY FeedStarts
<1>4. QED BY <1>2, <1>3, ControlSound, PTL DEF PlaygroundSpec
=============================================================================
