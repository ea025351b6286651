------------------------- MODULE ChatServiceProofs --------------------------
(***************************************************************************)
(* ChatService keeps the protocol of the admission gate and the order of   *)
(* its events, for any number of clients, chunks and content.              *)
(*                                                                         *)
(* A step of the service moves one request's frame.  The invariants are    *)
(* therefore stated for one frame and shown of the frame that moved; all   *)
(* others stay as they were (FrameMoved).                                  *)
(***************************************************************************)
EXTENDS ChatServiceProperties, AdmissionRefinementProofs

Phases == {"idle", "waiting", "running"}
Kind   == {"stream", "complete"}
Places == Events \cup {"none", "admitting", "awaiting", "abandoned"}
Work   == {"none", "running", "finished", "orphaned"}

\* The frame, the gate and the engine agree on who holds a slot.  After a
\* time-out the engine has nothing left to do, which is what lets the error
\* event's successor give the slot back.
SlotHeld(r) ==
  /\ at[r] = "admitting" <=> phase[r] = "waiting"
  /\ at[r] \in (Events \ {"done"}) \cup {"awaiting"} => phase[r] = "running"
  /\ at[r] \in {"none", "done"} => phase[r] = "idle"
  /\ engine[r] \in {"running", "finished"} => phase[r] = "running"
  /\ at[r] = "error" => engine[r] = "none"

LastSent(r) == sent[r][Len(sent[r])]

\* What was sent is in order; a frame stands at its last event, or awaits the
\* engine after one that a chunk may follow; and the engine is finished once
\* its last chunk is being turned into events.  An abandoned frame holds its slot
\* exactly if its last event is not [DONE]: by that its finalizer knows.
InOrder(r) ==
  /\ Len(sent[r]) > 0 => sent[r][1] = "prologue"
  /\ \A i \in 1..(Len(sent[r]) - 1) : sent[r][i + 1] \in Follows[sent[r][i]]
  /\ at[r] \in Events => Len(sent[r]) > 0 /\ LastSent(r) = at[r]
  /\ at[r] = "awaiting" /\ kind[r] = "stream" =>
       Len(sent[r]) > 0 /\ LastSent(r) \in {"prologue", "content"}
  /\ at[r] = "prologue" => engine[r] = "none"
  /\ at[r] = "content" =>
       /\ chunk[r] \in Chunk
       /\ engine[r] = IF chunk[r].finish THEN "finished" ELSE "running"
  /\ at[r] \in {"terminal", "usage"} => engine[r] = "finished"
  /\ at[r] = "abandoned" =>
       Len(sent[r]) > 0 /\ phase[r] = IF LastSent(r) = "done" THEN "idle" ELSE "running"

FrameTypes ==
  /\ phase \in [Requests -> Phases]
  /\ kind \in [Requests -> Kind]
  /\ at \in [Requests -> Places]
  /\ chunk \in [Requests -> Chunk \cup {None}]
  /\ engine \in [Requests -> Work]
  /\ sent \in [Requests -> Seq(Events)]

FrameInv == FrameTypes /\ \A r \in Requests : SlotHeld(r) /\ InOrder(r)

\* A step that moves the frame of r to the given place.
Moves(r, p, k, a, c, e, s) ==
  /\ phase' = [phase EXCEPT ![r] = p] /\ p \in Phases
  /\ kind' = [kind EXCEPT ![r] = k] /\ k \in Kind
  /\ at' = [at EXCEPT ![r] = a] /\ a \in Places
  /\ chunk' = [chunk EXCEPT ![r] = c] /\ c \in Chunk \cup {None}
  /\ engine' = [engine EXCEPT ![r] = e] /\ e \in Work
  /\ sent' = [sent EXCEPT ![r] = s] /\ s \in Seq(Events)

\* Only the frame that moved has to be looked at.
LEMMA FrameMoved ==
  ASSUME FrameInv, NEW r \in Requests, NEW p, NEW k, NEW a, NEW c, NEW e, NEW s,
         Moves(r, p, k, a, c, e, s), SlotHeld(r)', InOrder(r)'
  PROVE  FrameInv'
<1>1. FrameTypes'
  BY DEF FrameInv, FrameTypes, Moves
<1>2. ASSUME NEW o \in Requests, o # r
      PROVE  /\ phase'[o] = phase[o] /\ kind'[o] = kind[o] /\ at'[o] = at[o]
             /\ chunk'[o] = chunk[o] /\ engine'[o] = engine[o] /\ sent'[o] = sent[o]
  BY <1>2 DEF FrameInv, FrameTypes, Moves
<1>3. ASSUME NEW o \in Requests, o # r PROVE SlotHeld(o)' /\ InOrder(o)'
  <2>1. SlotHeld(o) /\ InOrder(o)
    BY DEF FrameInv
  <2>2. QED BY <1>2, <1>3, <2>1 DEF SlotHeld, InOrder, LastSent
<1>4. QED BY <1>1, <1>3 DEF FrameInv

-----------------------------------------------------------------------------
(***************************************************************************)
(* What the gate's actions do to the phase of their request.               *)
(***************************************************************************)
LEMMA GateMoves ==
  ASSUME NEW r \in Requests, phase \in [Requests -> Phases]
  PROVE  /\ \A q : Arrive(r, q) =>
              phase[r] = "idle" /\ \E p \in Phases : phase' = [phase EXCEPT ![r] = p]
         /\ Resume(r) =>
              /\ phase[r] = "waiting"
              /\ \E p \in {"idle", "running"} : phase' = [phase EXCEPT ![r] = p]
         /\ Timeout(r) \/ Cancel(r) => phase' = phase
         /\ ReleaseStep(r) => phase' = [phase EXCEPT ![r] = "idle"]
<1>1. ASSUME NEW q, Arrive(r, q)
      PROVE  phase[r] = "idle" /\ \E p \in Phases : phase' = [phase EXCEPT ![r] = p]
  BY <1>1 DEF Arrive, ArriveQueueFull, ArriveNow, ArriveWait, ArriveZeroWait, Commit,
              GatesRaise, Raise, Phases
<1>2. ASSUME Resume(r)
      PROVE  /\ phase[r] = "waiting"
             /\ \E p \in {"idle", "running"} : phase' = [phase EXCEPT ![r] = p]
  BY <1>2 DEF Resume, ResumeAcquired, ResumeGivingBack, ResumeEmptyHanded, ResumeUnstarted,
              Commit, GatesRaise, Raise
<1>3. Timeout(r) \/ Cancel(r) => phase' = phase
  BY DEF Timeout, Cancel, Interrupt
<1>4. ReleaseStep(r) => phase' = [phase EXCEPT ![r] = "idle"]
  BY DEF ReleaseStep
<1>5. QED BY <1>1, <1>2, <1>3, <1>4

-----------------------------------------------------------------------------
(***************************************************************************)
(* The steps of a frame.                                                   *)
(***************************************************************************)
\* A function is itself with one of its values put in its place.
LEMMA Kept ==
  ASSUME NEW S, NEW T, NEW f \in [S -> T], NEW x \in S
  PROVE  f = [f EXCEPT ![x] = f[x]]
OBVIOUS

\* An event that may follow the last one keeps the order.
LEMMA AppendInOrder ==
  ASSUME NEW s \in Seq(Events), Len(s) > 0, s[1] = "prologue",
         \A i \in 1..(Len(s) - 1) : s[i + 1] \in Follows[s[i]],
         NEW e \in Events, e \in Follows[s[Len(s)]]
  PROVE  /\ Append(s, e) \in Seq(Events) /\ Len(Append(s, e)) > 0
         /\ Append(s, e)[1] = "prologue" /\ Append(s, e)[Len(Append(s, e))] = e
         /\ \A i \in 1..(Len(Append(s, e)) - 1) : Append(s, e)[i + 1] \in Follows[Append(s, e)[i]]
<1> DEFINE t == Append(s, e)
<1>1. /\ t \in Seq(Events) /\ Len(t) = Len(s) + 1 /\ t[Len(t)] = e
      /\ \A i \in 1..Len(s) : t[i] = s[i]
  OBVIOUS
<1>2. Len(s) \in Nat /\ Len(s) \in 1..Len(s) /\ 1 \in 1..Len(s)
  OBVIOUS
<1>3. ASSUME NEW i \in 1..(Len(t) - 1) PROVE t[i + 1] \in Follows[t[i]]
  <2>1. CASE i = Len(s)
    BY <1>1, <1>2, <2>1
  <2>2. CASE i # Len(s)
    <3>1. i \in 1..(Len(s) - 1) /\ i \in 1..Len(s) /\ i + 1 \in 1..Len(s)
      BY <1>1, <1>2, <1>3, <2>2
    <3>2. QED BY <1>1, <3>1
  <2>3. QED BY <2>1, <2>2
<1>4. QED BY <1>1, <1>2, <1>3

\* A frame that is moved to an event which may follow the last one, with the
\* engine where that event wants it, and its slot as it was.
LEMMA YieldsInOrder ==
  ASSUME FrameInv, NEW r \in Requests, NEW event \in Events,
         at[r] \in Events \cup {"awaiting"}, at[r] = "awaiting" => kind[r] = "stream",
         event \in Follows[LastSent(r)], event # "prologue",
         NEW p \in Phases, phase' = [phase EXCEPT ![r] = p],
         event = "done" <=> p = "idle", event # "done" => p = "running",
         NEW c \in Chunk \cup {None}, chunk' = [chunk EXCEPT ![r] = c],
         NEW e \in Work, engine' = [engine EXCEPT ![r] = e],
         e \in {"running", "finished"} => event # "done",
         event = "error" => e = "none",
         event = "content" =>
           c \in Chunk /\ e = IF c.finish THEN "finished" ELSE "running",
         event \in {"terminal", "usage"} => e = "finished",
         kind' = kind, Yields(r, event)
  PROVE  FrameInv'
<1>1. FrameTypes /\ InOrder(r)
  BY DEF FrameInv
<1> DEFINE s == Append(sent[r], event)
<1>2. sent[r] \in Seq(Events) /\ Len(sent[r]) > 0 /\ sent[r][1] = "prologue"
  BY <1>1 DEF FrameTypes, InOrder
<1>3. /\ s \in Seq(Events) /\ Len(s) > 0 /\ s[1] = "prologue" /\ s[Len(s)] = event
      /\ \A i \in 1..(Len(s) - 1) : s[i + 1] \in Follows[s[i]]
  BY <1>1, <1>2, AppendInOrder DEF InOrder, LastSent
<1>4. Moves(r, p, kind[r], event, c, e, s)
  BY <1>1, <1>3, Kept DEF Moves, FrameTypes, Yields, Goes, Places
<1>5. /\ phase'[r] = p /\ at'[r] = event /\ chunk'[r] = c /\ engine'[r] = e /\ sent'[r] = s
  BY <1>1, <1>4 DEF Moves, FrameTypes
<1>6. SlotHeld(r)'
  BY <1>5 DEF SlotHeld, Events, Phases
<1>7. InOrder(r)'
  BY <1>1, <1>3, <1>5 DEF InOrder, LastSent, Events
<1>8. QED BY <1>4, <1>6, <1>7, FrameMoved

\* A frame that ends or waits to begin, having sent nothing in the step.
LEMMA LeavesInOrder ==
  ASSUME FrameInv, NEW r \in Requests, NEW p \in Phases, phase' = [phase EXCEPT ![r] = p],
         NEW to \in {"none", "admitting"}, Goes(r, to),
         to = "none" => p = "idle", to = "admitting" <=> p = "waiting",
         NEW k \in Kind, kind' = [kind EXCEPT ![r] = k], chunk' = chunk,
         NEW e \in Work, engine' = [engine EXCEPT ![r] = e],
         e \in {"running", "finished"} => p = "running",
         sent' = sent \/ sent' = [sent EXCEPT ![r] = <<>>]
  PROVE  FrameInv'
<1>1. FrameTypes /\ InOrder(r)
  BY DEF FrameInv
<1>2. PICK s \in Seq(Events) :
        /\ sent' = [sent EXCEPT ![r] = s]
        /\ Len(s) > 0 => s[1] = "prologue"
        /\ \A i \in 1..(Len(s) - 1) : s[i + 1] \in Follows[s[i]]
  <2>1. CASE sent' = sent
    <3>1. sent[r] \in Seq(Events) /\ sent' = [sent EXCEPT ![r] = sent[r]]
      BY <1>1, <2>1, Kept DEF FrameTypes
    <3>2. QED BY <1>1, <3>1 DEF InOrder
  <2>2. CASE sent' = [sent EXCEPT ![r] = <<>>]
    <3>1. <<>> \in Seq(Events)
      OBVIOUS
    <3>2. Len(<<>>) = 0
      OBVIOUS
    <3>3. \A i \in 1..(Len(<<>>) - 1) : FALSE
      BY <3>2
    <3>4. ~(Len(<<>>) > 0)
      BY <3>2
    <3> WITNESS <<>> \in Seq(Events)
    <3>5. QED BY <2>2, <3>3, <3>4
  <2>3. QED BY <2>1, <2>2
<1>3. chunk' = [chunk EXCEPT ![r] = chunk[r]]
  BY <1>1, Kept DEF FrameTypes
<1>4. Moves(r, p, k, to, chunk[r], e, s)
  BY <1>1, <1>2, <1>3 DEF Moves, FrameTypes, Goes, Places
<1>5. /\ phase'[r] = p /\ at'[r] = to /\ engine'[r] = e /\ sent'[r] = s
  BY <1>1, <1>4 DEF Moves, FrameTypes
<1>6. SlotHeld(r)'
  BY <1>5 DEF SlotHeld, Events, Phases
<1>7. InOrder(r)'
  BY <1>1, <1>2, <1>5 DEF InOrder, LastSent, Events
<1>8. QED BY <1>4, <1>6, <1>7, FrameMoved

\* A request enters, or resumes from the gate: it waits there, leaves, or has
\* its slot and begins.
LEMMA AdmitStep ==
  ASSUME FrameInv, NEW r \in Requests, NEW k \in Kind, NEW p \in Phases,
         phase' = [phase EXCEPT ![r] = p], AfterAdmit(r, k),
         kind' = [kind EXCEPT ![r] = k], chunk' = chunk
  PROVE  FrameInv'
<1>1. FrameTypes /\ phase'[r] = p
  BY DEF FrameInv, FrameTypes
<1>2. CASE p = "running" /\ k = "stream"
  <2>1. /\ Goes(r, "prologue") /\ engine' = [engine EXCEPT ![r] = "none"]
        /\ sent' = [sent EXCEPT ![r] = <<"prologue">>]
    BY <1>1, <1>2 DEF AfterAdmit, Engine
  <2>2. chunk' = [chunk EXCEPT ![r] = chunk[r]]
    BY <1>1, Kept DEF FrameTypes
  <2>3. <<"prologue">> \in Seq(Events)
    BY DEF Events
  <2>4. Moves(r, p, k, "prologue", chunk[r], "none", <<"prologue">>)
    BY <1>1, <2>1, <2>2, <2>3 DEF Moves, FrameTypes, Goes, Places, Events, Work
  <2>5. /\ phase'[r] = "running" /\ at'[r] = "prologue" /\ engine'[r] = "none"
        /\ sent'[r] = <<"prologue">>
    BY <1>1, <1>2, <2>4 DEF Moves, FrameTypes
  <2>6. SlotHeld(r)'
    BY <2>5 DEF SlotHeld, Events
  <2>7. InOrder(r)'
    BY <2>5 DEF InOrder, LastSent, Events
  <2>8. QED BY <2>4, <2>6, <2>7, FrameMoved
<1>3. CASE p = "running" /\ k = "complete"
  <2>1. /\ Goes(r, "awaiting") /\ engine' = [engine EXCEPT ![r] = "running"]
        /\ sent' = [sent EXCEPT ![r] = <<>>]
    BY <1>1, <1>3 DEF AfterAdmit, Engine
  <2>2. chunk' = [chunk EXCEPT ![r] = chunk[r]]
    BY <1>1, Kept DEF FrameTypes
  <2>3. Moves(r, p, k, "awaiting", chunk[r], "running", <<>>)
    <3>1. <<>> \in Seq(Events)
      OBVIOUS
    <3>2. QED BY <1>1, <2>1, <2>2, <3>1 DEF Moves, FrameTypes, Goes, Places, Work
  <2>4. /\ phase'[r] = "running" /\ at'[r] = "awaiting" /\ engine'[r] = "running"
        /\ sent'[r] = <<>> /\ kind'[r] = "complete"
    BY <1>1, <1>3, <2>3 DEF Moves, FrameTypes
  <2>5. SlotHeld(r)'
    BY <2>4 DEF SlotHeld, Events
  <2>6. InOrder(r)'
    BY <2>4 DEF InOrder, LastSent, Events
  <2>7. QED BY <2>3, <2>5, <2>6, FrameMoved
<1>4. CASE p = "waiting"
  <2>1. /\ Goes(r, "admitting") /\ engine' = [engine EXCEPT ![r] = "none"]
        /\ sent' = [sent EXCEPT ![r] = <<>>]
    BY <1>1, <1>4 DEF AfterAdmit, Engine
  <2>2. QED BY <1>4, <2>1, LeavesInOrder DEF Work
<1>5. CASE p = "idle"
  <2>1. /\ Goes(r, "none") /\ engine' = [engine EXCEPT ![r] = "none"]
        /\ sent' = [sent EXCEPT ![r] = <<>>]
    BY <1>1, <1>5 DEF AfterAdmit, Engine
  <2>2. QED BY <1>5, <2>1, LeavesInOrder DEF Work
<1>6. QED BY <1>2, <1>3, <1>4, <1>5 DEF Phases, Kind

\* The engine is asked for a chunk: it has one to give, or its last chunk is
\* out, and then only [DONE] follows.
LEMMA AskStep ==
  ASSUME FrameInv, NEW r \in Requests, AsksEngine(r), UNCHANGED <<kind, chunk>>,
         \/ at[r] \in {"prologue", "terminal", "usage"}
         \/ at[r] = "content" /\ ~chunk[r].finish
  PROVE  FrameInv'
<1>1. FrameTypes /\ SlotHeld(r) /\ InOrder(r) /\ phase[r] = "running"
  BY DEF FrameInv, SlotHeld, Events
<1>2. CASE engine[r] = "finished"
  <2>1. at[r] \in {"terminal", "usage"} /\ LastSent(r) = at[r]
    BY <1>1, <1>2 DEF InOrder, Events
  <2>2. /\ Yields(r, "done") /\ engine' = [engine EXCEPT ![r] = "none"]
        /\ phase' = [phase EXCEPT ![r] = "idle"]
    BY <1>1, <1>2, GateMoves DEF AsksEngine, Engine, FrameTypes
  <2>3. "done" \in Follows[LastSent(r)]
    BY <2>1 DEF Follows
  <2>4. chunk' = [chunk EXCEPT ![r] = chunk[r]] /\ chunk[r] \in Chunk \cup {None}
    BY <1>1, Kept DEF FrameTypes
  <2>5. QED BY <2>1, <2>2, <2>3, <2>4, YieldsInOrder DEF Events, Phases, Work
<1>3. CASE engine[r] # "finished"
  <2>1. /\ at[r] \in {"prologue", "content"} /\ LastSent(r) = at[r] /\ Len(sent[r]) > 0
        /\ at' = [at EXCEPT ![r] = "awaiting"] /\ engine' = [engine EXCEPT ![r] = "running"]
        /\ sent' = sent /\ phase' = phase
    BY <1>1, <1>3 DEF InOrder, Events, AsksEngine, Goes, Engine, vars
  <2>2. Moves(r, phase[r], kind[r], "awaiting", chunk[r], "running", sent[r])
    BY <1>1, <2>1, Kept DEF Moves, FrameTypes, Places, Work
  <2>3. /\ phase'[r] = "running" /\ at'[r] = "awaiting" /\ engine'[r] = "running"
        /\ sent'[r] = sent[r]
    BY <1>1, <2>2 DEF Moves, FrameTypes
  <2>4. SlotHeld(r)'
    BY <2>3 DEF SlotHeld, Events
  <2>5. InOrder(r)'
    BY <1>1, <2>1, <2>3 DEF InOrder, LastSent, Events
  <2>6. QED BY <2>2, <2>4, <2>5, FrameMoved
<1>4. QED BY <1>2, <1>3

\* The frame ends and gives its slot back.
LEMMA LeaveStep ==
  ASSUME FrameInv, NEW r \in Requests, Leaves(r)
  PROVE  FrameInv'
<1>1. phase' = [phase EXCEPT ![r] = "idle"]
  BY GateMoves DEF Leaves, FrameInv, FrameTypes
<1>2. kind' = [kind EXCEPT ![r] = kind[r]] /\ kind[r] \in Kind
  BY Kept DEF Leaves, FrameInv, FrameTypes
<1>3. QED BY <1>1, <1>2, LeavesInOrder DEF Leaves, Engine, Phases, Work

-----------------------------------------------------------------------------

\* At first no request has a frame.
LEMMA FrameInit == ServiceInit => FrameInv
<1> SUFFICES ASSUME ServiceInit PROVE FrameInv
  OBVIOUS
<1>1. FrameTypes
  BY DEF ServiceInit, Init, FrameTypes, Phases, Kind, Places, Work
<1>2. ASSUME NEW r \in Requests PROVE SlotHeld(r) /\ InOrder(r)
  <2>1. phase[r] = "idle" /\ at[r] = "none" /\ engine[r] = "none" /\ sent[r] = <<>>
    BY DEF ServiceInit, Init
  <2>2. QED BY <2>1 DEF SlotHeld, InOrder, Events
<1>3. QED BY <1>1, <1>2 DEF FrameInv

\* Every step moves one frame and leaves it sound.
LEMMA FrameStep == FrameInv /\ [ServiceNext]_serviceVars => FrameInv'
<1> SUFFICES ASSUME FrameInv, [ServiceNext]_serviceVars PROVE FrameInv'
  OBVIOUS
<1>1. FrameTypes /\ \A r \in Requests : SlotHeld(r) /\ InOrder(r)
  BY DEF FrameInv
<1>2. ASSUME phase' = phase, UNCHANGED service PROVE FrameInv'
  BY <1>2 DEF FrameInv, FrameTypes, SlotHeld, InOrder, LastSent, service
<1>3. ASSUME NEW r \in Requests
      PROVE  /\ phase' = phase => phase' = [phase EXCEPT ![r] = phase[r]]
             /\ kind' = kind => kind' = [kind EXCEPT ![r] = kind[r]]
             /\ chunk' = chunk => chunk' = [chunk EXCEPT ![r] = chunk[r]]
             /\ engine' = engine => engine' = [engine EXCEPT ![r] = engine[r]]
             /\ phase[r] \in Phases /\ kind[r] \in Kind
             /\ chunk[r] \in Chunk \cup {None} /\ engine[r] \in Work
  BY <1>1, Kept DEF FrameTypes
<1>4. ASSUME NEW r \in Requests, NEW q \in Shapes, NEW k \in Kinds, Submit(r, q, k)
      PROVE  FrameInv'
  <2>1. PICK p \in Phases : phase' = [phase EXCEPT ![r] = p]
    BY <1>1, <1>4, GateMoves DEF Submit, FrameTypes
  <2>2. k \in Kind
    BY ServiceConstants DEF Kind
  <2>3. QED BY <1>4, <2>1, <2>2, AdmitStep DEF Submit
<1>5. ASSUME NEW r \in Requests, AdmitResumes(r) PROVE FrameInv'
  <2>1. PICK p \in {"idle", "running"} : phase' = [phase EXCEPT ![r] = p]
    BY <1>1, <1>5, GateMoves DEF AdmitResumes, FrameTypes
  <2>2. QED BY <1>3, <1>5, <2>1, AdmitStep DEF AdmitResumes, Phases
<1>6. ASSUME NEW r \in Requests, AdmitTimesOut(r) \/ DisconnectAdmitting(r) PROVE FrameInv'
  BY <1>1, <1>2, <1>6, GateMoves DEF AdmitTimesOut, DisconnectAdmitting, FrameTypes
<1>7. ASSUME NEW r \in Requests, Pull(r) PROVE FrameInv'
  <2>1. CASE at[r] \in {"prologue", "usage"} /\ AsksEngine(r)
    BY <1>7, <2>1, AskStep DEF Pull
  <2>2. CASE PullContent(r)
    <3>1. CASE chunk[r].finish
      <4>1. /\ at[r] = "content" /\ LastSent(r) = "content" /\ phase[r] = "running"
            /\ engine[r] = "finished" /\ Yields(r, "terminal")
            /\ UNCHANGED <<phase, kind, chunk, engine>>
        BY <1>1, <1>7, <2>2, <3>1 DEF Pull, PullContent, vars, SlotHeld, InOrder, Events
      <4>2. QED BY <1>3, <4>1, YieldsInOrder DEF Follows, Events
    <3>2. CASE ~chunk[r].finish
      BY <1>7, <2>2, <3>2, AskStep DEF Pull, PullContent
    <3>3. QED BY <3>1, <3>2
  <2>3. CASE PullTerminal(r)
    <3>1. CASE chunk[r].usage
      <4>1. /\ at[r] = "terminal" /\ LastSent(r) = "terminal" /\ phase[r] = "running"
            /\ engine[r] = "finished" /\ Yields(r, "usage")
            /\ UNCHANGED <<phase, kind, chunk, engine>>
        BY <1>1, <1>7, <2>3, <3>1 DEF Pull, PullTerminal, vars, SlotHeld, InOrder, Events
      <4>2. QED BY <1>3, <4>1, YieldsInOrder DEF Follows, Events
    <3>2. CASE ~chunk[r].usage
      BY <1>7, <2>3, <3>2, AskStep DEF Pull, PullTerminal
    <3>3. QED BY <3>1, <3>2
  <2>4. CASE PullError(r)
    <3>1. /\ at[r] = "error" /\ LastSent(r) = "error" /\ engine[r] = "none"
          /\ Yields(r, "done") /\ phase' = [phase EXCEPT ![r] = "idle"]
          /\ UNCHANGED <<kind, chunk, engine>>
      BY <1>1, <1>7, <2>4, GateMoves
         DEF Pull, PullError, FrameTypes, SlotHeld, InOrder, Events
    <3>2. "done" \in Follows[LastSent(r)]
      BY <3>1 DEF Follows
    <3>3. engine' = [engine EXCEPT ![r] = "none"]
      BY <1>3, <3>1
    <3>4. QED BY <1>3, <3>1, <3>2, <3>3, YieldsInOrder DEF Events, Phases, Work
  <2>5. CASE PullDone(r)
    <3>1. /\ at[r] = "done" /\ phase[r] = "idle" /\ engine[r] \notin {"running", "finished"}
          /\ Goes(r, "none") /\ UNCHANGED <<phase, kind, chunk, engine, sent>>
      BY <1>1, <1>7, <2>5 DEF Pull, PullDone, vars, SlotHeld
    <3>2. QED BY <1>3, <3>1, LeavesInOrder
  <2>6. QED BY <1>7, <2>1, <2>2, <2>3, <2>4, <2>5 DEF Pull
<1>8. ASSUME NEW r \in Requests, NEW c \in Chunks, EngineYields(r, c) PROVE FrameInv'
  <2>1. /\ at[r] = "awaiting" /\ kind[r] = "stream" /\ phase[r] = "running"
        /\ LastSent(r) \in {"prologue", "content"}
    BY <1>1, <1>8 DEF EngineYields, Consuming, SlotHeld, InOrder
  <2>2. c \in Chunk /\ (c.content \/ c.finish)
    BY ServiceConstants
  <2>3. /\ Yields(r, IF c.content THEN "content" ELSE "terminal")
        /\ chunk' = [chunk EXCEPT ![r] = c]
        /\ engine' = [engine EXCEPT ![r] = IF c.finish THEN "finished" ELSE "running"]
        /\ UNCHANGED <<phase, kind>>
    BY <1>8 DEF EngineYields, Engine, vars
  <2>4. {"content", "terminal"} \subseteq Follows[LastSent(r)]
    BY <2>1 DEF Follows
  <2> DEFINE event == IF c.content THEN "content" ELSE "terminal"
             e == IF c.finish THEN "finished" ELSE "running"
  <2>5. /\ event \in Events \ {"prologue", "done", "error"} /\ event \in Follows[LastSent(r)]
        /\ e \in Work /\ (event = "terminal" => e = "finished") /\ event # "usage"
    BY <2>2, <2>4 DEF Events, Work
  <2>6. Yields(r, event) /\ engine' = [engine EXCEPT ![r] = e]
    BY <2>3
  <2>7. "running" \in Phases /\ phase' = [phase EXCEPT ![r] = "running"]
    BY <1>3, <2>1, <2>3
  <2>8. c \in Chunk \cup {None} /\ e = IF c.finish THEN "finished" ELSE "running"
    BY <2>2
  <2> HIDE DEF event, e
  <2>9. QED BY <2>1, <2>2, <2>3, <2>5, <2>6, <2>7, <2>8, YieldsInOrder
<1>9. ASSUME NEW r \in Requests,
             \/ Completes(r) \/ EngineFails(r) \/ CompletionTimesOut(r)
             \/ DisconnectAwaiting(r)
      PROVE  FrameInv'
  BY <1>9, LeaveStep DEF Completes, EngineFails, CompletionTimesOut, DisconnectAwaiting
<1>10. ASSUME NEW r \in Requests, StreamTimesOut(r) PROVE FrameInv'
  <2>1. /\ at[r] = "awaiting" /\ kind[r] = "stream" /\ phase[r] = "running"
        /\ LastSent(r) \in {"prologue", "content"} /\ Yields(r, "error")
        /\ engine' = [engine EXCEPT ![r] = "none"] /\ UNCHANGED <<phase, kind, chunk>>
    BY <1>1, <1>10 DEF StreamTimesOut, Consuming, Engine, vars, SlotHeld, InOrder
  <2>2. "error" \in Follows[LastSent(r)]
    BY <2>1 DEF Follows
  <2>3. QED BY <1>3, <2>1, <2>2, YieldsInOrder DEF Events, Work
<1>11. ASSUME NEW r \in Requests, DisconnectSuspended(r) PROVE FrameInv'
  <2>1. /\ phase[r] \in {"running", "idle"}
        /\ engine[r] \in {"running", "finished"} => phase[r] = "running"
    BY <1>1, <1>11 DEF DisconnectSuspended, Streaming, SlotHeld, Events
  <2>2. Goes(r, "abandoned") /\ UNCHANGED <<phase, kind, chunk, engine, sent>>
    BY <1>11 DEF DisconnectSuspended, vars
  <2>3. /\ Len(sent[r]) > 0
        /\ phase[r] = IF LastSent(r) = "done" THEN "idle" ELSE "running"
    BY <1>1, <1>11 DEF DisconnectSuspended, Streaming, SlotHeld, InOrder
  <2>4. Moves(r, phase[r], kind[r], "abandoned", chunk[r], engine[r], sent[r])
    BY <1>1, <2>2, Kept DEF Moves, FrameTypes, Goes, Places
  <2>5. /\ phase'[r] = phase[r] /\ kind'[r] = kind[r] /\ at'[r] = "abandoned"
        /\ chunk'[r] = chunk[r] /\ engine'[r] = engine[r] /\ sent'[r] = sent[r]
    BY <1>1, <2>4 DEF Moves, FrameTypes
  <2>6. SlotHeld(r)'
    BY <2>1, <2>5 DEF SlotHeld, Events
  <2>7. InOrder(r)'
    BY <1>1, <2>3, <2>5 DEF InOrder, LastSent, Events
  <2>8. QED BY <2>4, <2>6, <2>7, FrameMoved
<1>12. ASSUME NEW r \in Requests, Finalize(r) PROVE FrameInv'
  <2>1. Goes(r, "none") /\ UNCHANGED <<kind, chunk, sent>>
    BY <1>12 DEF Finalize
  <2>2. CASE InsideTry(r)
    <3>1. /\ phase' = [phase EXCEPT ![r] = "idle"]
          /\ engine' = [engine EXCEPT ![r] = IF engine[r] = "running" THEN "orphaned" ELSE "none"]
      BY <1>1, <1>12, <2>2, GateMoves DEF Finalize, EngineDropped, Engine, FrameTypes
    <3>2. QED BY <1>3, <2>1, <3>1, LeavesInOrder DEF Phases, Work
  <2>3. CASE ~InsideTry(r)
    <3>1. /\ phase[r] = "idle" /\ engine[r] \notin {"running", "finished"}
          /\ UNCHANGED <<phase, engine>>
      BY <1>1, <1>12, <2>3 DEF Finalize, vars, SlotHeld, InOrder, InsideTry, LastSent
    <3>2. QED BY <1>3, <2>1, <3>1, LeavesInOrder
  <2>4. QED BY <2>2, <2>3
<1>13. ASSUME NEW r \in Requests, Abort(r) PROVE FrameInv'
  <2>1. /\ engine[r] = "orphaned" /\ engine' = [engine EXCEPT ![r] = "none"]
        /\ UNCHANGED <<phase, kind, at, chunk, sent>>
    BY <1>13 DEF Abort, Engine, vars
  <2>2. Moves(r, phase[r], kind[r], at[r], chunk[r], "none", sent[r])
    BY <1>1, <2>1, Kept DEF Moves, FrameTypes, Work
  <2>3. /\ phase'[r] = phase[r] /\ kind'[r] = kind[r] /\ at'[r] = at[r]
        /\ chunk'[r] = chunk[r] /\ engine'[r] = "none" /\ sent'[r] = sent[r]
    BY <1>1, <2>1 DEF FrameTypes
  <2>4. SlotHeld(r)' /\ InOrder(r)'
    BY <1>1, <2>1, <2>3 DEF SlotHeld, InOrder, LastSent
  <2>5. QED BY <2>2, <2>4, FrameMoved
<1>14. CASE UNCHANGED serviceVars
  BY <1>2, <1>14 DEF serviceVars, vars
<1>15. QED
  BY <1>4, <1>5, <1>6, <1>7, <1>8, <1>9, <1>10, <1>11, <1>12, <1>13, <1>14
     DEF ServiceNext, EngineSteps, Disconnect

\* In every state of the service the gate, the engine and the events sent agree
\* with the place of each frame.
THEOREM FramesSound == ServiceSpec => []FrameInv
BY FrameInit, FrameStep, PTL DEF ServiceSpec

\* Types, and a frame waits in admit() exactly while the gate has a waiter.
THEOREM ServiceTypeCorrect == ServiceSpec => []ServiceTypeOK
<1>1. FrameInv => ServiceTypeOK
  BY DEF FrameInv, FrameTypes, SlotHeld, ServiceTypeOK, Kind, Places, Work
<1>2. QED BY <1>1, FramesSound, PTL

\* A reservation lives from admit() to the end of its frame (chat_service.py:
\* 129-135).
THEOREM ReservationsLive == ServiceSpec => []ReservationLifetime
<1>1. FrameInv => ReservationLifetime
  BY DEF FrameInv, SlotHeld, ReservationLifetime
<1>2. QED BY <1>1, FramesSound, PTL

\* The engine works for a consumer only while the consumer has its slot.
THEOREM EngineWorkKeepsSlot == ServiceSpec => []EngineWorkHasSlot
<1>1. FrameInv => EngineWorkHasSlot
  BY DEF FrameInv, SlotHeld, EngineWorkHasSlot
<1>2. QED BY <1>1, FramesSound, PTL

\* The events of every stream come in the documented order
\* (chat_service.py:98-127).
THEOREM EventsInOrder == ServiceSpec => []EventOrder
<1>1. FrameInv => EventOrder
  BY DEF FrameInv, InOrder, EventOrder
<1>2. QED BY <1>1, FramesSound, PTL

(***************************************************************************)
(* The service is a correct client of the gate.  ReleaseStep is release()  *)
(* as the code has it, which frees whatever it is told to; that each one   *)
(* the service takes is owed is what the place of its frame tells.  What   *)
(* is proved of the gate therefore holds of the service.                   *)
(***************************************************************************)
LEMMA ReleasesOwed ==
  ASSUME FrameInv, NEW r \in Requests
  PROVE  /\ at[r] \in (Events \ {"done"}) \cup {"awaiting"} => phase[r] = "running"
         /\ at[r] = "abandoned" /\ InsideTry(r) => phase[r] = "running"
BY DEF FrameInv, SlotHeld, InOrder, InsideTry, LastSent

THEOREM ServiceObeysGate == ServiceSpec => UsesAdmission
<1>1. ServiceInit => Init
  BY DEF ServiceInit
<1>2. FrameInv /\ [ServiceNext]_serviceVars => [Next]_vars
  <2> SUFFICES ASSUME FrameInv, ServiceNext PROVE Next \/ UNCHANGED vars
    BY DEF serviceVars
  <2>1. PICK r \in Requests :
          \/ \E q \in Shapes, k \in Kinds : Submit(r, q, k)
          \/ AdmitResumes(r) \/ AdmitTimesOut(r) \/ Pull(r)
          \/ EngineSteps(r) \/ CompletionTimesOut(r) \/ StreamTimesOut(r)
          \/ Disconnect(r) \/ Finalize(r) \/ Abort(r)
    BY DEF ServiceNext
  <2>2. CASE \/ \E q \in Shapes, k \in Kinds : Submit(r, q, k)
             \/ AdmitResumes(r) \/ AdmitTimesOut(r) \/ DisconnectAdmitting(r)
    BY <2>2 DEF Next, Submit, AdmitResumes, AdmitTimesOut, DisconnectAdmitting
  <2>3. CASE Pull(r)
    <3>1. CASE UNCHANGED vars
      BY <3>1
    <3>2. CASE ReleaseStep(r) /\ at[r] \in {"prologue", "content", "terminal", "usage", "error"}
      BY <3>2, ReleasesOwed DEF Next, Release, Events
    <3>3. QED BY <2>3, <3>1, <3>2 DEF Pull, PullContent, PullTerminal, PullError, PullDone,
                                      AsksEngine
  <2>4. CASE EngineSteps(r) \/ CompletionTimesOut(r) \/ StreamTimesOut(r) \/ DisconnectAwaiting(r)
    <3>1. CASE UNCHANGED vars
      BY <3>1
    <3>2. CASE ReleaseStep(r) /\ at[r] = "awaiting"
      BY <3>2, ReleasesOwed DEF Next, Release
    <3>3. QED BY <2>4, <3>1, <3>2
              DEF EngineSteps, EngineYields, Completes, EngineFails, CompletionTimesOut,
                  StreamTimesOut, DisconnectAwaiting, Streaming, Consuming, Leaves
  <2>5. CASE Finalize(r)
    BY <2>5, ReleasesOwed DEF Next, Release, Finalize
  <2>6. CASE DisconnectSuspended(r) \/ Abort(r)
    BY <2>6 DEF DisconnectSuspended, Abort
  <2>7. QED BY <2>1, <2>2, <2>3, <2>4, <2>5, <2>6 DEF Disconnect
<1>3. QED BY <1>1, <1>2, FramesSound, PTL DEF ServiceSpec, UsesAdmission, Spec

\* Under the service the gate conserves its permits and keeps to its budget.
THEOREM ServiceKeepsGate ==
  ServiceSpec => [](PermitConservation /\ BudgetRespected /\ NoLostWakeUp)
BY ServiceObeysGate, PermitsConserved, BudgetNeverExceeded, WakeUpNeverLost, PTL
   DEF UsesAdmission

\* And its slots go out in arrival order, at most max_num_seqs of them, whatever
\* its streams, time-outs and disconnects do.
THEOREM ServiceServesInOrder == ASSUME SequenceGateRuns PROVE ServiceSpec => Slots!SlotsSpec
BY ServiceObeysGate, GateImplementsSlots, PTL DEF UsesAdmission

\* No stream, however it ends, leaves a permit, a place in the queue or a
\* reservation behind: when no frame is left, the gate is as it was at first.
THEOREM ServiceLeaksNothing ==
  ServiceSpec => []((\A r \in Requests : at[r] = "none") =>
                      /\ SequenceGateRuns => value = MaxNumSeqs
                      /\ waiters = <<>> /\ batchWaiters = 0 /\ tracker = 0)
<1>1. ReservationLifetime => ((\A r \in Requests : at[r] = "none") => Quiet)
  BY DEF ReservationLifetime, Quiet
<1>2. QED BY <1>1, ReservationsLive, ServiceObeysGate, NothingLeaks, PTL DEF UsesAdmission

\* EngineWithinLimit fails by the orphans and by nothing else: the engine never
\* executes more sequences than max_num_seqs and those whose consumer has gone,
\* until their abort (chat_service.py:222, admission.py:11-12).
Orphans == {r \in Requests : engine[r] = "orphaned"}

THEOREM ExcessIsOrphaned ==
  ServiceSpec => [](SequenceGateRuns =>
                      Cardinality({r \in Requests : engine[r] \in {"running", "orphaned"}})
                        <= MaxNumSeqs + Cardinality(Orphans))
<1> DEFINE served   == {r \in Requests : engine[r] = "running"}
           executed == {r \in Requests : engine[r] \in {"running", "orphaned"}}
<1>1. ASSUME EngineWorkHasSlot, TypeOK, InFlightBounded, SequenceGateRuns
      PROVE  Cardinality(executed) <= MaxNumSeqs + Cardinality(Orphans)
  <2>1. served \subseteq Running
    BY <1>1 DEF EngineWorkHasSlot, Running
  <2>2. IsFiniteSet(Running) /\ Cardinality(Running) <= MaxNumSeqs
    BY <1>1, HeldApart DEF InFlightBounded
  <2>3. IsFiniteSet(Orphans)
    BY AdmissionConstants, FS_Subset DEF Orphans
  <2>4. executed = served \cup Orphans
    BY DEF Orphans
  <2> HIDE DEF served, executed
  <2>5. IsFiniteSet(served) /\ Cardinality(served) <= Cardinality(Running)
    BY <2>1, <2>2, FS_Subset
  <2>6. IsFiniteSet(served \cap Orphans)
    BY <2>5, FS_Intersection
  <2>7. /\ Cardinality(served) \in Nat /\ Cardinality(Orphans) \in Nat
        /\ Cardinality(Running) \in Nat /\ Cardinality(served \cap Orphans) \in Nat
    BY <2>2, <2>3, <2>5, <2>6, FS_CardinalityType
  <2>8. Cardinality(served \cup Orphans)
          = Cardinality(served) + Cardinality(Orphans) - Cardinality(served \cap Orphans)
    BY <2>3, <2>5, FS_Union
  <2>9. MaxNumSeqs \in Nat
    BY <1>1, MaxNumSeqsType DEF Positive
  <2>10. QED BY <2>2, <2>4, <2>5, <2>7, <2>8, <2>9
<1>2. EngineWorkHasSlot /\ TypeOK /\ InFlightBounded =>
        (SequenceGateRuns => Cardinality(executed) <= MaxNumSeqs + Cardinality(Orphans))
  BY <1>1
<1>3. QED
  BY <1>2, EngineWorkKeepsSlot, ServiceObeysGate, TypeCorrect, InFlightNeverExceedsLimit, PTL
     DEF UsesAdmission
=============================================================================
