----------------------------- MODULE CompareApp -----------------------------
(***************************************************************************)
(* The compare view of the playground (playground/app.py) on top of its    *)
(* server control: the models are chosen, the servers made ready, and then *)
(* each prompt is streamed from all of them at once, into one panel per    *)
(* model.  Everything runs on the event loop of the UI.                    *)
(*                                                                         *)
(* A panel is the set of the prompts that what it shows came from; what a  *)
(* token says is left out.  Each stream ends, also by its read time-out.   *)
(***************************************************************************)
EXTENDS ServerControl

CONSTANT MaxPrompts  \* bound on the prompts submitted

ASSUME MaxPromptsAssumption == MaxPrompts \in Nat

VARIABLES
  prompt,    \* the number of the latest prompt submitted
  worker,    \* its worker: "none", "queued", "refreshing" or "gathering"
  inFlight,  \* in_flight
  enabled,   \* whether the input takes a prompt
  stream,    \* by prompt and panel: "none", "open", "done" or "failed"
  panel      \* by panel, what it shows

appVars == <<prompt, worker, inFlight, enabled, stream, panel>>
playgroundVars == <<controlVars, appVars>>

Streams == (1..MaxPrompts) \X Ports

-----------------------------------------------------------------------------
(***************************************************************************)
(* _startup_flow(): the input is enabled when all models are served.       *)
(***************************************************************************)
EnableInput ==
  /\ at = "ready" /\ prompt = 0 /\ ~enabled
  /\ enabled' = TRUE
  /\ UNCHANGED <<controlVars, prompt, worker, inFlight, stream, panel>>

-----------------------------------------------------------------------------
(***************************************************************************)
(* A prompt.  Enter starts a worker that runs later; a second Enter before *)
(* that replaces it (exclusive).                                           *)
(***************************************************************************)
Enter ==
  /\ at = "ready" /\ enabled /\ ~inFlight /\ prompt < MaxPrompts
  /\ prompt' = prompt + 1 /\ worker' = "queued"
  /\ UNCHANGED <<controlVars, inFlight, enabled, stream, panel>>

\* _submit_prompt() up to its first await, the look at the servers' health.
BeginSubmit ==
  /\ at = "ready" /\ worker = "queued"
  /\ worker' = "refreshing" /\ inFlight' = TRUE /\ enabled' = FALSE
  /\ UNCHANGED <<controlVars, prompt, stream, panel>>

\* One task per model is started, which empties its panel.
Gather ==
  /\ at = "ready" /\ worker = "refreshing"
  /\ worker' = "gathering"
  /\ stream' = [s \in Streams |-> IF s[1] = prompt THEN "open" ELSE stream[s]]
  /\ panel' = [p \in Ports |-> {}]
  /\ UNCHANGED <<controlVars, prompt, inFlight, enabled>>

EndOfSubmit == worker' = "none" /\ inFlight' = FALSE /\ enabled' = TRUE

-----------------------------------------------------------------------------
(***************************************************************************)
(* _stream_model()                                                         *)
(***************************************************************************)
Token(s) ==
  /\ at = "ready" /\ stream[s] = "open"
  /\ panel' = [panel EXCEPT ![s[2]] = @ \cup {s[1]}]
  /\ UNCHANGED <<controlVars, prompt, worker, inFlight, enabled, stream>>

\* gather() returns when the last of its streams is done.
AnyOpen(s) == worker = "gathering" /\ s[1] = prompt

LastOpen(s) == worker = "gathering" /\ s[1] = prompt
               /\ \A p \in Ports \ {s[2]} : stream[<<prompt, p>>] # "open"

\* An empty panel then shows an error of its own.
StreamDone(s) ==
  /\ at = "ready" /\ stream[s] = "open"
  /\ stream' = [stream EXCEPT ![s] = "done"]
  /\ panel' = [panel EXCEPT ![s[2]] = IF @ = {} THEN {s[1]} ELSE @]
  /\ IF LastOpen(s) THEN EndOfSubmit ELSE UNCHANGED <<worker, inFlight, enabled>>
  /\ UNCHANGED <<controlVars, prompt>>

FailureKeepsInput(s) ==
  /\ at = "ready" /\ stream[s] = "open"
  /\ stream' = [stream EXCEPT ![s] = "failed"]
  /\ worker' = IF worker = "gathering" /\ s[1] = prompt THEN "none" ELSE worker
  /\ UNCHANGED <<controlVars, prompt, inFlight, enabled, panel>>

\* The first stream to raise ends gather(), and with it the submission; the
\* other one goes on by itself, and what it raises is dropped.
StreamFails(s) ==
  /\ at = "ready" /\ stream[s] = "open"
  /\ stream' = [stream EXCEPT ![s] = "failed"]
  /\ IF worker = "gathering" /\ s[1] = prompt THEN EndOfSubmit
     ELSE UNCHANGED <<worker, inFlight, enabled>>
  /\ UNCHANGED <<controlVars, prompt, panel>>

\* ctrl+l empties the panels, also in mid-stream.
ClearResponses ==
  /\ at = "ready" /\ panel # [p \in Ports |-> {}]
  /\ panel' = [p \in Ports |-> {}]
  /\ UNCHANGED <<controlVars, prompt, worker, inFlight, enabled, stream>>

-----------------------------------------------------------------------------

AppInit ==
  /\ ControlInit
  /\ prompt = 0 /\ worker = "none" /\ inFlight = FALSE /\ enabled = FALSE
  /\ stream = [s \in Streams |-> "none"]
  /\ panel = [p \in Ports |-> {}]

\* Nothing of the application is left.
QuitApp ==
  /\ Quit
  /\ prompt' = 0 /\ worker' = "none" /\ inFlight' = FALSE /\ enabled' = FALSE
  /\ stream' = [s \in Streams |-> "none"]
  /\ panel' = [p \in Ports |-> {}]

StreamEnds(s) == StreamDone(s) \/ StreamFails(s)

AppNext ==
  \/ EnableInput \/ Enter \/ BeginSubmit \/ Gather \/ ClearResponses
  \/ \E s \in Streams : Token(s) \/ StreamEnds(s)

\* Bound: what servers do once a prompt was submitted is in how its streams
\* end; it is followed up to the first prompt, and from the quitting to the
\* exit.
PlaygroundNext ==
  \/ prompt = 0 /\ at # "exited" /\ ControlNext /\ UNCHANGED appVars
  \/ QuitApp \/ AppNext

PlaygroundSpec == AppInit /\ [][PlaygroundNext]_playgroundVars

(***************************************************************************)
(* The event loop runs what is ready, and a stream ends by its read        *)
(* time-out at the latest.                                                 *)
(***************************************************************************)
PlaygroundFairSpec ==
  /\ PlaygroundSpec
  /\ WF_playgroundVars(BeginSubmit) /\ WF_playgroundVars(Gather)
  /\ \A s \in Streams : WF_playgroundVars(StreamEnds(s))
=============================================================================
