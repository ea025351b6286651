-------------------------- MODULE SequentialCompare --------------------------
(***************************************************************************)
(* The comparison of two models on one GPU (playground/client.py,          *)
(* --compare A B --sequential): all prompts are put to model A, the user   *)
(* restarts the server with model B, the client waits for that, and puts   *)
(* them to B.  The client is sequential; the server and the user are not.  *)
(***************************************************************************)
EXTENDS Integers, Sequences

CONSTANTS
  Models,       \* the models the server has registered
  A, B,         \* the models compared, two of them
  Prompts,      \* the number of prompts, one at least
  MaxRestarts   \* bound on the restarts of the server

VARIABLES
  server,    \* "down", or the model it has loaded
  restarts,  \* the restarts so far
  at,        \* "asking A", "waiting", "pinging", "asking B" or "over"
  answers,   \* the models that answered, in order
  code       \* "none", "printed", "error", "timed out" or "raised"

vars == <<server, restarts, at, answers, code>>

-----------------------------------------------------------------------------
(***************************************************************************)
(* The server.                                                             *)
(***************************************************************************)

\* A registered model that is not loaded is refused with a ValueError, whose
\* text names the loaded one.
Refusal(m) ==
  CASE server = "down" -> "cannot reach server"
    [] server \in Models \ {m} -> "loaded model is"
    [] OTHER -> "none"

\* What a client gets to read of it.
Shown(text) == IF text = "loaded model is" THEN "request could not be processed" ELSE text

\* Any other request may fail too: time-outs, 429, 5xx.
Replies(m) ==
  IF Refusal(m) = "none" THEN {"ok", "other failure"} ELSE {Shown(Refusal(m))}

\* The user stops the server, and starts it with the next model.
StopServer ==
  /\ server # "down" /\ restarts < MaxRestarts
  /\ server' = "down" /\ restarts' = restarts + 1
  /\ UNCHANGED <<at, answers, code>>

StartServer ==
  /\ server = "down"
  /\ server' \in {A, B}
  /\ UNCHANGED <<restarts, at, answers, code>>

-----------------------------------------------------------------------------
(***************************************************************************)
(* run_compare_sequential() and wait_for_loaded_model().                   *)
(***************************************************************************)
End(c) == at' = "over" /\ code' = c

\* The first error ends the run.
Ask(place, m, before, next) ==
  /\ at = place
  /\ \E reply \in Replies(m) :
       IF reply # "ok" THEN End("error") /\ UNCHANGED answers
       ELSE /\ answers' = Append(answers, m)
            /\ IF Len(answers') = before + Prompts THEN next ELSE UNCHANGED <<at, code>>
  /\ UNCHANGED <<server, restarts>>

AskA == Ask("asking A", A, 0, at' = "waiting" /\ UNCHANGED code)
AskB == Ask("asking B", B, Prompts, End("printed"))

\* Nothing happens while the server is unhealthy.
CheckHealth ==
  /\ at = "waiting" /\ server # "down"
  /\ at' = "pinging"
  /\ UNCHANGED <<server, restarts, answers, code>>

Ping ==
  /\ at = "pinging"
  /\ \E reply \in Replies(B) :
       CASE reply = "ok" -> at' = "asking B" /\ UNCHANGED code
         [] reply = "loaded model is" -> at' = "waiting" /\ UNCHANGED code
         [] OTHER -> End("raised")
  /\ UNCHANGED <<server, restarts, answers>>

\* The deadline is looked at between two polls.
GiveUp ==
  /\ at = "waiting" /\ End("timed out")
  /\ UNCHANGED <<server, restarts, answers>>

-----------------------------------------------------------------------------

Init ==
  /\ server \in {"down", A, B} /\ restarts = 0
  /\ at = "asking A" /\ answers = <<>> /\ code = "none"

Next == StopServer \/ StartServer \/ AskA \/ AskB \/ CheckHealth \/ Ping \/ GiveUp

Spec == Init /\ [][Next]_vars

\* wait_for_loaded_model() polls until the expected model is the loaded one
\* (client.py:450): while a server with the other model answers, the wait ends
\* by its deadline only.
PollsUntilLoaded == [][at = "pinging" /\ server = A => at' # "over"]_vars
=============================================================================
