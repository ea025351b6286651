------------------------ MODULE PlaygroundProperties ------------------------
(***************************************************************************)
(* What a user of the playground relies on.                                *)
(***************************************************************************)
EXTENDS CompareApp

\* When ensure_models_loaded() has returned its mapping, each model has been
\* loaded by a server at its port that the playground did not stop: it runs, or
\* has died by itself since.  Or it was told to stop, and answered once more
\* after the sleep of 1.5 s (server_control.py:65-79, 174-177).
MappingIsServed ==
  at = "ready" =>
    \A p \in Ports : \E s \in Range(servers) :
      s.port = p /\ s.model = Wanted[p] /\ (s.state \in {"up", "died"} \/ s.late)

\* After the exit every server the playground started has stopped or been told
\* to, unless it was quit while it was starting them; and if it had only
\* attached to servers of others, it has stopped none of them
\* (server_control.py:82-88).
CleanupMatchesStart ==
  at = "exited" =>
    LET own == {s \in Range(servers) : s.by = "playground"}
    IN  /\ outcome # "cut" => \A s \in own : s.state \notin {"starting", "up", "broken"}
        /\ outcome = "loaded" /\ own = {} =>
             \A s \in Range(servers) : s.state \notin {"closing", "ending", "stopped", "broken"}

\* A text as reads that ended at the cuts see it: of a character that is cut
\* both parts are replaced, and a Break at a cut joins its line to the next.
Seen(text, cuts) ==
  [i \in 1..Len(text) |->
     CASE text[i] = Lead /\ i \in cuts -> Undecodable
       [] text[i] = Trail /\ i - 1 \in cuts -> Undecodable
       [] text[i] = Break /\ i \in cuts -> Joined
       [] OTHER -> text[i]]

\* Where the lines of a text end: each end in it ends one of them, in order.
EndLines(ends, lines, text) ==
  /\ \A j \in DOMAIN lines : \A i \in 1..(j - 1) : ends[i] < ends[j]
  /\ \A i \in DOMAIN text : EndsLine(text[i]) <=> \E j \in DOMAIN lines : ends[j] = i
  /\ \A j \in DOMAIN lines :
       lines[j] = SubSeq(text, IF j = 1 THEN 1 ELSE ends[j - 1] + 1, ends[j] - 1)

\* The lines of a text that are ended, once, whole and in order.
AreEndedLines(lines, text) ==
  \E ends \in [DOMAIN lines -> DOMAIN text] : EndLines(ends, lines, text)

\* The feed has every ended line of the log up to where the tailer has read,
\* once and in order, and a tailer that stops has left nothing out; wherever the
\* polls cut the log, nothing is damaged but a character or a Break that stands
\* at a cut (log_feed.py:329-359).
FeedFaithful ==
  /\ [][\A p \in Ports : tail[p].on =>
          AreEndedLines(tail[p].feed,
                        Seen(SubSeq(log[p], 1, tail[p].offset), tail[p].cuts))]_playgroundVars
  /\ [][\A p \in Ports : tail[p].on /\ ~tail[p].on' =>
          AreEndedLines(tail[p].feed', Seen(log[p], tail[p].cuts'))]_playgroundVars

\* A panel shows one prompt's response, the latest one's; a token of an earlier
\* prompt is there only if that prompt's other stream failed, which leaves this
\* one running (app.py:406).
PanelsUnmixed ==
  \A p \in Ports : \A q \in panel[p] \ {prompt} :
    worker # "gathering" \/ \E o \in Ports \ {p} : stream[<<q, o>>] = "failed"

\* A submission ends, and the input takes the next one, however its streams
\* end; unless the playground does.
EverySubmissionEnds == inFlight ~> (enabled /\ ~inFlight) \/ at # "ready"
=============================================================================
