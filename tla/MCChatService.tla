--------------------------- MODULE MCChatService ----------------------------
(***************************************************************************)
(* Small instances of the service: few clients over one slot, with chunks  *)
(* that exercise every branch from chunk to events.                        *)
(***************************************************************************)
EXTENDS ChatServiceProperties, TLC

Shape(prompt, output) ==
  [priority |-> "interactive", strict |-> FALSE, counted |-> prompt, chars |-> 0,
   maxOutput |-> output, maxTokens |-> None, maxContext |-> None]

\* One request that fits and one whose prompt exceeds the context ceiling.
MCShapes == {Shape(2, 3), Shape(9, 1)}

\* The chunks of VLLMEngine, and one that carries text with its finish.
MCChunks == {[content |-> TRUE, finish |-> FALSE, usage |-> FALSE],
             [content |-> FALSE, finish |-> TRUE, usage |-> TRUE],
             [content |-> TRUE, finish |-> TRUE, usage |-> FALSE]}

\* Clients are interchangeable: the safety properties name none of them.
MCSymmetry == Permutations(Requests)
=============================================================================
