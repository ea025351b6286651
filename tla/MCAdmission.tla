---------------------------- MODULE MCAdmission -----------------------------
(***************************************************************************)
(* Small instances of the admission gate: a handful of clients over one or *)
(* two permits, with request shapes that hit every branch of the gates.    *)
(***************************************************************************)
EXTENDS AdmissionRefinement, TLC

Shape(priority, strict, prompt, output) ==
  [priority |-> priority, strict |-> strict, counted |-> prompt, chars |-> 0,
   maxOutput |-> output, maxTokens |-> None, maxContext |-> None]

\* With a context ceiling of 9 and a KV budget of 12: a batch request of 4
\* tokens and an interactive one, which beside a long strict one are refused
\* and clamped; the strict one of 9, refused beside anybody; and one whose
\* prompt exceeds the ceiling.  Three of 4 tokens fit the budget, so that it
\* is the sequence gate alone that keeps a third request out.
MCShapes == {Shape("batch", FALSE, 1, 3), Shape("interactive", FALSE, 1, 3),
             Shape("interactive", TRUE, 2, 7), Shape("interactive", FALSE, 10, 1)}

\* Clients are interchangeable: the safety properties name none of them.
MCSymmetry == Permutations(Requests)
=============================================================================
