---------------------------- MODULE MCPlayground ----------------------------
(***************************************************************************)
(* A comparison of two models, two prompts, and at most one server of      *)
(* others besides the one there may be at the beginning.                   *)
(***************************************************************************)
EXTENDS PlaygroundProperties

MCWanted == <<"a", "b">>
=============================================================================
