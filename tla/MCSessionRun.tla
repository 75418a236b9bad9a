---- MODULE MCSessionRun ----
(* Small instances of SessionRun.  Event ids and processes are model       *)
(* values: nothing in the model orders them.                               *)
EXTENDS SessionRun, TLC

RunSymmetry == Permutations(EventIds) \cup Permutations(Passes)
==============================
