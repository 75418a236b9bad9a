------------------------------ MODULE MCSignup -------------------------------
(* Signup for TLC: nothing tells requests or browsers apart.               *)
EXTENDS Signup, TLC

Alike == Permutations(Requests) \cup Permutations(Proofs)
=============================================================================
