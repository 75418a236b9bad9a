--------------------------- MODULE MCForgettingPass ---------------------------
(* ForgettingPass for TLC: all memories are alike; nothing tells passes or *)
(* reviews apart.                                                          *)
EXTENDS ForgettingPass, TLC

AllNear == {{a, b} : a, b \in Memories} \ {{a} : a \in Memories}
Alike == Permutations(Passes) \cup Permutations(Reviewers)
=============================================================================
