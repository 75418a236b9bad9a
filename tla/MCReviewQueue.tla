---------------------------- MODULE MCReviewQueue ----------------------------
(* ReviewQueue for TLC: nothing tells passes, runs or reviews apart.       *)
EXTENDS ReviewQueue, TLC

Alike == Permutations(Passes) \cup Permutations(Runs) \cup Permutations(Reviewers)
=============================================================================
