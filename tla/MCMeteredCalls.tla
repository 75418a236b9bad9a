--------------------------- MODULE MCMeteredCalls ---------------------------
(* MeteredCalls for TLC: a call costs a cent at worst, an unpriced one     *)
(* counts as two, and nothing tells calls or memories apart.               *)
EXTENDS MeteredCalls, TLC

MCEstimate == [c \in Calls |-> 1]

Alike == Permutations(Calls) \cup Permutations(Memories)

MCWindows == {[from |-> 1, to |-> 3]}
=============================================================================
