---------------------------- MODULE MCMemoryWrites ----------------------------
(* MemoryWrites for TLC.  A call brings one value or a series of two, of   *)
(* one key or of two in either order; nothing tells calls, memories or     *)
(* hashes apart.                                                           *)
EXTENDS MemoryWrites, TLC

Implicit(k) == [key |-> k, from |-> NULL, many |-> FALSE]
Since(k, t) == [key |-> k, from |-> t, many |-> FALSE]

MCSerieses ==
  { <<>>, <<Implicit(1)>>, <<[Implicit(1) EXCEPT !.many = TRUE]>>,
    <<Since(1, 1), Implicit(1)>>, <<Implicit(2), Implicit(1)>>,
    <<Implicit(1), Implicit(2)>> }

MCLimits == {NULL, 2}

Alike ==
  Permutations(Calls) \cup Permutations(Standing) \cup Permutations(Hashes)
=============================================================================
