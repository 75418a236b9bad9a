--------------------------- MODULE MCMemoryChain ---------------------------
(* MemoryChain for TLC: clients, memories and commitments are model values *)
(* that nothing in it tells apart.                                         *)
EXTENDS MemoryChain, TLC

Interchangeable ==
  Permutations(Clients) \cup Permutations(Memories) \cup Permutations(Commitments)
=============================================================================
