---------------------------- MODULE MCCredentials ----------------------------
(* Credentials for TLC: nothing tells requests, standing credentials or    *)
(* clients apart.                                                          *)
EXTENDS Credentials, TLC

Alike == Permutations(Requests) \cup Permutations(Standing)
           \cup Permutations(Clients)
=============================================================================
