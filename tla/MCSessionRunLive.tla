---- MODULE MCSessionRunLive ----
(* The instance of SessionRunLive that TLC checks; no symmetry, which is   *)
(* unsound for liveness.                                                   *)
EXTENDS SessionRunLive, TLC
==================================
