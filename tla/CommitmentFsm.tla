---------------------------- MODULE CommitmentFsm ----------------------------
(***************************************************************************)
(* The commitment state machine that packages/schema exports and the       *)
(* database trigger is generated from.                                     *)
(***************************************************************************)

COMMITMENT_TRANSITIONS ==
  [ open     |-> {"waiting", "resolved", "expired"},
    waiting  |-> {"open", "resolved", "expired"},
    resolved |-> {"open"},
    expired  |-> {"open"} ]

CommitmentStatus == {"open", "waiting", "resolved", "expired"}

LIVE_COMMITMENT_STATES == {"open", "waiting"}

canTransition(from, to) ==
  from \in CommitmentStatus /\ to \in COMMITMENT_TRANSITIONS[from]
=============================================================================
