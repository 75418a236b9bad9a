---------------------------- MODULE SessionLease ----------------------------
(***************************************************************************)
(* The clock arithmetic every path over agent_sessions shares: when a      *)
(* lease is live, what an explicit close looks like on the row, and when   *)
(* the sweep may stamp an implicit one.                                    *)
(* Instants are naturals; the unit is whatever makes Lease and Grace small.*)
(***************************************************************************)
EXTENDS Integers

CONSTANTS
  Lease,        \* SESSION_LEASE_MS
  Grace,        \* SESSION_SWEEP_GRACE_MS
  BackoffBase,  \* CLOSER_BACKOFF_BASE_MS
  BackoffMax,   \* CLOSER_BACKOFF_MAX_MS
  NULL          \* SQL NULL

(* A positive lease and a positive grace are what the two schema constants *)
(* promise; the proofs need no more.                                       *)
ASSUME LeaseAssumption ==
  /\ Lease \in Nat \ {0}
  /\ Grace \in Nat \ {0}
  /\ BackoffBase \in Nat \ {0}
  /\ BackoffMax \in Nat \ {0}

ASSUME NullAssumption == NULL \notin Int

Instant == Nat

(* GREATEST and LEAST of two non-null operands.                            *)
Greatest(a, b) == IF a >= b THEN a ELSE b
Least(a, b) == IF a <= b THEN a ELSE b

(* The oldest last_seen_at that still counts as leased.                    *)
leaseFloor(now) == now - Lease

isLeased(lastSeen, now) == lastSeen > leaseFloor(now)

(* A SessionEnd close, told apart from a sweeper's by the row alone.       *)
isExplicitClose(closedAt, lastSeen) ==
  /\ closedAt # NULL
  /\ closedAt <= lastSeen + Lease

monotonicLastSeen(lastSeen, now) == Greatest(lastSeen, now)

(* The sweep closes a run only past the lease AND the grace.               *)
sweepFloorNoGrace(now) == now - Lease
sweepFloor(now) == now - Lease - Grace
=============================================================================
