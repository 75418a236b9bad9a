-------------------------- MODULE CommitmentAudit --------------------------
(***************************************************************************)
(* What the commitment lifecycle promises: statuses move along             *)
(* COMMITMENT_TRANSITIONS only, and the event stream replays them - one    *)
(* event per transition, none without.  trail is the status a reader of    *)
(* the events arrives at.                                                  *)
(***************************************************************************)
EXTENDS CommitmentFsm

CONSTANT Commitments

VARIABLES status, trail

auditVars == <<status, trail>>

AuditInit ==
  /\ status = [k \in Commitments |-> "none"]
  /\ trail = status

(* A commitment is born open, with the event of its memory or its own.     *)
Begin(k) ==
  /\ status[k] = "none"
  /\ status' = [status EXCEPT ![k] = "open"]
  /\ trail' = [trail EXCEPT ![k] = "open"]

(* The sweep expires many in one transaction; everybody else moves one.    *)
Advance(K, to) ==
  /\ \A k \in K : canTransition(status[k], to)
  /\ status' = [k \in Commitments |-> IF k \in K THEN to ELSE status[k]]
  /\ trail' = [k \in Commitments |-> IF k \in K THEN to ELSE trail[k]]

AuditNext ==
  \/ \E k \in Commitments : Begin(k)
  \/ \E K \in SUBSET Commitments, to \in CommitmentStatus : Advance(K, to)

AuditSpec == AuditInit /\ [][AuditNext]_auditVars
=============================================================================
