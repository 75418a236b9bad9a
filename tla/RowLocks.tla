------------------------------ MODULE RowLocks ------------------------------
(***************************************************************************)
(* Postgres row locks, as far as packages/db relies on them.  Every lock   *)
(* is held to the end of its transaction.  A plain UPDATE of columns that  *)
(* no foreign key refers to takes "nokeyupdate"; inserting a row takes     *)
(* "keyshare" on each row its foreign keys name.                           *)
(***************************************************************************)

CONSTANT Clients  \* database sessions, each in at most one transaction

VARIABLE held     \* what each of them holds: a set of <<row, mode>>

Modes == {"keyshare", "share", "nokeyupdate", "update"}

(* The documented conflict table: a FOR UPDATE excludes everybody, a plain *)
(* UPDATE everybody but a key share, a FOR SHARE every writer.             *)
Conflict(a, b) ==
  \/ a = "update" \/ b = "update"
  \/ a = "nokeyupdate" /\ b # "keyshare"
  \/ b = "nokeyupdate" /\ a # "keyshare"

(* c holds something that makes whoever asks for mode on row wait.         *)
Obstructs(c, row, mode) ==
  \E m \in Modes : <<row, m>> \in held[c] /\ Conflict(m, mode)

(* c would not have to wait for mode on row.                               *)
Grantable(c, row, mode) ==
  \A d \in Clients \ {c} : ~Obstructs(d, row, mode)
=============================================================================
