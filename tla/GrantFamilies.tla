---------------------------- MODULE GrantFamilies ----------------------------
(***************************************************************************)
(* What the token endpoint promises of a user's OAuth grants.  A family is *)
(* what comes of one authorization code: the code is redeemed at most      *)
(* once, into at most one refresh token, which is replaced by at most one  *)
(* successor at a time.  A family that has ended stays ended.              *)
(***************************************************************************)
EXTENDS FiniteSets

CONSTANT Ids              \* codes, each naming its family, and token pairs

VARIABLES
  stage,   \* each family: "unborn", "fresh", "redeemed", "granted", "void"
  heads,   \* each family: its unrevoked refresh tokens
  spent    \* pairs that have been issued

fvars == <<stage, heads, spent>>

Issued(f) ==
  \/ stage[f] = "unborn" /\ heads[f] = {}
  \/ stage[f] = "fresh" /\ heads[f] = {}
  \/ stage[f] = "granted" /\ heads[f] \subseteq {f}

Init ==
  /\ stage \in [Ids -> {"unborn", "fresh", "granted"}]
  /\ heads \in [Ids -> SUBSET Ids]
  /\ \A f \in Ids : Issued(f)
  /\ spent = {f \in Ids : stage[f] = "granted"}

Authorize(f) ==
  /\ stage[f] = "unborn"
  /\ stage' = [stage EXCEPT ![f] = "fresh"]
  /\ UNCHANGED <<heads, spent>>

Redeem(f) ==
  /\ stage[f] = "fresh"
  /\ stage' = [stage EXCEPT ![f] = "redeemed"]
  /\ UNCHANGED <<heads, spent>>

(* The first pair; a client without refresh tokens gets none.              *)
Grant(f, p) ==
  /\ stage[f] = "redeemed"
  /\ p \notin spent
  /\ stage' = [stage EXCEPT ![f] = "granted"]
  /\ heads' \in {heads, [heads EXCEPT ![f] = {p}]}
  /\ spent' = spent \cup {p}

Rotate(f, p, q) ==
  /\ heads[f] = {p}
  /\ q \notin spent
  /\ heads' = [heads EXCEPT ![f] = {q}]
  /\ spent' = spent \cup {q}
  /\ UNCHANGED stage

(* Codes expire or are burned; tokens are revoked; both may be deleted.    *)
End ==
  /\ \A f \in Ids : heads'[f] \subseteq heads[f]
  /\ \A f \in Ids : \/ stage'[f] = stage[f]
                    \/ stage[f] = "fresh" /\ stage'[f] = "void"
  /\ heads' \in [Ids -> SUBSET Ids]
  /\ stage' \in [Ids -> {"unborn", "fresh", "redeemed", "granted", "void"}]
  /\ UNCHANGED spent

Next ==
  \/ End
  \/ \E f \in Ids : Authorize(f) \/ Redeem(f)
  \/ \E f, p \in Ids : Grant(f, p)
  \/ \E f, p, q \in Ids : Rotate(f, p, q)

Spec == Init /\ [][Next]_fvars
=============================================================================
