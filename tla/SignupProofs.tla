---------------------------- MODULE SignupProofs ----------------------------
(***************************************************************************)
(* What the properties of Signup rest on: while the account is unverified, *)
(* its links that are not consumed were all made for the proof that its    *)
(* password came with, and whoever is about to mint or to activate has     *)
(* found so under the lock.                                                *)
(***************************************************************************)
EXTENDS Signup, TLAPS

Locked == {"swapping", "minting", "activating"}

RequestStates ==
  [ pc : {"idle", "create", "raced", "retry", "swapping", "reread",
          "resend", "minting", "peeked", "activating", "done"},
    expected : Passwords \cup {NULL}, attempt : 0..MaxAttempts,
    of : Requests \cup {NULL} ]

(* A request that has not begun has no password and no link; one that is   *)
(* served has an account; one that has the lock, one that is unverified.   *)
RequestOK(r) ==
  /\ req[r].attempt < MaxAttempts
  /\ req[r].pc = "idle" => link[r] = "none" /\ user.password # r
  /\ req[r].pc \notin {"idle", "create", "done"} => user.exists
  /\ req[r].pc \in Locked => ~user.verified
  /\ req[r].pc = "minting" => owned(r)
  /\ req[r].pc \in {"peeked", "activating"} =>
       /\ req[r].of \in Requests
       /\ req[req[r].of].pc # "idle"
       /\ proof[req[r].of] = proof[r]
  /\ req[r].pc = "activating" => Unconsumed(req[r].of)

AccountOK ==
  ~user.exists => ~user.verified /\ \A d \in Requests : ~Unconsumed(d)

LinksOwn ==
  ~user.verified =>
    \A d \in Requests : Unconsumed(d) =>
      \/ user.password = Mailbox
      \/ user.password \in Requests /\ proof[d] = proof[user.password]

IInv ==
  /\ TypeOK
  /\ \A r \in Requests : RequestOK(r)
  /\ AccountOK
  /\ LinksOwn
  /\ NoLinkOutlivesVerification

-----------------------------------------------------------------------------
LEMMA Types ==
  ASSUME TypeOK
  PROVE  /\ user \in [ exists : BOOLEAN, password : Passwords \cup {NULL},
                       verified : BOOLEAN ]
         /\ link \in [Requests -> {"none", "live", "lapsed", "consumed"}]
         /\ proof \in [Requests -> Proofs \cup {NULL}]
         /\ verifying \in Requests \cup {NULL}
         /\ req \in [Requests -> RequestStates]
         /\ \A r \in Requests : verifying = r <=> req[r].pc \in Locked
BY DEF TypeOK, RequestStates, Locked

(* A request gets a proof of its own and goes where it goes first.         *)
LEMMA BeginPreserves ==
  ASSUME IInv, NEW r \in Requests, NEW p \in Proofs, NEW row \in RequestStates,
         Begins(r, p), Become(r, row),
         row.pc \in {"create", "retry", "resend", "peeked", "done"},
         row.attempt < MaxAttempts,
         row.pc \notin {"create", "done"} => user.exists,
         row.pc = "peeked" =>
           row.of \in Requests /\ link[row.of] # "none" /\ proof[row.of] = p
  PROVE  IInv'
<1>1. /\ user \in [ exists : BOOLEAN, password : Passwords \cup {NULL},
                    verified : BOOLEAN ]
      /\ link \in [Requests -> {"none", "live", "lapsed", "consumed"}]
      /\ proof \in [Requests -> Proofs \cup {NULL}]
      /\ verifying \in Requests \cup {NULL}
      /\ req \in [Requests -> RequestStates]
      /\ \A t \in Requests : verifying = t <=> req[t].pc \in Locked
  BY Types DEF IInv
<1>2. /\ req[r].pc = "idle" /\ link[r] = "none" /\ user.password # r /\ verifying # r
      /\ UNCHANGED <<user, link, verifying>>
  BY <1>1 DEF IInv, RequestOK, Begins, Locked
<1>3. /\ req'[r] = row /\ proof'[r] = p
      /\ \A t \in Requests : t # r => req'[t] = req[t] /\ proof'[t] = proof[t]
      /\ req' \in [Requests -> RequestStates] /\ proof' \in [Requests -> Proofs \cup {NULL}]
  BY <1>1 DEF Begins, Become
<1>4. TypeOK'
  <2>1. \A t \in Requests : verifying' = t <=> req'[t].pc \in Locked
    BY <1>1, <1>2, <1>3 DEF Locked
  <2> QED BY <2>1, <1>1, <1>2, <1>3 DEF TypeOK, RequestStates, Locked
<1>5. \A d \in Requests : (Unconsumed(d)' <=> Unconsumed(d)) /\ (Unconsumed(d) => d # r)
  BY <1>2 DEF Unconsumed
<1>6. ASSUME NEW t \in Requests PROVE RequestOK(t)'
  <2>1. CASE t = r
    <3>1. row.pc = "peeked" => row.of # r
      BY <1>2
    <3>2. row.pc = "peeked" => req[row.of].pc # "idle"
      BY DEF IInv, RequestOK
    <3> QED BY <2>1, <3>1, <3>2, <1>2, <1>3 DEF RequestOK, Locked
  <2>2. CASE t # r
    <3>1. owned(t) => owned(t)'
      BY <2>2, <1>3, <1>5 DEF owned
    <3>2. req[t].pc \in {"peeked", "activating"} => req[t].of # r
      BY <1>2 DEF IInv, RequestOK
    <3> QED BY <2>2, <3>1, <3>2, <1>2, <1>3, <1>5 DEF IInv, RequestOK
  <2> QED BY <2>1, <2>2
<1>7. AccountOK' /\ NoLinkOutlivesVerification'
  BY <1>2, <1>5 DEF IInv, AccountOK, NoLinkOutlivesVerification
<1>8. LinksOwn'
  BY <1>2, <1>3, <1>5 DEF IInv, LinksOwn
<1> QED BY <1>4, <1>6, <1>7, <1>8 DEF IInv

(* A request takes or leaves the lock, or neither, and writes nothing else. *)
LEMMA StepPreserves ==
  ASSUME IInv, NEW r \in Requests, NEW row \in RequestStates,
         Become(r, row), UNCHANGED <<user, link, proof>>,
         row.pc # "idle", row.attempt < MaxAttempts,
         IF row.pc \in Locked THEN verifying = NULL /\ verifying' = r ELSE Unlock(r),
         row.pc \notin {"create", "done"} => user.exists,
         row.pc \in Locked => ~user.verified,
         row.pc = "minting" => owned(r),
         row.pc \in {"peeked", "activating"} =>
           /\ row.of \in Requests
           /\ req[row.of].pc # "idle"
           /\ proof[row.of] = proof[r],
         row.pc = "activating" => Unconsumed(row.of)
  PROVE  IInv'
<1>1. /\ user \in [ exists : BOOLEAN, password : Passwords \cup {NULL},
                    verified : BOOLEAN ]
      /\ link \in [Requests -> {"none", "live", "lapsed", "consumed"}]
      /\ proof \in [Requests -> Proofs \cup {NULL}]
      /\ verifying \in Requests \cup {NULL}
      /\ req \in [Requests -> RequestStates]
      /\ \A t \in Requests : verifying = t <=> req[t].pc \in Locked
  BY Types DEF IInv
<1>2. /\ req'[r] = row
      /\ \A t \in Requests : t # r => req'[t] = req[t]
      /\ req' \in [Requests -> RequestStates]
  BY <1>1 DEF Become
<1>3. TypeOK'
  <2>1. verifying' \in Requests \cup {NULL}
    BY <1>1 DEF Unlock
  <2>2. \A t \in Requests : verifying' = t <=> req'[t].pc \in Locked
    BY <1>1, <1>2, SignupAssumption DEF Unlock
  <2> QED BY <2>1, <2>2, <1>1, <1>2 DEF TypeOK, RequestStates, Locked
<1>4. \A t \in Requests : (owned(t)' <=> owned(t)) /\ (Unconsumed(t)' <=> Unconsumed(t))
  BY DEF owned, Unconsumed
<1>5. ASSUME NEW t \in Requests PROVE RequestOK(t)'
  <2>1. CASE t = r
    BY <2>1, <1>2, <1>4 DEF RequestOK
  <2>2. CASE t # r
    BY <2>2, <1>2, <1>4 DEF IInv, RequestOK
  <2> QED BY <2>1, <2>2
<1>6. AccountOK' /\ NoLinkOutlivesVerification' /\ LinksOwn'
  BY <1>4 DEF IInv, AccountOK, NoLinkOutlivesVerification, LinksOwn
<1> QED BY <1>3, <1>5, <1>6 DEF IInv

(* A commit: the account and its links change and the request is done,     *)
(* while nobody else is under the lock.                                    *)
LEMMA CommitPreserves ==
  ASSUME IInv, NEW r \in Requests,
         End(r), Unlock(r), UNCHANGED proof,
         \A t \in Requests : t # r => req[t].pc \notin Locked,
         user' \in [ exists : {TRUE}, password : Passwords \cup {NULL},
                    verified : BOOLEAN ],
         link' \in [Requests -> {"none", "live", "lapsed", "consumed"}],
         \A d \in Requests : req[d].pc = "idle" =>
           (link'[d] = link[d] \/ link'[d] = "none") /\ user'.password # d,
         IF user'.verified
         THEN \A d \in Requests : ~Unconsumed(d)'
         ELSE \A d \in Requests : Unconsumed(d)' =>
                \/ user'.password = Mailbox
                \/ user'.password \in Requests /\ proof[d] = proof[user'.password]
  PROVE  IInv'
<1>1. /\ verifying \in Requests \cup {NULL}
      /\ proof \in [Requests -> Proofs \cup {NULL}]
      /\ req \in [Requests -> RequestStates]
      /\ \A t \in Requests : verifying = t <=> req[t].pc \in Locked
  BY Types DEF IInv
<1>2. [Idle EXCEPT !.pc = "done"] \in RequestStates
  <2>1. 0 \in 0..MaxAttempts
    BY SignupAssumption
  <2>2. Idle \in RequestStates
    BY <2>1 DEF Idle, RequestStates
  <2> QED BY <2>2 DEF RequestStates
<1>3. /\ req'[r] = [Idle EXCEPT !.pc = "done"]
      /\ \A t \in Requests : t # r => req'[t] = req[t]
      /\ req' \in [Requests -> RequestStates]
  BY <1>1, <1>2 DEF End, Become
<1>4. req'[r].pc = "done" /\ req'[r].attempt = 0
  BY <1>3 DEF Idle
<1>5. TypeOK'
  <2>1. verifying' \in Requests \cup {NULL}
    BY <1>1 DEF Unlock
  <2>2. \A t \in Requests : verifying' = t <=> req'[t].pc \in Locked
    BY <1>1, <1>3, <1>4, SignupAssumption DEF Unlock, Locked
  <2>3. user' \in [ exists : BOOLEAN, password : Passwords \cup {NULL},
                   verified : BOOLEAN ]
    OBVIOUS
  <2> QED BY <2>1, <2>2, <2>3, <1>1, <1>3 DEF TypeOK, RequestStates, Locked
<1>6. ASSUME NEW t \in Requests PROVE RequestOK(t)'
  <2>1. CASE t = r
    BY <2>1, <1>4, SignupAssumption DEF RequestOK, Locked
  <2>2. CASE t # r
    <3>1. req'[t] = req[t] /\ req[t].pc \notin Locked /\ RequestOK(t)
      BY <2>2, <1>3 DEF IInv
    <3>2. ASSUME req[t].pc = "peeked" PROVE req'[req[t].of].pc # "idle"
      <4>1. req[t].of \in Requests /\ req[req[t].of].pc # "idle"
        BY <3>1, <3>2 DEF RequestOK
      <4> QED BY <4>1, <1>3, <1>4
    <3>3. /\ req[t].pc = "idle" => link'[t] = "none" /\ user'.password # t
          /\ user'.exists
      BY <3>1 DEF RequestOK
    <3> QED BY <3>1, <3>2, <3>3 DEF RequestOK, Locked
  <2> QED BY <2>1, <2>2
<1>7. AccountOK' /\ NoLinkOutlivesVerification' /\ LinksOwn'
  BY DEF AccountOK, NoLinkOutlivesVerification, LinksOwn
<1> QED BY <1>5, <1>6, <1>7 DEF IInv

-----------------------------------------------------------------------------
(* The rows that requests are given.                                       *)
LEMMA Rows ==
  ASSUME IInv, NEW r \in Requests
  PROVE  /\ req[r] \in RequestStates
         /\ Idle \in RequestStates
         /\ [Idle EXCEPT !.pc = "done"] \in RequestStates
         /\ [Idle EXCEPT !.pc = "done"].pc = "done"
         /\ [Idle EXCEPT !.pc = "done"].attempt = 0
         /\ 0 < MaxAttempts
<1>1. 0 \in 0..MaxAttempts /\ 0 < MaxAttempts
  BY SignupAssumption
<1>2. Idle \in RequestStates
  BY <1>1 DEF Idle, RequestStates
<1>3. req[r] \in RequestStates
  BY Types DEF IInv
<1> QED BY <1>1, <1>2, <1>3 DEF Idle, RequestStates

(* A request that holds no lock ends, or starts to retry.                  *)
LEMMA EndPreserves ==
  ASSUME IInv, NEW r \in Requests, End(r), Unlock(r), UNCHANGED <<user, link, proof>>
  PROVE  IInv'
BY Rows, StepPreserves DEF End, Locked

LEMMA GoPreserves ==
  ASSUME IInv, NEW r \in Requests,
         NEW step \in {"raced", "swapping", "reread", "minting", "activating"},
         Go(r, step), UNCHANGED <<user, link, proof>>,
         IF step \in Locked THEN verifying = NULL /\ verifying' = r ELSE Unlock(r),
         user.exists,
         step \in Locked => ~user.verified,
         step = "minting" => owned(r),
         step = "activating" => req[r].pc = "peeked" /\ link[req[r].of] = "live"
  PROVE  IInv'
<1> DEFINE row == [req[r] EXCEPT !.pc = step]
<1>1. req[r] \in RequestStates
  BY Rows
<1>2. /\ row \in RequestStates /\ row.pc = step
      /\ row.attempt = req[r].attempt /\ row.of = req[r].of
  BY <1>1 DEF RequestStates
<1>3. Become(r, row)
  BY DEF Go
<1> HIDE DEF row
<1>4. RequestOK(r)
  BY DEF IInv
<1>5. step \in {"peeked", "activating"} =>
        /\ req[r].of \in Requests
        /\ req[req[r].of].pc # "idle"
        /\ proof[req[r].of] = proof[r]
        /\ Unconsumed(req[r].of)
  BY <1>4 DEF RequestOK, Unconsumed
<1> QED BY <1>2, <1>3, <1>4, <1>5, StepPreserves DEF RequestOK

LEMMA RetryRow ==
  ASSUME IInv, NEW r \in Requests, NEW attempt \in Nat, attempt < MaxAttempts,
         Retry(r, attempt)
  PROVE  \E row \in RequestStates :
           row.pc = "retry" /\ row.attempt = attempt /\ Become(r, row)
<1> DEFINE row == [Idle EXCEPT !.pc = "retry", !.expected = user.password,
                               !.attempt = attempt]
<1>1. attempt \in 0..MaxAttempts
  BY SignupAssumption
<1>2. user.password \in Passwords \cup {NULL}
  BY Types DEF IInv
<1>3. Idle \in RequestStates
  BY Rows
<1>4. row \in RequestStates /\ row.pc = "retry" /\ row.attempt = attempt
  BY <1>1, <1>2, <1>3 DEF RequestStates
<1>5. Become(r, row)
  BY DEF Retry
<1> QED BY <1>4, <1>5

LEMMA RetryPreserves ==
  ASSUME IInv, NEW r \in Requests, NEW attempt \in Nat, attempt < MaxAttempts,
         Retry(r, attempt), Unlock(r), UNCHANGED <<user, link, proof>>, user.exists
  PROVE  IInv'
<1>1. PICK row \in RequestStates :
        row.pc = "retry" /\ row.attempt = attempt /\ Become(r, row)
  BY RetryRow
<1> QED BY <1>1, StepPreserves DEF Locked

-----------------------------------------------------------------------------
(* A request that has no lock keeps it so by leaving the lock alone.       *)
LEMMA LockKept ==
  ASSUME IInv, NEW r \in Requests, req[r].pc \notin Locked, UNCHANGED verifying
  PROVE  Unlock(r)
BY Types DEF IInv, Unlock

LEMMA LockFree ==
  ASSUME IInv, NEW r \in Requests
  PROVE  /\ lockFree => \A t \in Requests : req[t].pc \notin Locked
         /\ req[r].pc \in Locked => \A t \in Requests : t # r => req[t].pc \notin Locked
<1>1. \A t \in Requests : verifying = t <=> req[t].pc \in Locked
  BY Types DEF IInv
<1> QED BY <1>1, SignupAssumption DEF lockFree

LEMMA RequestSignupOK ==
  ASSUME IInv, NEW r \in Requests, NEW p \in Proofs, RequestSignup(r, p)
  PROVE  IInv'
<1>1. Begins(r, p) /\ RequestOK(r) /\ req[r].pc = "idle"
  BY DEF RequestSignup, IInv, Begins
<1>2. CASE Go(r, "create")
  <2> DEFINE row == [req[r] EXCEPT !.pc = "create"]
  <2>1. row \in RequestStates /\ row.pc = "create" /\ row.attempt = req[r].attempt
    BY Rows DEF RequestStates
  <2>2. Become(r, row)
    BY <1>2 DEF Go
  <2> HIDE DEF row
  <2> QED BY <2>1, <2>2, <1>1, BeginPreserves DEF RequestOK
<1>3. CASE End(r)
  BY <1>1, <1>3, Rows, BeginPreserves DEF End
<1>4. CASE user.exists /\ Retry(r, 0)
  <2>1. PICK row \in RequestStates : row.pc = "retry" /\ row.attempt = 0 /\ Become(r, row)
    BY <1>4, Rows, RetryRow
  <2> QED BY <2>1, <1>1, <1>4, Rows, BeginPreserves
<1> QED BY <1>2, <1>3, <1>4 DEF RequestSignup

LEMMA ResendOK ==
  ASSUME IInv, NEW r \in Requests, NEW p \in Proofs, ResendEmailVerification(r, p)
  PROVE  IInv'
<1> DEFINE row == [req[r] EXCEPT !.pc = "resend"]
<1>1. Begins(r, p) /\ RequestOK(r) /\ user.exists
  BY DEF ResendEmailVerification, IInv
<1>2. row \in RequestStates /\ row.pc = "resend" /\ row.attempt = req[r].attempt
  BY Rows DEF RequestStates
<1>3. Become(r, row)
  BY DEF ResendEmailVerification, Go
<1> HIDE DEF row
<1> QED BY <1>1, <1>2, <1>3, BeginPreserves DEF RequestOK

LEMMA VerifyEmailOK ==
  ASSUME IInv, NEW r \in Requests, NEW d \in Requests, NEW p \in Proofs,
         VerifyEmail(r, d, p)
  PROVE  IInv'
<1> DEFINE row == [Idle EXCEPT !.pc = "peeked", !.of = d]
<1>1. /\ Begins(r, p) /\ Become(r, row)
      /\ link[d] = "live" /\ proof[d] = p
  BY DEF VerifyEmail
<1>2. row \in RequestStates /\ row.pc = "peeked" /\ row.attempt = 0 /\ row.of = d
  BY Rows DEF RequestStates, Idle
<1> HIDE DEF row
<1>3. user.exists
  BY <1>1 DEF IInv, AccountOK, Unconsumed
<1> QED BY <1>1, <1>2, <1>3, Rows, BeginPreserves

LEMMA CreateOK ==
  ASSUME IInv, NEW r \in Requests, CreateUnverifiedSignup(r)
  PROVE  IInv'
<1>1. Unlock(r)
  BY LockKept DEF CreateUnverifiedSignup, Locked
<1>2. CASE user.exists
  BY <1>1, <1>2, GoPreserves DEF CreateUnverifiedSignup, Locked
<1>3. CASE ~user.exists
  <2>1. /\ user' = [exists |-> TRUE, password |-> r, verified |-> FALSE]
        /\ link' = [link EXCEPT ![r] = "live"]
        /\ End(r) /\ UNCHANGED proof /\ req[r].pc = "create"
    BY <1>3 DEF CreateUnverifiedSignup
  <2>2. \A t \in Requests : req[t].pc \notin Locked
    BY <1>3 DEF IInv, RequestOK, Locked
  <2>3. link \in [Requests -> {"none", "live", "lapsed", "consumed"}]
    BY Types DEF IInv
  <2>4. /\ link' \in [Requests -> {"none", "live", "lapsed", "consumed"}]
        /\ \A d \in Requests : d # r => link'[d] = link[d]
    BY <2>1, <2>3
  <2>5. /\ user' \in [ exists : {TRUE}, password : Passwords \cup {NULL},
                      verified : BOOLEAN ]
        /\ user'.password = r /\ ~user'.verified
    BY <2>1 DEF Passwords
  <2>6. \A d \in Requests : Unconsumed(d)' => d = r
    BY <1>3, <2>4 DEF IInv, AccountOK, Unconsumed
  <2>7. \A d \in Requests : req[d].pc = "idle" =>
          (link'[d] = link[d] \/ link'[d] = "none") /\ user'.password # d
    BY <2>1, <2>4, <2>5
  <2> QED BY <1>1, <2>1, <2>2, <2>4, <2>5, <2>6, <2>7, CommitPreserves
<1> QED BY <1>2, <1>3

LEMMA RetryBeginOK ==
  ASSUME IInv, NEW r \in Requests, RetryBegin(r)
  PROVE  IInv'
<1>1. user.exists
  BY DEF IInv, RequestOK, RetryBegin
<1>2. CASE swappable(r)
  BY <1>1, <1>2, GoPreserves DEF RetryBegin, Locked, lockFree, swappable, stillUnverified
<1>3. CASE ~swappable(r)
  <2>1. Unlock(r)
    BY <1>3, LockKept DEF RetryBegin, Locked
  <2> QED BY <2>1, <1>1, <1>3, GoPreserves DEF RetryBegin, Locked
<1> QED BY <1>2, <1>3

LEMMA RetryCommitOK ==
  ASSUME IInv, NEW r \in Requests, RetryCommit(r)
  PROVE  IInv'
<1>1. /\ user' = [user EXCEPT !.password = r]
      /\ link' = burnsUnconsumed(r)
      /\ End(r) /\ Unlock(r) /\ UNCHANGED proof /\ req[r].pc = "swapping"
  BY DEF RetryCommit, replaceLinks
<1>2. \A t \in Requests : t # r => req[t].pc \notin Locked
  BY <1>1, LockFree DEF Locked
<1>3. user.exists /\ ~user.verified
  BY <1>1 DEF IInv, RequestOK, Locked
<1>4. /\ user \in [ exists : BOOLEAN, password : Passwords \cup {NULL},
                    verified : BOOLEAN ]
      /\ link \in [Requests -> {"none", "live", "lapsed", "consumed"}]
  BY Types DEF IInv
<1>5. /\ user' \in [ exists : {TRUE}, password : Passwords \cup {NULL},
                    verified : BOOLEAN ]
      /\ user'.password = r /\ ~user'.verified
  BY <1>1, <1>3, <1>4 DEF Passwords
<1>6. /\ link' \in [Requests -> {"none", "live", "lapsed", "consumed"}]
      /\ \A d \in Requests : d # r => ~Unconsumed(d)'
      /\ \A d \in Requests : req[d].pc = "idle" => link'[d] = link[d]
  BY <1>1, <1>4 DEF burnsUnconsumed, Unconsumed, IInv, RequestOK
<1> QED BY <1>1, <1>2, <1>5, <1>6, CommitPreserves

LEMMA RereadOK ==
  ASSUME IInv, NEW r \in Requests, Reread(r) \/ SignupRaced(r)
  PROVE  IInv'
<1>1. /\ Unlock(r) /\ user.exists /\ UNCHANGED <<user, link, proof>>
      /\ req[r].attempt < MaxAttempts
  BY LockKept DEF Reread, SignupRaced, Locked, IInv, RequestOK
<1>2. CASE End(r)
  BY <1>1, <1>2, EndPreserves
<1>3. CASE Retry(r, 0)
  BY <1>1, <1>3, Rows, RetryPreserves
<1>4. CASE Retry(r, req[r].attempt + 1) /\ req[r].attempt + 1 # MaxAttempts
  <2>1. req[r].attempt \in Nat
    BY Rows DEF RequestStates
  <2>2. req[r].attempt + 1 \in Nat /\ req[r].attempt + 1 < MaxAttempts
    BY <2>1, <1>1, <1>4, SignupAssumption
  <2> QED BY <2>2, <1>1, <1>4, RetryPreserves
<1> QED BY <1>2, <1>3, <1>4 DEF Reread, SignupRaced

LEMMA ResendBeginOK ==
  ASSUME IInv, NEW r \in Requests, ResendBegin(r)
  PROVE  IInv'
<1>1. user.exists
  BY DEF IInv, RequestOK, ResendBegin
<1>2. CASE ~user.verified /\ owned(r)
  BY <1>1, <1>2, GoPreserves DEF ResendBegin, Locked, lockFree
<1>3. CASE ~(~user.verified /\ owned(r))
  <2>1. Unlock(r)
    BY <1>3, LockKept DEF ResendBegin, Locked
  <2> QED BY <2>1, <1>3, EndPreserves DEF ResendBegin
<1> QED BY <1>2, <1>3

(* The link that a resend mints has the proof of one that it found.        *)
LEMMA ResendCommitOK ==
  ASSUME IInv, NEW r \in Requests, ResendCommit(r)
  PROVE  IInv'
<1>1. /\ link' = [d \in Requests |-> IF d = r THEN "live"
                                     ELSE IF proof[d] = proof[r] THEN "none"
                                     ELSE link[d]]
      /\ End(r) /\ Unlock(r) /\ UNCHANGED <<user, proof>> /\ req[r].pc = "minting"
  BY DEF ResendCommit
<1>2. \A t \in Requests : t # r => req[t].pc \notin Locked
  BY <1>1, LockFree DEF Locked
<1>3. user.exists /\ ~user.verified /\ owned(r)
  BY <1>1 DEF IInv, RequestOK, Locked
<1>4. /\ user \in [ exists : BOOLEAN, password : Passwords \cup {NULL},
                    verified : BOOLEAN ]
      /\ link \in [Requests -> {"none", "live", "lapsed", "consumed"}]
  BY Types DEF IInv
<1>5. /\ user' \in [ exists : {TRUE}, password : Passwords \cup {NULL},
                    verified : BOOLEAN ]
      /\ user'.password = user.password /\ ~user'.verified
  BY <1>1, <1>3, <1>4
<1>6. /\ link' \in [Requests -> {"none", "live", "lapsed", "consumed"}]
      /\ \A d \in Requests : d # r => link'[d] \in {"none", link[d]}
  BY <1>1, <1>4
<1>7. \A d \in Requests : req[d].pc = "idle" =>
        (link'[d] = link[d] \/ link'[d] = "none") /\ user'.password # d
  BY <1>1, <1>5, <1>6 DEF IInv, RequestOK
<1>8. \E d \in Requests : proof[d] = proof[r] /\ Unconsumed(d)
  BY <1>3 DEF owned
<1>9. ASSUME NEW d \in Requests, Unconsumed(d)'
      PROVE  \/ user'.password = Mailbox
             \/ user'.password \in Requests /\ proof[d] = proof[user'.password]
  <2>1. \E e \in Requests : proof[e] = proof[d] /\ Unconsumed(e)
    BY <1>6, <1>8, <1>9 DEF Unconsumed
  <2> QED BY <2>1, <1>3, <1>5 DEF IInv, LinksOwn
<1> QED BY <1>1, <1>2, <1>5, <1>6, <1>7, <1>9, CommitPreserves

LEMMA VerifyBeginOK ==
  ASSUME IInv, NEW r \in Requests, VerifyBegin(r)
  PROVE  IInv'
<1>1. user.exists /\ RequestOK(r)
  BY DEF IInv, RequestOK, VerifyBegin
<1>2. CASE link[req[r].of] = "live"
  <2>1. ~user.verified
    BY <1>1, <1>2 DEF VerifyBegin, RequestOK, IInv, NoLinkOutlivesVerification, Unconsumed
  <2> QED BY <2>1, <1>1, <1>2, GoPreserves DEF VerifyBegin, Locked, lockFree
<1>3. CASE link[req[r].of] # "live"
  <2>1. Unlock(r)
    BY <1>3, LockKept DEF VerifyBegin, Locked
  <2> QED BY <2>1, <1>3, EndPreserves DEF VerifyBegin
<1> QED BY <1>2, <1>3

LEMMA VerifyCommitOK ==
  ASSUME IInv, NEW r \in Requests, VerifyCommit(r)
  PROVE  /\ IInv'
         /\ \/ user.password = Mailbox
            \/ /\ req[r].pc = "activating" /\ req'[r].pc = "done"
               /\ proof[r] = proof[user.password]
<1>1. /\ user' = [user EXCEPT !.verified = TRUE]
      /\ link' = [d \in Requests |-> IF Unconsumed(d) THEN "consumed" ELSE link[d]]
      /\ End(r) /\ Unlock(r) /\ UNCHANGED proof /\ req[r].pc = "activating"
  BY DEF VerifyCommit
<1>2. \A t \in Requests : t # r => req[t].pc \notin Locked
  BY <1>1, LockFree DEF Locked
<1>3. RequestOK(r) /\ user.exists /\ ~user.verified
  BY <1>1 DEF IInv, RequestOK, Locked
<1>4. /\ user \in [ exists : BOOLEAN, password : Passwords \cup {NULL},
                    verified : BOOLEAN ]
      /\ link \in [Requests -> {"none", "live", "lapsed", "consumed"}]
      /\ req \in [Requests -> RequestStates]
  BY Types DEF IInv
<1>5. /\ user' \in [ exists : {TRUE}, password : Passwords \cup {NULL},
                    verified : BOOLEAN ]
      /\ user'.password = user.password /\ user'.verified
  BY <1>1, <1>3, <1>4
<1>6. /\ link' \in [Requests -> {"none", "live", "lapsed", "consumed"}]
      /\ \A d \in Requests : ~Unconsumed(d)'
      /\ \A d \in Requests : ~Unconsumed(d) => link'[d] = link[d]
  BY <1>1, <1>4 DEF Unconsumed
<1>7. \A d \in Requests : req[d].pc = "idle" =>
        (link'[d] = link[d] \/ link'[d] = "none") /\ user'.password # d
  BY <1>5, <1>6 DEF IInv, RequestOK, Unconsumed
<1>8. IInv'
  BY <1>1, <1>2, <1>5, <1>6, <1>7, CommitPreserves
<1>9. user.password = Mailbox \/ proof[r] = proof[user.password]
  BY <1>1, <1>3 DEF RequestOK, IInv, LinksOwn
<1>10. req'[r] = [Idle EXCEPT !.pc = "done"]
  BY <1>1, <1>4 DEF End, Become
<1> QED BY <1>1, <1>8, <1>9, <1>10, Rows

LEMMA ResetOK ==
  ASSUME IInv, ResetPassword
  PROVE  IInv'
<1>1. /\ user' = [user EXCEPT !.password = Mailbox] /\ user.exists
      /\ UNCHANGED <<link, proof, verifying, req>>
  BY DEF ResetPassword
<1>2. user \in [ exists : BOOLEAN, password : Passwords \cup {NULL},
                verified : BOOLEAN ]
  BY Types DEF IInv
<1>3. /\ user' \in [ exists : BOOLEAN, password : Passwords \cup {NULL},
                    verified : BOOLEAN ]
      /\ user'.password = Mailbox /\ user'.exists
      /\ user'.verified = user.verified
  BY <1>1, <1>2 DEF Passwords
<1>4. TypeOK'
  BY <1>1, <1>3 DEF IInv, TypeOK
<1>5. \A d \in Requests : (Unconsumed(d)' <=> Unconsumed(d)) /\ (owned(d)' <=> owned(d))
  BY <1>1 DEF Unconsumed, owned
<1>6. \A r \in Requests : RequestOK(r)'
  BY <1>1, <1>3, <1>5, SignupAssumption DEF IInv, RequestOK
<1>7. AccountOK' /\ LinksOwn' /\ NoLinkOutlivesVerification'
  BY <1>3, <1>5 DEF IInv, AccountOK, LinksOwn, NoLinkOutlivesVerification
<1> QED BY <1>4, <1>6, <1>7 DEF IInv

LEMMA ExpireOK ==
  ASSUME IInv, NEW d \in Requests, Expire(d)
  PROVE  IInv'
<1>1. /\ link[d] = "live" /\ link' = [link EXCEPT ![d] = "lapsed"]
      /\ UNCHANGED <<user, proof, verifying, req>>
  BY DEF Expire
<1>2. link \in [Requests -> {"none", "live", "lapsed", "consumed"}]
  BY Types DEF IInv
<1>3. TypeOK'
  BY <1>1, <1>2 DEF IInv, TypeOK
<1>4. \A e \in Requests : /\ Unconsumed(e)' <=> Unconsumed(e)
                          /\ link[e] = "none" => link'[e] = "none"
  BY <1>1, <1>2 DEF Unconsumed
<1>5. \A e \in Requests : owned(e)' <=> owned(e)
  BY <1>1, <1>4 DEF owned
<1>6. \A r \in Requests : RequestOK(r)'
  BY <1>1, <1>4, <1>5 DEF IInv, RequestOK
<1>7. AccountOK' /\ LinksOwn' /\ NoLinkOutlivesVerification'
  BY <1>1, <1>4 DEF IInv, AccountOK, LinksOwn, NoLinkOutlivesVerification
<1> QED BY <1>3, <1>6, <1>7 DEF IInv

-----------------------------------------------------------------------------
OwnPassword ==
  ~user.verified /\ user'.verified =>
    \/ user.password = Mailbox
    \/ \E r \in Requests : req[r].pc = "activating" /\ req'[r].pc = "done"
                           /\ proof[r] = proof[user.password]

LEMMA InitOK == Init => IInv
<1> SUFFICES ASSUME Init PROVE IInv
  OBVIOUS
<1>1. 0 \in 0..MaxAttempts /\ 0 < MaxAttempts
  BY SignupAssumption
<1>2. Idle \in RequestStates /\ Idle.pc = "idle" /\ Idle.attempt = 0
  BY <1>1 DEF Idle, RequestStates
<1>3. user.exists = FALSE /\ user.verified = FALSE /\ user.password = NULL
  BY DEF Init
<1>4. \A r \in Requests : req[r] = Idle /\ link[r] = "none" /\ verifying # r
  BY SignupAssumption DEF Init
<1>5. TypeOK
  <2>1. req \in [Requests -> RequestStates]
    BY <1>2 DEF Init
  <2>2. \A r \in Requests : verifying = r <=> req[r].pc \in Locked
    BY <1>2, <1>4 DEF Locked
  <2> QED BY <2>1, <2>2 DEF Init, TypeOK, RequestStates, Locked
<1> QED BY <1>1, <1>2, <1>3, <1>4, <1>5, SignupAssumption
    DEF IInv, RequestOK, AccountOK, LinksOwn, NoLinkOutlivesVerification, Unconsumed, Locked

LEMMA NextOK == IInv /\ [Next]_vars => IInv' /\ OwnPassword
<1> SUFFICES ASSUME IInv, [Next]_vars PROVE IInv' /\ OwnPassword
  OBVIOUS
<1>1. ASSUME NEW r \in Requests, Serves(r) PROVE IInv' /\ OwnPassword
  <2>1. CASE VerifyCommit(r)
    <3>1. req[r].pc = "activating"
      BY <2>1 DEF VerifyCommit
    <3> QED BY <2>1, <3>1, VerifyCommitOK DEF OwnPassword
  <2>2. CASE CreateUnverifiedSignup(r)
    <3>1. user' = [exists |-> TRUE, password |-> r, verified |-> FALSE] \/ UNCHANGED user
      BY <2>2 DEF CreateUnverifiedSignup
    <3> QED BY <2>2, <3>1, CreateOK DEF OwnPassword
  <2>3. CASE RetryCommit(r)
    <3>1. user.verified = user'.verified
      BY <2>3, Types DEF RetryCommit, IInv
    <3> QED BY <2>3, <3>1, RetryCommitOK DEF OwnPassword
  <2>4. CASE SignupRaced(r) \/ Reread(r)
    BY <2>4, RereadOK DEF SignupRaced, Reread, OwnPassword
  <2>5. CASE RetryBegin(r)
    BY <2>5, RetryBeginOK DEF RetryBegin, OwnPassword
  <2>6. CASE ResendBegin(r)
    BY <2>6, ResendBeginOK DEF ResendBegin, OwnPassword
  <2>7. CASE ResendCommit(r)
    BY <2>7, ResendCommitOK DEF ResendCommit, OwnPassword
  <2>8. CASE VerifyBegin(r)
    BY <2>8, VerifyBeginOK DEF VerifyBegin, OwnPassword
  <2>9. CASE Crash(r)
    BY <2>9, EndPreserves DEF Crash, OwnPassword
  <2> QED BY <1>1, <2>1, <2>2, <2>3, <2>4, <2>5, <2>6, <2>7, <2>8, <2>9 DEF Serves
<1>2. ASSUME NEW r \in Requests, NEW p \in Proofs,
             RequestSignup(r, p) \/ ResendEmailVerification(r, p)
      PROVE  IInv' /\ OwnPassword
  BY <1>2, RequestSignupOK, ResendOK
  DEF RequestSignup, ResendEmailVerification, Begins, OwnPassword
<1>3. ASSUME NEW r \in Requests, NEW d \in Requests, NEW p \in Proofs,
             VerifyEmail(r, d, p)
      PROVE  IInv' /\ OwnPassword
  BY <1>3, VerifyEmailOK DEF VerifyEmail, Begins, OwnPassword
<1>4. ASSUME NEW d \in Requests, Expire(d) PROVE IInv' /\ OwnPassword
  BY <1>4, ExpireOK DEF Expire, OwnPassword
<1>5. CASE ResetPassword
  <2>1. user.verified = user'.verified
    BY <1>5, Types DEF ResetPassword, IInv
  <2> QED BY <2>1, <1>5, ResetOK DEF OwnPassword
<1>6. CASE UNCHANGED vars
  BY <1>6 DEF vars, IInv, TypeOK, RequestOK, owned, Unconsumed, AccountOK, LinksOwn,
              NoLinkOutlivesVerification, OwnPassword
<1> QED BY <1>1, <1>2, <1>3, <1>4, <1>5, <1>6 DEF Next

LEMMA Inductive == Spec => []IInv
BY InitOK, NextOK, PTL DEF Spec

-----------------------------------------------------------------------------
(* What auth-email.ts and the signup functions of the migrations write has *)
(* its type, a request's attempts stay within the bound, and holding       *)
(* auth_verify_email is being between its two statements.                  *)
THEOREM TypeCorrect == Spec => []TypeOK
<1>1. IInv => TypeOK
  BY DEF IInv
<1> QED BY <1>1, Inductive, PTL

(* auth_verify_email, auth_retry_unverified_signup and                     *)
(* auth_resend_email_verification: whoever races an activation, no link is *)
(* left unconsumed on a verified account.                                  *)
THEOREM LinksEnd == Spec => []NoLinkOutlivesVerification
<1>1. IInv => NoLinkOutlivesVerification
  BY DEF IInv
<1> QED BY <1>1, Inductive, PTL

(* auth_verify_email: the account becomes verified with the password of    *)
(* the one whose proof the link was made for, or one that was set through  *)
(* the mailbox, however many people sign up for the address.               *)
THEOREM ActivatesOwn == Spec => ActivatesOwnPassword
<1>1. IInv /\ [Next]_vars => [OwnPassword]_vars
  BY NextOK
<1> QED BY <1>1, Inductive, PTL DEF Spec, ActivatesOwnPassword, OwnPassword
=============================================================================
