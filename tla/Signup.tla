------------------------------- MODULE Signup --------------------------------
(***************************************************************************)
(* An email address that is being signed up for, perhaps by several people *)
(* at once: each signup brings a password and the hash of a proof that its *)
(* browser keeps; a link activates the account only with the proof it was  *)
(* made for.                                                               *)
(*                                                                         *)
(* A request makes at most one password and one link, which bear its name. *)
(***************************************************************************)
EXTENDS Integers, FiniteSets

CONSTANTS
  Requests,         \* requests to the server, each served once
  Proofs,           \* the clientProof of each browser
  MaxAttempts,      \* MAX_UNVERIFIED_PASSWORD_REPLACE_ATTEMPTS
  Faults,           \* {"crash"} or {}
  Mailbox,          \* a password set by a reset link sent to the address
  NULL

ASSUME SignupAssumption ==
  /\ MaxAttempts \in Nat \ {0}
  /\ Mailbox \notin Requests
  /\ NULL \notin Requests \cup Proofs \cup {Mailbox}

VARIABLES
  user,        \* users: whether it is there, its password, email_verified_at
  link,        \* email_verification_tokens, by the request that minted it
  proof,       \* the client proof hash that each request came with
  verifying,   \* who holds auth_verify_email
  req          \* each request: where it is and what it has read

vars == <<user, link, proof, verifying, req>>

-----------------------------------------------------------------------------
Idle == [pc |-> "idle", expected |-> NULL, attempt |-> 0, of |-> NULL]

Passwords == Requests \cup {Mailbox}

TypeOK ==
  /\ user \in [ exists : BOOLEAN, password : Passwords \cup {NULL},
                verified : BOOLEAN ]
  /\ link \in [Requests -> {"none", "live", "lapsed", "consumed"}]
  /\ proof \in [Requests -> Proofs \cup {NULL}]
  /\ verifying \in Requests \cup {NULL}
  /\ req \in [Requests ->
       [ pc : {"idle", "create", "raced", "retry", "swapping", "reread",
               "resend", "minting", "peeked", "activating", "done"},
         expected : Passwords \cup {NULL}, attempt : 0..MaxAttempts,
         of : Requests \cup {NULL} ]]
  /\ \A r \in Requests :
       verifying = r <=> req[r].pc \in {"swapping", "minting", "activating"}

Init ==
  /\ user = [exists |-> FALSE, password |-> NULL, verified |-> FALSE]
  /\ link = [r \in Requests |-> "none"]
  /\ proof = [r \in Requests |-> NULL]
  /\ verifying = NULL
  /\ req = [r \in Requests |-> Idle]

-----------------------------------------------------------------------------
Become(r, state) == req' = [req EXCEPT ![r] = state]
Go(r, step) == Become(r, [req[r] EXCEPT !.pc = step])
End(r) == Become(r, [Idle EXCEPT !.pc = "done"])
Unlock(r) == verifying' = IF verifying = r THEN NULL ELSE verifying

Unconsumed(r) == link[r] \in {"live", "lapsed"}

Begins(r, p) ==
  /\ req[r].pc = "idle"
  /\ proof' = [proof EXCEPT ![r] = p]
  /\ UNCHANGED <<user, link, verifying>>

anyAccount(r) == user.password = req[r].expected
stillUnverified(r) == user.password = req[r].expected /\ ~user.verified
swappable(r) == stillUnverified(r)

Retry(r, attempt) ==
  Become(r, [Idle EXCEPT !.pc = "retry", !.expected = user.password,
                         !.attempt = attempt])

(* requestSignup: nothing happens to an account that is verified.          *)
RequestSignup(r, p) ==
  /\ Begins(r, p)
  /\ \/ ~user.exists /\ Go(r, "create")
     \/ user.exists /\ user.verified /\ End(r)
     \/ user.exists /\ ~user.verified /\ Retry(r, 0)

(* auth_create_unverified_signup, and its unique violation.                *)
CreateUnverifiedSignup(r) ==
  /\ req[r].pc = "create"
  /\ IF user.exists
     THEN Go(r, "raced") /\ UNCHANGED <<user, link>>
     ELSE /\ user' = [exists |-> TRUE, password |-> r, verified |-> FALSE]
          /\ link' = [link EXCEPT ![r] = "live"]
          /\ End(r)
  /\ UNCHANGED <<proof, verifying>>

SignupRaced(r) ==
  /\ req[r].pc = "raced"
  /\ IF user.verified THEN End(r) ELSE Retry(r, 0)
  /\ UNCHANGED <<user, link, proof, verifying>>

unlocked == TRUE
lockFree == verifying = NULL

(* auth_retry_unverified_signup: the compare-and-set of the password, then *)
(* every unconsumed link is burned and a new one minted.                   *)
RetryBegin(r) ==
  /\ req[r].pc = "retry"
  /\ lockFree
  /\ IF swappable(r)
     THEN Go(r, "swapping") /\ verifying' = r
     ELSE Go(r, "reread") /\ UNCHANGED verifying
  /\ UNCHANGED <<user, link, proof>>

burnsNone(r) == [link EXCEPT ![r] = "live"]
burnsUnconsumed(r) ==
  [d \in Requests |-> IF d = r THEN "live"
                      ELSE IF Unconsumed(d) THEN "consumed" ELSE link[d]]
replaceLinks(r) == burnsUnconsumed(r)

RetryCommit(r) ==
  /\ req[r].pc = "swapping"
  /\ user' = [user EXCEPT !.password = r]
  /\ link' = replaceLinks(r)
  /\ End(r)
  /\ Unlock(r)
  /\ UNCHANGED proof

(* replaceUnverifiedPasswordAndRequestVerification: somebody else's retry  *)
(* or reset was first.                                                     *)
Reread(r) ==
  /\ req[r].pc = "reread"
  /\ IF user.verified \/ req[r].attempt + 1 = MaxAttempts
     THEN End(r)
     ELSE Retry(r, req[r].attempt + 1)
  /\ UNCHANGED <<user, link, proof, verifying>>

-----------------------------------------------------------------------------
(* resendEmailVerification                                                 *)
ResendEmailVerification(r, p) ==
  /\ Begins(r, p)
  /\ user.exists /\ ~user.verified
  /\ Go(r, "resend")

(* auth_resend_email_verification: under the lock, the account is still    *)
(* unverified and the proof still owns an unconsumed link.                 *)
owned(r) == \E d \in Requests : proof[d] = proof[r] /\ Unconsumed(d)

ResendBegin(r) ==
  /\ req[r].pc = "resend"
  /\ lockFree
  /\ IF ~user.verified /\ owned(r)
     THEN Go(r, "minting") /\ verifying' = r
     ELSE End(r) /\ UNCHANGED verifying
  /\ UNCHANGED <<user, link, proof>>

ResendCommit(r) ==
  /\ req[r].pc = "minting"
  /\ link' = [d \in Requests |-> IF d = r THEN "live"
                                 ELSE IF proof[d] = proof[r] THEN "none"
                                 ELSE link[d]]
  /\ End(r)
  /\ Unlock(r)
  /\ UNCHANGED <<user, proof>>

(* verifyEmail peeks at the link that it has, with the proof it has.       *)
VerifyEmail(r, d, p) ==
  /\ Begins(r, p)
  /\ link[d] = "live" /\ proof[d] = p
  /\ Become(r, [Idle EXCEPT !.pc = "peeked", !.of = d])

(* auth_verify_email: the link is checked again under the lock.            *)
VerifyBegin(r) ==
  /\ req[r].pc = "peeked"
  /\ lockFree
  /\ IF link[req[r].of] = "live"
     THEN Go(r, "activating") /\ verifying' = r
     ELSE End(r) /\ UNCHANGED verifying
  /\ UNCHANGED <<user, link, proof>>

VerifyCommit(r) ==
  /\ req[r].pc = "activating"
  /\ user' = [user EXCEPT !.verified = TRUE]
  /\ link' = [d \in Requests |-> IF Unconsumed(d) THEN "consumed" ELSE link[d]]
  /\ End(r)
  /\ Unlock(r)
  /\ UNCHANGED proof

(* auth_reset_password, which takes another lock; the users row itself is  *)
(* locked by a retry or an activation.                                     *)
ResetPassword ==
  /\ user.exists
  /\ \A r \in Requests : req[r].pc \notin {"swapping", "activating"}
  /\ user' = [user EXCEPT !.password = Mailbox]
  /\ UNCHANGED <<link, proof, verifying, req>>

Expire(d) ==
  /\ link[d] = "live"
  /\ link' = [link EXCEPT ![d] = "lapsed"]
  /\ UNCHANGED <<user, proof, verifying, req>>

(* The process dies; its transaction rolls back.                           *)
Crash(r) ==
  /\ "crash" \in Faults
  /\ req[r].pc \notin {"idle", "done"}
  /\ End(r)
  /\ Unlock(r)
  /\ UNCHANGED <<user, link, proof>>

Serves(r) ==
  \/ CreateUnverifiedSignup(r)
  \/ SignupRaced(r)
  \/ RetryBegin(r)
  \/ RetryCommit(r)
  \/ Reread(r)
  \/ ResendBegin(r)
  \/ ResendCommit(r)
  \/ VerifyBegin(r)
  \/ VerifyCommit(r)
  \/ Crash(r)

Next ==
  \/ \E r \in Requests, p \in Proofs : RequestSignup(r, p)
  \/ \E r \in Requests, p \in Proofs : ResendEmailVerification(r, p)
  \/ \E r, d \in Requests, p \in Proofs : VerifyEmail(r, d, p)
  \/ \E r \in Requests : Serves(r)
  \/ \E d \in Requests : Expire(d)
  \/ ResetPassword

Spec == Init /\ [][Next]_vars

-----------------------------------------------------------------------------
(* Properties.                                                             *)

(* 0019_signup_client_proof.sql: a link activates the password of the one  *)
(* who holds its proof, or one set through the mailbox, never another's.   *)
ActivatesOwnPassword ==
  [][~user.verified /\ user'.verified =>
       \/ user.password = Mailbox
       \/ \E r \in Requests : req[r].pc = "activating" /\ req'[r].pc = "done"
                              /\ proof[r] = proof[user.password]]_vars

(* 0021_resend_verification_serialized.sql: no link that works, or that a  *)
(* resend could renew, is left once the account is verified.               *)
NoLinkOutlivesVerification ==
  user.verified => \A d \in Requests : ~Unconsumed(d)
=============================================================================
