----------------------------- MODULE Credentials -----------------------------
(***************************************************************************)
(* The credentials of one account: sessions, API keys, authorization codes *)
(* and the token pairs they are exchanged for, password-reset tokens; what *)
(* issues them, what revokes them, and the two advisory locks between.     *)
(*                                                                         *)
(* A request issues at most one credential, which bears its name.          *)
(***************************************************************************)
EXTENDS Integers, FiniteSets

CONSTANTS
  Requests,         \* requests to the server and jobs, each served once
  Standing,         \* credentials that are there at the start
  Clients,          \* OAuth clients, by dynamic registration
  Limits,           \* values of maxActiveMcpClients
  MaxPassword,      \* bound: passwords the account ever has
  Faults,           \* {"crash"} or {}
  NULL

Ids == Requests \cup Standing

ASSUME CredentialAssumption ==
  /\ IsFiniteSet(Clients)
  /\ Requests \cap Standing = {}
  /\ Limits \subseteq Nat
  /\ MaxPassword \in Nat \ {0}
  /\ NULL \notin Nat \cup Ids \cup Clients

VARIABLES
  account,    \* users: password, by number, and tombstone; the limit in force
  lifecycle,  \* who holds account_lifecycle
  resetting,  \* who holds auth_reset_password
  req,        \* each request: where it is and what it has read
  cred,       \* each credential
  client,     \* oauth_clients: never used, used, deleted
  family,     \* history: the code each token pair comes from
  redeemed,   \* history: codes that an exchange consumed
  overlapped  \* history: sessions whose login overlaps a password change

history == <<family, redeemed, overlapped>>
vars == <<account, lifecycle, resetting, req, cred, client, history>>

-----------------------------------------------------------------------------
NoCredential ==
  [ kind |-> "none", state |-> "none", refresh |-> "none",
    client |-> NULL, version |-> 0 ]

Of(kind) == [NoCredential EXCEPT !.kind = kind, !.state = "live"]
Session(version) == [Of("session") EXCEPT !.version = version]
Code(k) == [Of("code") EXCEPT !.client = k]

(* buildTokenPair: an access token, a refresh token if the client may.     *)
Pair(k, refresh) == [Of("pair") EXCEPT !.client = k, !.refresh = refresh]

CredentialStates ==
  [ kind : {"none", "session", "key", "code", "pair", "reset"},
    state : {"none", "live", "spent"},
    refresh : {"none", "live", "lapsed", "spent"},
    client : Clients \cup {NULL}, version : Nat ]

Idle ==
  [ pc |-> "idle", op |-> "none", of |-> NULL, client |-> NULL, version |-> 0,
    limit |-> NULL, new |-> FALSE, seen |-> {}, victims |-> {} ]

RequestStates ==
  [ pc : {"idle", "issue", "guarded", "touch", "opened", "swapping",
          "revoking", "listed", "deleting", "done"},
    op : {"none", "session", "key", "code", "reset", "exchange", "refresh",
          "reset password", "change password", "revoke", "gc"},
    of : Ids \cup {NULL}, client : Clients \cup {NULL}, version : Nat,
    limit : Limits \cup {NULL}, new : BOOLEAN, seen : SUBSET Ids,
    victims : SUBSET Clients ]

TypeOK ==
  /\ account \in [ password : 1..MaxPassword, erased : BOOLEAN,
                   limit : Limits \cup {NULL} ]
  /\ lifecycle \in Requests \cup {NULL}
  /\ resetting \in Requests \cup {NULL}
  /\ req \in [Requests -> RequestStates]
  /\ cred \in [Ids -> CredentialStates]
  /\ client \in [Clients -> {"unused", "used", "deleted"}]
  /\ family \in [Ids -> Ids \cup {NULL}]
  /\ redeemed \in SUBSET Ids
  /\ overlapped \in SUBSET Ids
  /\ \A r \in Requests : lifecycle = r <=> req[r].pc = "guarded"
  /\ \A r \in Requests : resetting = r <=> req[r].pc = "swapping"

Kind(kind) == {x \in Ids : cred[x].kind = kind}
Live(kind) == {x \in Kind(kind) : cred[x].state = "live"}
Unrevoked(p) == cred[p].refresh \in {"live", "lapsed"}

(* liveClientRecency: whoever holds a token that is neither revoked nor    *)
(* expired.                                                                *)
LiveClients ==
  {cred[p].client :
     p \in {q \in Kind("pair") : "live" \in {cred[q].state, cred[q].refresh}}}

StandingCredentials ==
  {NoCredential, Session(1), Of("key"), Of("reset")}
    \cup {Code(k) : k \in Clients} \cup {Pair(k, "live") : k \in Clients}

Init ==
  /\ account \in [password : {1}, erased : {FALSE}, limit : Limits \cup {NULL}]
  /\ lifecycle = NULL
  /\ resetting = NULL
  /\ req = [r \in Requests |-> Idle]
  /\ cred \in [Ids -> StandingCredentials]
  /\ \A r \in Requests : cred[r] = NoCredential
  /\ account.limit # NULL => Cardinality(LiveClients) <= account.limit
  /\ client = [k \in Clients |->
                 IF k \in LiveClients THEN "used" ELSE "unused"]
  /\ family = [x \in Ids |-> IF cred[x].kind = "pair" THEN x ELSE NULL]
  /\ redeemed = {}
  /\ overlapped = {}

-----------------------------------------------------------------------------
(* Requests and locks.                                                     *)

Become(r, state) == req' = [req EXCEPT ![r] = state]
Go(r, step) == Become(r, [req[r] EXCEPT !.pc = step])

(* The transaction ends, with what it wrote or with nothing.               *)
End(r) == Become(r, [Idle EXCEPT !.pc = "done"])
freed(holder, r) == IF holder = r THEN NULL ELSE holder
Release(r) ==
  /\ lifecycle' = freed(lifecycle, r)
  /\ resetting' = freed(resetting, r)

Starts(r, op) ==
  /\ req[r].pc = "idle"
  /\ UNCHANGED <<account, lifecycle, resetting, client, family, overlapped>>

Task(op) == [Idle EXCEPT !.op = op]
Issue(r, task) == Become(r, [task EXCEPT !.pc = "issue"])

(* getUserByEmail finds no tombstone, and the password matches.            *)
verifyCredentials == ~account.erased

(* A bearer token is resolved before anything else is.                     *)
authenticated == Live("session") # {}

Login(r) ==
  /\ Starts(r, "session")
  /\ verifyCredentials
  /\ Issue(r, [Task("session") EXCEPT !.version = account.password])
  /\ UNCHANGED <<cred, redeemed>>

IssueApiKey(r) ==
  /\ Starts(r, "key")
  /\ authenticated
  /\ Issue(r, Task("key"))
  /\ UNCHANGED <<cred, redeemed>>

RequestPasswordReset(r) ==
  /\ Starts(r, "reset")
  /\ ~account.erased
  /\ Issue(r, Task("reset"))
  /\ UNCHANGED <<cred, redeemed>>

(* handleConsentPost                                                       *)
Consent(r, k) ==
  /\ Starts(r, "code")
  /\ client[k] # "deleted"
  /\ verifyCredentials
  /\ Issue(r, [Task("code") EXCEPT !.client = k])
  /\ UNCHANGED <<cred, redeemed>>

takenForLive == TRUE
userIsLiveForIssuance == ~account.erased

(* guardCredentialIssuance                                                 *)
GuardIssuance(r) ==
  /\ req[r].pc = "issue"
  /\ req[r].op \in {"session", "key", "code", "reset"}
  /\ lifecycle = NULL
  /\ IF userIsLiveForIssuance
     THEN Go(r, "guarded") /\ lifecycle' = r
     ELSE End(r) /\ UNCHANGED lifecycle
  /\ UNCHANGED <<account, resetting, cred, client, history>>

Inserts(r, op, row) ==
  /\ req[r].pc = "guarded"
  /\ req[r].op = op
  /\ cred' = [cred EXCEPT ![r] = row]
  /\ End(r)
  /\ Release(r)
  /\ UNCHANGED <<account, client, family, redeemed>>

Swapping == {r \in Requests : req[r].pc = "swapping"}

InsertSession(r) ==
  /\ Inserts(r, "session", Session(req[r].version))
  /\ overlapped' = IF req[r].version # account.password \/ Swapping # {}
                   THEN overlapped \cup {r} ELSE overlapped

InsertApiKey(r) ==
  /\ Inserts(r, "key", Of("key"))
  /\ UNCHANGED overlapped

InsertPasswordResetToken(r) ==
  /\ Inserts(r, "reset", Of("reset"))
  /\ UNCHANGED overlapped

InsertOauthCode(r) ==
  /\ Inserts(r, "code", Code(req[r].client))
  /\ client[req[r].client] # "deleted"
  /\ UNCHANGED overlapped

(* The foreign key on a client that is gone.                               *)
ClientGone(r) ==
  /\ req[r].pc = "guarded"
  /\ req[r].client # NULL
  /\ client[req[r].client] = "deleted"
  /\ End(r)
  /\ Release(r)
  /\ UNCHANGED <<account, cred, client, history>>

-----------------------------------------------------------------------------
(* The token endpoint.                                                     *)

(* exchangeAuthorizationCode: the code is consumed, then its client, PKCE  *)
(* and redirect are checked and the limit is read.                         *)
ConsumeOauthCode(r, f) ==
  /\ Starts(r, "exchange")
  /\ f \in Live("code")
  /\ client[cred[f].client] # "deleted"
  /\ cred' = [cred EXCEPT ![f].state = "spent"]
  /\ redeemed' = redeemed \cup {f}
  /\ \/ Issue(r, [Task("exchange") EXCEPT !.of = f, !.client = cred[f].client,
                                          !.limit = account.limit])
     \/ End(r)

(* exchangeRefreshToken: resolved, checked and the limit read.             *)
ResolveRefresh(r, p) ==
  /\ Starts(r, "refresh")
  /\ p \in Kind("pair") /\ cred[p].refresh = "live"
  /\ Issue(r, [Task("refresh") EXCEPT !.of = p, !.client = cred[p].client,
                                      !.limit = account.limit])
  /\ UNCHANGED <<cred, redeemed>>

(* The clients most recently issued to, as many as the limit admits; which *)
(* of them are the most recent is left out.                                *)
Retained(limit) ==
  {S \in SUBSET LiveClients :
     \/ S = LiveClients /\ Cardinality(S) <= limit
     \/ Cardinality(S) = limit}

assertClientCanBeIssued(k, limit) ==
  \/ limit = NULL
  \/ k \notin LiveClients /\ Cardinality(LiveClients) < limit
  \/ \E S \in Retained(limit) : k \in S

assertClientCanRotate(k, limit) ==
  limit = NULL \/ \E S \in Retained(limit) : k \in S

lifecycleIgnored == TRUE
lifecycleFree == lifecycle = NULL

(* The head of insertOauthTokenPair and of rotateOauthRefreshToken.        *)
GuardTokens(r) ==
  LET k == req[r].client
      limit == req[r].limit
      refused ==
        \/ req[r].op = "exchange" /\ ~assertClientCanBeIssued(k, limit)
        \/ req[r].op = "refresh" /\ ~assertClientCanRotate(k, limit)
  IN  /\ req[r].pc = "issue"
      /\ req[r].op \in {"exchange", "refresh"}
      /\ lifecycleFree
      /\ \/ /\ userIsLiveForIssuance /\ ~refused
            /\ Become(r, [req[r] EXCEPT !.pc = "guarded",
                                        !.new = k \notin LiveClients])
            /\ lifecycle' = r
         \/ /\ ~userIsLiveForIssuance \/ refused
            /\ End(r)
            /\ UNCHANGED lifecycle
      /\ UNCHANGED <<account, resetting, cred, client, history>>

Touch(k) == [Task("exchange") EXCEPT !.pc = "touch", !.client = k]

InsertOauthTokenPair(r) ==
  LET k == req[r].client
  IN  /\ req[r].pc = "guarded" /\ req[r].op = "exchange"
      /\ client[k] # "deleted"
      /\ \E refresh \in {"none", "live"} :
           cred' = [cred EXCEPT ![r] = Pair(k, refresh)]
      /\ family' = [family EXCEPT ![r] = req[r].of]
      /\ Become(r, Touch(k))
      /\ Release(r)
      /\ UNCHANGED <<account, client, redeemed, overlapped>>

(* WHERE revoked_at IS NULL: the predecessor may have expired since.       *)
replayed(p) == TRUE
rotatable(p) == Unrevoked(p)

RotateOauthRefreshToken(r) ==
  LET p == req[r].of
      k == req[r].client
  IN  /\ req[r].pc = "guarded" /\ req[r].op = "refresh"
      /\ IF rotatable(p)
         THEN /\ client[k] # "deleted"
              /\ cred' = [cred EXCEPT ![p].refresh = "spent",
                                      ![r] = Pair(k, "live")]
              /\ family' = [family EXCEPT ![r] = family[p]]
              /\ Become(r, Touch(k))
         ELSE /\ End(r)
              /\ UNCHANGED <<cred, family>>
      /\ Release(r)
      /\ UNCHANGED <<account, client, redeemed, overlapped>>

(* touchClientLastUsed, after the tokens are there; best effort.           *)
TouchClient(r) ==
  /\ req[r].pc = "touch"
  /\ client' = [client EXCEPT ![req[r].client] =
                  IF @ = "deleted" THEN "deleted" ELSE "used"]
  /\ End(r)
  /\ UNCHANGED <<account, lifecycle, resetting, cred, history>>

-----------------------------------------------------------------------------
(* Revocation by the user.                                                 *)

spend(x) ==
  [cred[x] EXCEPT !.state = IF @ = "live" THEN "spent" ELSE @,
                  !.refresh = IF @ \in {"live", "lapsed"} THEN "spent" ELSE @]

Spend(S) == cred' = [x \in Ids |-> IF x \in S THEN spend(x) ELSE cred[x]]

(* revokeClientForUser takes no advisory lock.  Its first statement sees   *)
(* the tokens that are there when it starts, and may wait for a rotation.  *)
RevokeTokens(r, k) ==
  /\ Starts(r, "revoke")
  /\ authenticated
  /\ Become(r, [Task("revoke") EXCEPT
       !.pc = "revoking", !.client = k,
       !.seen = {p \in Kind("pair") : cred[p].client = k}])
  /\ UNCHANGED <<cred, redeemed>>

RevokeCodes(r) ==
  /\ req[r].pc = "revoking"
  /\ Spend(req[r].seen
             \cup {f \in Live("code") : cred[f].client = req[r].client})
  /\ End(r)
  /\ UNCHANGED <<account, lifecycle, resetting, client, history>>

RevokeApiKey(x) ==
  /\ authenticated
  /\ x \in Live("key")
  /\ Spend({x})
  /\ UNCHANGED <<account, lifecycle, resetting, req, client, history>>

-----------------------------------------------------------------------------
(* Passwords.                                                              *)

resetIgnored == TRUE
resetFree == resetting = NULL

(* The rows that a statement sees when it starts.                          *)
Visible == {x \in Ids : cred[x].kind # "none"}

(* resetPassword: peeked, then the breach check and the hash.              *)
PeekResetToken(r, t) ==
  /\ Starts(r, "reset password")
  /\ t \in Live("reset")
  /\ Become(r, [Task("reset password") EXCEPT !.pc = "opened", !.of = t])
  /\ UNCHANGED <<cred, redeemed>>

(* auth_reset_password: under the lock the token is checked again.         *)
ResetBegin(r) ==
  /\ req[r].pc = "opened" /\ req[r].op = "reset password"
  /\ resetFree
  /\ \/ /\ req[r].of \in Live("reset")
        /\ ~account.erased
        /\ resetting' = r
        /\ Become(r, [req[r] EXCEPT !.pc = "swapping", !.seen = Visible])
     \/ /\ req[r].of \notin Live("reset") \/ account.erased
        /\ End(r)
        /\ UNCHANGED resetting
  /\ UNCHANGED <<account, lifecycle, cred, client, history>>

(* verifyCurrentPasswordHash, for the session that asks.                   *)
VerifyCurrent(r, s) ==
  /\ Starts(r, "change password")
  /\ s \in Live("session")
  /\ ~account.erased
  /\ Become(r, [Task("change password") EXCEPT
       !.pc = "opened", !.of = s, !.version = account.password])
  /\ UNCHANGED <<cred, redeemed>>

(* rotatePasswordAndRevokeOthers: a compare-and-set under the reset lock.  *)
ChangeBegin(r) ==
  /\ req[r].pc = "opened" /\ req[r].op = "change password"
  /\ resetFree
  /\ IF userIsLiveForIssuance /\ account.password = req[r].version
     THEN /\ resetting' = r
          /\ Become(r, [req[r] EXCEPT !.pc = "swapping", !.seen = Visible])
     ELSE /\ End(r)
          /\ UNCHANGED resetting
  /\ UNCHANGED <<account, lifecycle, cred, client, history>>

NewPassword ==
  /\ account.password < MaxPassword
  /\ account' = [account EXCEPT !.password = @ + 1]

revokedByReset(r) ==
  {x \in req[r].seen : cred[x].kind \in {"session", "pair", "key", "reset"}}
keepsSessions(r) ==
  {x \in req[r].seen : cred[x].kind \in {"pair", "key", "reset"}}

sweptByReset(r) == revokedByReset(r)

ResetCommit(r) ==
  /\ req[r].pc = "swapping" /\ req[r].op = "reset password"
  /\ NewPassword
  /\ Spend(sweptByReset(r))
  /\ End(r)
  /\ Release(r)
  /\ UNCHANGED <<client, history>>

(* The other sessions and the reset tokens go; the one that asked stays.   *)
ChangeCommit(r) ==
  LET gone == {x \in req[r].seen : cred[x].kind \in {"session", "reset"}}
                \ {req[r].of}
      kept == [cred[req[r].of] EXCEPT !.version = account'.password]
  IN  /\ req[r].pc = "swapping" /\ req[r].op = "change password"
      /\ NewPassword
      /\ cred' = [x \in Ids |-> IF x \in gone THEN spend(x)
                                ELSE IF x = req[r].of THEN kept
                                ELSE cred[x]]
      /\ End(r)
      /\ Release(r)
      /\ UNCHANGED <<client, history>>

-----------------------------------------------------------------------------
(* eraseAccountData, under both locks.                                     *)
EraseAccount ==
  /\ authenticated
  /\ ~account.erased
  /\ lifecycle = NULL /\ resetting = NULL
  /\ account' = [account EXCEPT !.erased = TRUE]
  /\ Spend(Ids)
  /\ UNCHANGED <<lifecycle, resetting, req, client, history>>

Expire(x) ==
  /\ \/ /\ cred[x].kind \in {"session", "code", "reset", "pair"}
        /\ cred[x].state = "live"
        /\ cred' = [cred EXCEPT ![x].state = "spent"]
     \/ /\ cred[x].refresh = "live"
        /\ cred' = [cred EXCEPT ![x].refresh = "lapsed"]
  /\ UNCHANGED <<account, lifecycle, resetting, req, client, history>>

SetLimit ==
  /\ \E limit \in Limits \cup {NULL} : account' = [account EXCEPT !.limit = limit]
  /\ UNCHANGED <<lifecycle, resetting, req, cred, client, history>>

(* auth_client_has_grants                                                  *)
HasGrants(k) ==
  \/ \E p \in Kind("pair") : cred[p].client = k
  \/ \E f \in Live("code") : cred[f].client = k

Collectable(k) == client[k] = "unused" /\ ~HasGrants(k)

(* garbageCollectClients: a scan, then a DELETE that checks again as it    *)
(* starts; it waits for whoever holds the client, and cascades.            *)
ListGarbageCollectableClients(r) ==
  /\ Starts(r, "gc")
  /\ Become(r, [Task("gc") EXCEPT !.pc = "listed",
                                  !.victims = {k \in Clients : Collectable(k)}])
  /\ UNCHANGED <<cred, redeemed>>

DeleteClientsBegin(r) ==
  /\ req[r].pc = "listed"
  /\ Become(r, [req[r] EXCEPT !.pc = "deleting",
       !.victims = {k \in req[r].victims : Collectable(k)}])
  /\ UNCHANGED <<account, lifecycle, resetting, cred, client, history>>

DeleteClients(r) ==
  LET victims == {k \in req[r].victims : client[k] = "unused"}
  IN  /\ req[r].pc = "deleting"
      /\ client' = [k \in Clients |->
                      IF k \in victims THEN "deleted" ELSE client[k]]
      /\ Spend({x \in Ids : cred[x].client \in victims})
      /\ End(r)
      /\ UNCHANGED <<account, lifecycle, resetting, history>>

(* The process dies; its transaction rolls back.                           *)
Crash(r) ==
  /\ "crash" \in Faults
  /\ req[r].pc \notin {"idle", "done"}
  /\ End(r)
  /\ Release(r)
  /\ UNCHANGED <<account, cred, client, history>>

-----------------------------------------------------------------------------
Opens(r) ==
  \/ Login(r)
  \/ IssueApiKey(r)
  \/ RequestPasswordReset(r)
  \/ \E k \in Clients : Consent(r, k)
  \/ \E f \in Ids : ConsumeOauthCode(r, f)
  \/ \E p \in Ids : ResolveRefresh(r, p)
  \/ \E k \in Clients : RevokeTokens(r, k)
  \/ \E t \in Ids : PeekResetToken(r, t)
  \/ \E s \in Ids : VerifyCurrent(r, s)
  \/ ListGarbageCollectableClients(r)

Issues(r) ==
  \/ GuardIssuance(r)
  \/ InsertSession(r)
  \/ InsertApiKey(r)
  \/ InsertPasswordResetToken(r)
  \/ InsertOauthCode(r)
  \/ ClientGone(r)
  \/ GuardTokens(r)
  \/ InsertOauthTokenPair(r)
  \/ RotateOauthRefreshToken(r)
  \/ TouchClient(r)

Revokes(r) ==
  \/ RevokeCodes(r)
  \/ ResetBegin(r)
  \/ ResetCommit(r)
  \/ ChangeBegin(r)
  \/ ChangeCommit(r)
  \/ DeleteClientsBegin(r)
  \/ DeleteClients(r)
  \/ Crash(r)

Next ==
  \/ \E r \in Requests : Opens(r)
  \/ \E r \in Requests : Issues(r)
  \/ \E r \in Requests : Revokes(r)
  \/ \E x \in Ids : RevokeApiKey(x)
  \/ \E x \in Ids : Expire(x)
  \/ EraseAccount
  \/ SetLimit

Spec == Init /\ [][Next]_vars

-----------------------------------------------------------------------------
(* Properties.                                                             *)

(* eraseAccountData: whatever was being issued, exchanged, rotated or      *)
(* reset when the account was erased, no credential of it works after.     *)
NothingSurvivesErasure ==
  account.erased =>
    \A x \in Ids : cred[x].state # "live" /\ ~Unrevoked(x)

(* resetPassword and changePasswordAndRevokeOthers: a session is of the    *)
(* password in force, unless its login overlaps the change that ended it.  *)
SessionsMatchPassword ==
  \A s \in Live("session") :
    cred[s].version = account.password \/ s \in overlapped

(* rotatePasswordAndRevokeOthers: a change replaces only the password that *)
(* it has verified, never what a reset or another change has set since.    *)
NoPasswordIsOverwritten ==
  [][\A r \in Requests :
       req[r].op = "change password" /\ req[r].pc = "swapping"
         /\ account'.password # account.password /\ req'[r].pc = "done"
         => account.password = req[r].version]_vars

(* insertOauthTokenPair: exchanges for different clients at the same time  *)
(* never take the account past the limit that they have read.              *)
LimitHolds ==
  [][\A r \in Requests :
       req[r].pc = "guarded" /\ req[r].op = "exchange" /\ req[r].new
         /\ req[r].limit # NULL /\ req'[r].pc = "touch"
         => Cardinality(LiveClients') <= req[r].limit]_vars

(* The token endpoint implements GrantFamilies: a code yields one pair, a  *)
(* refresh token one successor, and what has ended stays ended.            *)
stageOf(f) ==
  IF \E p \in Kind("pair") : family[p] = f THEN "granted"
  ELSE IF f \in redeemed THEN "redeemed"
  ELSE IF f \in Live("code") THEN "fresh"
  ELSE IF f \in Kind("code") THEN "void"
  ELSE "unborn"

Families ==
  INSTANCE GrantFamilies WITH
    stage <- [f \in Ids |-> stageOf(f)],
    heads <- [f \in Ids |-> {p \in Kind("pair") : family[p] = f /\ Unrevoked(p)}],
    spent <- Kind("pair")

GrantFamiliesHold == Families!Spec
=============================================================================
