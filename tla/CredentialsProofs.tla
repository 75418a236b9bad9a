-------------------------- MODULE CredentialsProofs --------------------------
(***************************************************************************)
(* What the properties of Credentials rest on: a request that has taken a  *)
(* lock has found the account alive under it; whoever redeems a code is    *)
(* alone with it; and a session that a password change is about to miss    *)
(* has overlapped it.                                                      *)
(***************************************************************************)
EXTENDS Credentials, FiniteSetTheorems, TLAPS

Unissued(r) ==
  /\ cred[r].kind = "none" /\ cred[r].state = "none" /\ cred[r].refresh = "none"
  /\ family[r] = NULL

Issuing(r, op) == req[r].pc \in {"issue", "guarded"} /\ req[r].op = op
Granted(f) == \E p \in Kind("pair") : family[p] = f

(* A request has its credential when it has committed, not before; what it *)
(* is about is there; a holder of a lock found the account alive.          *)
RequestOK(r) ==
  /\ req[r].pc \notin {"touch", "done"} => Unissued(r)
  /\ req[r].pc \in {"guarded", "swapping"} => ~account.erased
  /\ Issuing(r, "exchange") =>
       /\ req[r].client \in Clients
       /\ req[r].of \in redeemed /\ ~Granted(req[r].of)
  /\ Issuing(r, "refresh") => req[r].client \in Clients /\ req[r].of \in Kind("pair")
  /\ Issuing(r, "code") => req[r].client \in Clients

(* The tokens that an issuance has counted are the most there can be until *)
(* it commits.                                                             *)
CountOK(r) ==
  req[r].pc = "guarded" /\ req[r].op = "exchange" /\ req[r].new /\ req[r].limit # NULL
    => Cardinality(LiveClients) < req[r].limit

(* A password change knows the password that it replaces and the sessions  *)
(* that it ends, but for those that were issued since.                     *)
SwapOK(r) ==
  /\ req[r].op = "change password" /\ req[r].pc \in {"opened", "swapping"} =>
       req[r].of \in Ids
  /\ req[r].pc = "swapping" =>
       /\ req[r].op = "change password" => account.password = req[r].version
       /\ Live("session") \subseteq overlapped \cup req[r].seen

RedeemersApart ==
  \A r, t \in Requests :
    Issuing(r, "exchange") /\ Issuing(t, "exchange") /\ req[r].of = req[t].of => r = t

(* A pair has a client and a family, which is a code or a standing pair.   *)
CredentialOK(x) ==
  /\ cred[x].kind \in {"code", "pair"} => cred[x].client \in Clients
  /\ IF cred[x].kind = "pair"
     THEN family[x] \in Ids /\ cred[family[x]].kind # "none"
     ELSE family[x] = NULL /\ cred[x].refresh = "none"
  /\ cred[x].kind = "none" => cred[x].state = "none"

(* A code is redeemed once, and only then granted.                         *)
CodesOK ==
  /\ \A f \in redeemed : f \in Kind("code") /\ f \notin Live("code")
  /\ \A f \in Kind("code") \ redeemed : ~Granted(f)

OneHead ==
  \A p, q \in Kind("pair") :
    Unrevoked(p) /\ Unrevoked(q) /\ family[p] = family[q] => p = q

IInv ==
  /\ TypeOK
  /\ \A r \in Requests : RequestOK(r) /\ CountOK(r) /\ SwapOK(r)
  /\ RedeemersApart
  /\ \A x \in Ids : CredentialOK(x)
  /\ CodesOK
  /\ OneHead
  /\ NothingSurvivesErasure
  /\ SessionsMatchPassword

-----------------------------------------------------------------------------
Accounts == [ password : 1..MaxPassword, erased : BOOLEAN, limit : Limits \cup {NULL} ]

LEMMA Types ==
  ASSUME TypeOK
  PROVE  /\ account \in Accounts
         /\ account.password \in 1..MaxPassword /\ account.erased \in BOOLEAN
         /\ lifecycle \in Requests \cup {NULL}
         /\ resetting \in Requests \cup {NULL}
         /\ req \in [Requests -> RequestStates]
         /\ cred \in [Ids -> CredentialStates]
         /\ client \in [Clients -> {"unused", "used", "deleted"}]
         /\ family \in [Ids -> Ids \cup {NULL}]
         /\ redeemed \in SUBSET Ids
         /\ overlapped \in SUBSET Ids
         /\ \A r \in Requests : lifecycle = r <=> req[r].pc = "guarded"
         /\ \A r \in Requests : resetting = r <=> req[r].pc = "swapping"
BY DEF TypeOK, Accounts

(* One holder at most of each lock.                                        *)
LEMMA Holders ==
  ASSUME TypeOK, NEW r \in Requests
  PROVE  /\ req[r].pc # "guarded" => freed(lifecycle, r) = lifecycle
         /\ req[r].pc # "swapping" => freed(resetting, r) = resetting
         /\ lifecycle = NULL \/ req[r].pc = "guarded" =>
              \A t \in Requests : t # r => req[t].pc # "guarded"
         /\ resetting = NULL \/ req[r].pc = "swapping" =>
              \A t \in Requests : t # r => req[t].pc # "swapping"
<1>1. /\ \A t \in Requests : lifecycle = t <=> req[t].pc = "guarded"
      /\ \A t \in Requests : resetting = t <=> req[t].pc = "swapping"
      /\ NULL \notin Requests
  BY Types, CredentialAssumption DEF Ids
<1> QED BY <1>1 DEF freed

(* A request moves on and takes or leaves its locks.                       *)
LEMMA Moves ==
  ASSUME TypeOK, NEW r \in Requests, NEW row \in RequestStates, Become(r, row),
         row.pc = "guarded" => lifecycle = NULL,
         lifecycle' = IF row.pc = "guarded" THEN r ELSE freed(lifecycle, r),
         row.pc = "swapping" => resetting = NULL,
         resetting' = IF row.pc = "swapping" THEN r ELSE freed(resetting, r),
         account' \in Accounts,
         cred' \in [Ids -> CredentialStates],
         client' \in [Clients -> {"unused", "used", "deleted"}],
         family' \in [Ids -> Ids \cup {NULL}],
         redeemed' \in SUBSET Ids,
         overlapped' \in SUBSET Ids
  PROVE  /\ TypeOK'
         /\ req'[r] = row
         /\ \A t \in Requests : t # r => req'[t] = req[t]
<1>1. /\ \A t \in Requests : lifecycle = t <=> req[t].pc = "guarded"
      /\ \A t \in Requests : resetting = t <=> req[t].pc = "swapping"
      /\ req \in [Requests -> RequestStates]
      /\ lifecycle \in Requests \cup {NULL} /\ resetting \in Requests \cup {NULL}
      /\ NULL \notin Requests
  BY Types, CredentialAssumption DEF Ids
<1>2. /\ req'[r] = row /\ req' \in [Requests -> RequestStates]
      /\ \A t \in Requests : t # r => req'[t] = req[t]
  BY <1>1 DEF Become
<1>3. /\ lifecycle' \in Requests \cup {NULL}
      /\ \A t \in Requests : lifecycle' = t <=> req'[t].pc = "guarded"
  BY <1>1, <1>2 DEF freed
<1>4. /\ resetting' \in Requests \cup {NULL}
      /\ \A t \in Requests : resetting' = t <=> req'[t].pc = "swapping"
  BY <1>1, <1>2 DEF freed
<1> QED BY <1>2, <1>3, <1>4 DEF TypeOK, Accounts

(* The rows that requests are given.                                       *)
LEMMA Rows ==
  ASSUME TypeOK, NEW r \in Requests
  PROVE  /\ req[r] \in RequestStates
         /\ Idle \in RequestStates
         /\ [Idle EXCEPT !.pc = "done"] \in RequestStates
         /\ [Idle EXCEPT !.pc = "done"].pc = "done"
<1>1. Idle \in RequestStates
  BY DEF Idle, RequestStates
<1>2. req[r] \in RequestStates
  BY Types
<1> QED BY <1>1, <1>2 DEF RequestStates, Idle

-----------------------------------------------------------------------------
(* The clients that are counted are finitely many.                         *)
LEMMA LiveClientsAreClients ==
  ASSUME \A x \in Ids : CredentialOK(x)
  PROVE  /\ LiveClients \subseteq Clients
         /\ IsFiniteSet(LiveClients)
         /\ Cardinality(LiveClients) \in Nat
<1>1. LiveClients \subseteq Clients
  BY DEF CredentialOK, LiveClients, Kind
<1> QED BY <1>1, FS_Subset, FS_CardinalityType, CredentialAssumption

(* A credential that nothing is issued over.                               *)
Fades(x) ==
  /\ cred'[x].kind = cred[x].kind
  /\ cred'[x].client = cred[x].client
  /\ \/ cred'[x].state = cred[x].state
     \/ cred[x].state = "live" /\ cred'[x].state = "spent"
  /\ \/ cred'[x].refresh = cred[x].refresh
     \/ Unrevoked(x) /\ cred'[x].refresh \in {"lapsed", "spent"}

LEMMA Fading ==
  ASSUME TypeOK, TypeOK', UNCHANGED family, \A x \in Ids : Fades(x)
  PROVE  /\ \A kind : Kind(kind)' = Kind(kind) /\ Live(kind)' \subseteq Live(kind)
         /\ \A f : Granted(f)' <=> Granted(f)
         /\ LiveClients' \subseteq LiveClients
         /\ \A x \in Ids : Unissued(x) => Unissued(x)'
         /\ \A x \in Ids : Unrevoked(x)' => Unrevoked(x)
<1>1. ASSUME NEW kind
      PROVE  Kind(kind)' = Kind(kind) /\ Live(kind)' \subseteq Live(kind)
  BY DEF Kind, Live, Fades
<1>2. ASSUME NEW f PROVE Granted(f)' <=> Granted(f)
  BY <1>1 DEF Granted
<1>3. LiveClients' \subseteq LiveClients
  <2>1. Kind("pair")' = Kind("pair") /\ Kind("pair") \subseteq Ids
    BY <1>1 DEF Kind
  <2>2. \A q \in Ids : "live" \in {cred'[q].state, cred'[q].refresh} =>
          "live" \in {cred[q].state, cred[q].refresh} /\ cred'[q].client = cred[q].client
    BY DEF Fades
  <2> QED BY <2>1, <2>2 DEF LiveClients
<1>4. ASSUME NEW x \in Ids
      PROVE  (Unissued(x) => Unissued(x)') /\ (Unrevoked(x)' => Unrevoked(x))
  BY DEF Fades, Unissued, Unrevoked
<1> QED BY <1>1, <1>2, <1>3, <1>4

(* A step that issues nothing: the requests that take it (one or none) are *)
(* as they must be, and so is everything else.                             *)
LEMMA FadePreserves ==
  ASSUME IInv, TypeOK', UNCHANGED <<family, overlapped>>, \A x \in Ids : Fades(x),
         NEW A \in SUBSET Requests,
         \A r, t \in A : r = t,
         \A t \in Requests \ A : req'[t] = req[t],
         \A r \in A : RequestOK(r)' /\ CountOK(r)' /\ SwapOK(r)',
         NEW R \in SUBSET Live("code"),
         redeemed' = redeemed \cup R,
         R \cap Live("code")' = {},
         \A r \in A : Issuing(r, "exchange")' =>
           \/ Issuing(r, "exchange") /\ req'[r].of = req[r].of
           \/ req'[r].of \in R,
         \/ account'.erased = account.erased
         \/ /\ \A t \in Requests : req'[t].pc \notin {"guarded", "swapping"}
            /\ \A x \in Ids : cred'[x].state # "live" /\ ~Unrevoked(x)',
         \/ account'.password = account.password
         \/ \A t \in Requests \ A : req[t].pc # "swapping",
         SessionsMatchPassword'
  PROVE  IInv'
<1>1. /\ \A kind : Kind(kind)' = Kind(kind) /\ Live(kind)' \subseteq Live(kind)
      /\ \A f : Granted(f)' <=> Granted(f)
      /\ LiveClients' \subseteq LiveClients
      /\ \A x \in Ids : Unissued(x) => Unissued(x)'
      /\ \A x \in Ids : Unrevoked(x)' => Unrevoked(x)
  BY Fading DEF IInv
<1>2. ASSUME NEW x \in Ids PROVE CredentialOK(x)'
  <2>1. CredentialOK(x) /\ Fades(x) /\ UNCHANGED family
    BY DEF IInv
  <2>2. family[x] \in Ids => Fades(family[x])
    OBVIOUS
  <2> QED BY <2>1, <2>2 DEF CredentialOK, Fades, Unrevoked
<1>3. CodesOK'
  <2>1. CodesOK
    BY DEF IInv
  <2>2. Live("code") \subseteq Kind("code")
    BY DEF Live
  <2> QED BY <1>1, <2>1, <2>2 DEF CodesOK
<1>4. OneHead'
  <2>1. Kind("pair") \subseteq Ids
    BY DEF Kind
  <2> QED BY <1>1, <2>1 DEF IInv, OneHead
<1>5. NothingSurvivesErasure'
  <2>1. CASE account'.erased = account.erased
    BY <2>1, <1>1 DEF IInv, NothingSurvivesErasure, Fades
  <2> QED BY <2>1 DEF NothingSurvivesErasure
<1>6. RedeemersApart'
  <2>1. \A f \in R : f \notin redeemed
    BY DEF IInv, CodesOK
  <2>2. ASSUME NEW r \in Requests, NEW t \in Requests,
               Issuing(r, "exchange")', Issuing(t, "exchange")',
               req'[r].of = req'[t].of
        PROVE  r = t
    <3>1. CASE r \in A /\ t \in A
      BY <3>1
    <3>2. ASSUME NEW u \in Requests, u \notin A, Issuing(u, "exchange")'
          PROVE  Issuing(u, "exchange") /\ req'[u].of = req[u].of /\ req[u].of \in redeemed
      BY <3>2 DEF IInv, RequestOK, Issuing
    <3>3. ASSUME NEW u \in Requests, NEW v \in A, u \notin A,
                 Issuing(u, "exchange")', Issuing(v, "exchange")'
          PROVE  req'[u].of = req'[v].of => u = v
      BY <3>2, <3>3, <2>1 DEF IInv, RedeemersApart
    <3>4. CASE r \notin A /\ t \notin A
      BY <3>2, <3>4, <2>2 DEF IInv, RedeemersApart
    <3> QED BY <2>2, <3>1, <3>3, <3>4
  <2> QED BY <2>2 DEF RedeemersApart
<1>7. ASSUME NEW t \in Requests \ A PROVE RequestOK(t)' /\ CountOK(t)' /\ SwapOK(t)'
  <2>1. req'[t] = req[t] /\ RequestOK(t) /\ CountOK(t) /\ SwapOK(t) /\ t \in Ids
    BY DEF IInv, Ids
  <2>2. req[t].pc \in {"guarded", "swapping"} => account'.erased = account.erased
    BY <2>1
  <2>3. RequestOK(t)'
    BY <1>1, <2>1, <2>2 DEF RequestOK, Issuing
  <2>4. CountOK(t)'
    <3>1. IsFiniteSet(LiveClients)
      BY LiveClientsAreClients DEF IInv
    <3>2. Cardinality(LiveClients') <= Cardinality(LiveClients)
          /\ Cardinality(LiveClients') \in Nat /\ Cardinality(LiveClients) \in Nat
      BY <1>1, <3>1, FS_Subset, FS_CardinalityType
    <3>3. req[t].limit # NULL => req[t].limit \in Nat
      BY Types, CredentialAssumption DEF IInv, RequestStates
    <3> QED BY <2>1, <3>2, <3>3 DEF CountOK
  <2>5. SwapOK(t)'
    BY <1>1, <2>1 DEF SwapOK
  <2> QED BY <2>3, <2>4, <2>5
<1> QED BY <1>2, <1>3, <1>4, <1>5, <1>6, <1>7 DEF IInv

(* The same for one request that redeems no code.                          *)
LEMMA FadeOne ==
  ASSUME IInv, TypeOK', UNCHANGED history, \A x \in Ids : Fades(x),
         NEW r \in Requests,
         \A t \in Requests : t # r => req'[t] = req[t],
         RequestOK(r)', CountOK(r)', SwapOK(r)',
         Issuing(r, "exchange")' => Issuing(r, "exchange") /\ req'[r].of = req[r].of,
         account'.erased = account.erased,
         \/ account'.password = account.password
         \/ \A t \in Requests : t # r => req[t].pc # "swapping",
         SessionsMatchPassword'
  PROVE  IInv'
<1> DEFINE A == {r}
           R == {}
<1>1. /\ A \in SUBSET Requests /\ \A t, u \in A : t = u
      /\ \A t \in Requests \ A : req'[t] = req[t]
      /\ R \in SUBSET Live("code") /\ redeemed' = redeemed \cup R
      /\ R \cap Live("code")' = {} /\ UNCHANGED <<family, overlapped>>
  BY DEF history
<1>2. \A t \in A : RequestOK(t)' /\ CountOK(t)' /\ SwapOK(t)'
  OBVIOUS
<1>3. \A t \in A : Issuing(t, "exchange")' =>
        \/ Issuing(t, "exchange") /\ req'[t].of = req[t].of
        \/ req'[t].of \in R
  OBVIOUS
<1>4. \/ account'.password = account.password
      \/ \A t \in Requests \ A : req[t].pc # "swapping"
  OBVIOUS
<1> HIDE DEF A, R
<1> QED BY <1>1, <1>2, <1>3, <1>4, FadePreserves

-----------------------------------------------------------------------------
(* What every step promises beside the invariant: it is one of the token   *)
(* endpoint's abstract steps, and it keeps to the limit.                   *)
LimitStep ==
  \A r \in Requests :
    req[r].pc = "guarded" /\ req[r].op = "exchange" /\ req[r].new
      /\ req[r].limit # NULL /\ req'[r].pc = "touch"
      => Cardinality(LiveClients') <= req[r].limit

Promised == [Families!Next]_(Families!fvars) /\ LimitStep

heads(f) == {p \in Kind("pair") : family[p] = f /\ Unrevoked(p)}

(* Fading ends families, and nothing else.                                 *)
LEMMA FadeRefines ==
  ASSUME TypeOK, TypeOK', UNCHANGED <<family, redeemed>>, \A x \in Ids : Fades(x)
  PROVE  Families!End
<1>1. /\ \A kind : Kind(kind)' = Kind(kind) /\ Live(kind)' \subseteq Live(kind)
      /\ \A f : Granted(f)' <=> Granted(f)
      /\ \A x \in Ids : Unrevoked(x)' => Unrevoked(x)
  BY Fading
<1>2. \A f \in Ids : heads(f)' \subseteq heads(f) /\ heads(f)' \in SUBSET Ids
  BY <1>1 DEF heads, Kind
<1>3. \A f \in Ids :
        /\ stageOf(f)' \in {"unborn", "fresh", "redeemed", "granted", "void"}
        /\ \/ stageOf(f)' = stageOf(f)
           \/ stageOf(f) = "fresh" /\ stageOf(f)' = "void"
  <2>1. /\ Kind("code")' = Kind("code") /\ Kind("pair")' = Kind("pair")
        /\ Live("code")' \subseteq Live("code")
        /\ Live("code") \subseteq Kind("code")
    BY <1>1 DEF Live
  <2>2. ASSUME NEW f \in Ids
        PROVE  /\ stageOf(f)' \in {"unborn", "fresh", "redeemed", "granted", "void"}
               /\ \/ stageOf(f)' = stageOf(f)
                  \/ stageOf(f) = "fresh" /\ stageOf(f)' = "void"
    <3>1. CASE \E p \in Kind("pair") : family[p] = f
      BY <2>1, <3>1 DEF stageOf
    <3>2. CASE ~\E p \in Kind("pair") : family[p] = f
      BY <2>1, <3>2 DEF stageOf
    <3> QED BY <3>1, <3>2
  <2> QED BY <2>2
<1> QED BY <1>1, <1>2, <1>3 DEF Families!End, heads

LEMMA EndPromised ==
  ASSUME TypeOK, TypeOK', UNCHANGED <<family, redeemed>>, \A x \in Ids : Fades(x),
         \A r \in Requests : req'[r].pc = "touch" => req'[r] = req[r]
  PROVE  Promised
<1>1. LimitStep
  BY DEF LimitStep
<1>2. Families!End
  BY FadeRefines
<1> QED BY <1>1, <1>2 DEF Promised, Families!Next

LEMMA SameFades == UNCHANGED cred => \A x \in Ids : Fades(x)
BY DEF Fades

LEMMA SameSessions ==
  ASSUME IInv, UNCHANGED <<account, cred, overlapped>>
  PROVE  SessionsMatchPassword'
BY DEF IInv, SessionsMatchPassword, Live, Kind

(* A request goes on; it issues nothing and revokes nothing.               *)
LEMMA Going ==
  ASSUME IInv, NEW r \in Requests, NEW row \in RequestStates, Become(r, row),
         row.pc = "guarded" => lifecycle = NULL,
         lifecycle' = IF row.pc = "guarded" THEN r ELSE freed(lifecycle, r),
         row.pc = "swapping" => resetting = NULL,
         resetting' = IF row.pc = "swapping" THEN r ELSE freed(resetting, r),
         UNCHANGED <<account, cred, client, history>>,
         row.pc # "touch",
         row.pc # "done" => Unissued(r),
         row.pc \in {"guarded", "swapping"} => ~account.erased,
         row.pc \in {"issue", "guarded"} =>
           /\ row.op = "exchange" =>
                Issuing(r, "exchange") /\ row.of = req[r].of /\ row.client = req[r].client
           /\ row.op = "refresh" => row.client \in Clients /\ row.of \in Kind("pair")
           /\ row.op = "code" => row.client \in Clients,
         row.pc = "guarded" /\ row.op = "exchange" /\ row.new /\ row.limit # NULL
           => Cardinality(LiveClients) < row.limit,
         row.op = "change password" /\ row.pc \in {"opened", "swapping"} => row.of \in Ids,
         row.pc = "swapping" =>
           /\ row.op = "change password" => account.password = row.version
           /\ Live("session") \subseteq overlapped \cup row.seen
  PROVE  IInv' /\ Promised
<1>1. /\ TypeOK' /\ req'[r] = row
      /\ \A t \in Requests : t # r => req'[t] = req[t]
  <2>1. TypeOK
    BY DEF IInv
  <2>2. /\ account' \in Accounts
        /\ cred' \in [Ids -> CredentialStates]
        /\ client' \in [Clients -> {"unused", "used", "deleted"}]
        /\ family' \in [Ids -> Ids \cup {NULL}]
        /\ redeemed' \in SUBSET Ids /\ overlapped' \in SUBSET Ids
    BY <2>1, Types DEF history
  <2> QED BY <2>1, <2>2, Moves
<1>2. \A x \in Ids : Fades(x)
  BY SameFades
<1>3. /\ \A kind : Kind(kind)' = Kind(kind) /\ Live(kind)' = Live(kind)
      /\ \A f : Granted(f)' <=> Granted(f)
      /\ LiveClients' = LiveClients
      /\ Unissued(r)' <=> Unissued(r)
  BY DEF Kind, Live, Granted, LiveClients, Unissued, history
<1>4. RequestOK(r)' /\ CountOK(r)' /\ SwapOK(r)'
  <2>1. RequestOK(r)
    BY DEF IInv
  <2>2. RequestOK(r)'
    BY <2>1, <1>1, <1>3 DEF RequestOK, Issuing, history
  <2>3. CountOK(r)'
    BY <1>1, <1>3 DEF CountOK
  <2>4. SwapOK(r)'
    BY <1>1, <1>3 DEF SwapOK, history
  <2> QED BY <2>2, <2>3, <2>4
<1>5. IInv'
  <2>1. Issuing(r, "exchange")' => Issuing(r, "exchange") /\ req'[r].of = req[r].of
    BY <1>1 DEF Issuing
  <2>2. SessionsMatchPassword'
    BY SameSessions DEF history
  <2> QED BY <2>1, <2>2, <1>1, <1>2, <1>4, FadeOne
<1> QED BY <1>1, <1>2, <1>5, EndPromised DEF IInv, history

(* A request ends; it issues nothing, but may revoke.                      *)
LEMMA Ending ==
  ASSUME IInv, NEW r \in Requests, End(r), Release(r),
         account' \in Accounts, account'.erased = account.erased,
         cred' \in [Ids -> CredentialStates], \A x \in Ids : Fades(x),
         client' \in [Clients -> {"unused", "used", "deleted"}],
         UNCHANGED history,
         account'.password = account.password \/ req[r].pc = "swapping",
         SessionsMatchPassword'
  PROVE  IInv' /\ Promised
<1> DEFINE row == [Idle EXCEPT !.pc = "done"]
<1>1. row \in RequestStates /\ row.pc = "done"
  BY Rows DEF IInv
<1>2. Become(r, row)
  BY DEF End
<1> HIDE DEF row
<1>3. TypeOK
  BY DEF IInv
<1>4. /\ TypeOK' /\ req'[r] = row
      /\ \A t \in Requests : t # r => req'[t] = req[t]
  <2>1. /\ family' \in [Ids -> Ids \cup {NULL}]
        /\ redeemed' \in SUBSET Ids /\ overlapped' \in SUBSET Ids
    BY <1>3, Types DEF history
  <2>2. lifecycle' = freed(lifecycle, r) /\ resetting' = freed(resetting, r)
    BY DEF Release
  <2> QED BY <2>1, <2>2, <1>1, <1>2, <1>3, Moves
<1>5. RequestOK(r)' /\ CountOK(r)' /\ SwapOK(r)' /\ ~Issuing(r, "exchange")'
  BY <1>1, <1>4 DEF RequestOK, CountOK, SwapOK, Issuing
<1>6. IInv'
  <2>1. \/ account'.password = account.password
        \/ \A t \in Requests : t # r => req[t].pc # "swapping"
    BY <1>3, Holders
  <2> QED BY <2>1, <1>4, <1>5, FadeOne
<1>7. \A t \in Requests : req'[t].pc = "touch" => req'[t] = req[t]
  BY <1>1, <1>4
<1> QED BY <1>3, <1>4, <1>6, <1>7, EndPromised DEF history

(* Nobody's request moves.                                                 *)
LEMMA Alone ==
  ASSUME IInv, UNCHANGED <<lifecycle, resetting, req, client, history>>,
         account' \in Accounts, account'.password = account.password,
         cred' \in [Ids -> CredentialStates], \A x \in Ids : Fades(x),
         \/ account'.erased = account.erased
         \/ /\ lifecycle = NULL /\ resetting = NULL
            /\ \A x \in Ids : cred'[x].state # "live" /\ ~Unrevoked(x)',
         \A x \in Ids : cred'[x].version = cred[x].version
  PROVE  IInv' /\ Promised
<1>1. TypeOK
  BY DEF IInv
<1>2. TypeOK'
  BY <1>1 DEF TypeOK, Accounts, history
<1>3. SessionsMatchPassword'
  <2>1. Live("session")' \subseteq Live("session") /\ Live("session") \subseteq Ids
    BY <1>1, <1>2, Fading DEF Live, Kind, history
  <2> QED BY <2>1 DEF IInv, SessionsMatchPassword, history
<1>4. IInv'
  <2>1. lifecycle = NULL /\ resetting = NULL =>
          \A t \in Requests : req'[t].pc \notin {"guarded", "swapping"}
    BY <1>1, Types, CredentialAssumption DEF Ids
  <2>2. /\ {} \in SUBSET Requests
        /\ {} \in SUBSET Live("code") /\ redeemed' = redeemed \cup {}
        /\ {} \cap Live("code")' = {}
    BY DEF history
  <2> QED BY <2>1, <2>2, <1>2, <1>3, FadePreserves DEF history
<1> QED BY <1>1, <1>2, <1>4, EndPromised DEF history

-----------------------------------------------------------------------------
(* Requests that begin.                                                    *)
LEMMA Opening ==
  ASSUME IInv, NEW r \in Requests, NEW op, Starts(r, op), NEW row \in RequestStates,
         Become(r, row), UNCHANGED <<cred, redeemed>>,
         row.pc \in {"issue", "revoking", "opened", "listed"},
         row.op # "exchange",
         row.op = "refresh" => row.client \in Clients /\ row.of \in Kind("pair"),
         row.op = "code" => row.client \in Clients,
         row.op = "change password" => row.of \in Ids
  PROVE  IInv' /\ Promised
<1>1. /\ req[r].pc = "idle"
      /\ UNCHANGED <<account, lifecycle, resetting, client, family, overlapped>>
  BY DEF Starts
<1>2. Unissued(r)
  BY <1>1 DEF IInv, RequestOK
<1>3. lifecycle' = freed(lifecycle, r) /\ resetting' = freed(resetting, r)
  BY <1>1, Holders DEF IInv
<1> QED BY <1>1, <1>2, <1>3, Going DEF history

LEMMA TaskTyped ==
  ASSUME NEW op \in {"none", "session", "key", "code", "reset", "exchange", "refresh",
                      "reset password", "change password", "revoke", "gc"}
  PROVE  Task(op) \in RequestStates /\ Task(op).op = op
BY DEF Task, Idle, RequestStates

LEMMA OpensButConsume ==
  ASSUME IInv, NEW r \in Requests, Opens(r),
         ~\E f \in Ids : ConsumeOauthCode(r, f)
  PROVE  IInv' /\ Promised
<1>1. /\ account.password \in Nat /\ account.limit \in Limits \cup {NULL}
      /\ \A x \in Ids : cred[x] \in CredentialStates
      /\ \A x \in Ids : CredentialOK(x)
  BY Types, CredentialAssumption DEF IInv, Accounts
<1>2. CASE Login(r)
  <2> DEFINE row == [[Task("session") EXCEPT !.version = account.password] EXCEPT !.pc = "issue"]
  <2>1. row \in RequestStates /\ row.pc = "issue" /\ row.op = "session"
    BY <1>1, TaskTyped DEF RequestStates
  <2>2. Become(r, row) /\ Starts(r, "session") /\ UNCHANGED <<cred, redeemed>>
    BY <1>2 DEF Login, Issue
  <2> HIDE DEF row
  <2> QED BY <2>1, <2>2, Opening
<1>3. CASE IssueApiKey(r)
  <2> DEFINE row == [Task("key") EXCEPT !.pc = "issue"]
  <2>1. row \in RequestStates /\ row.pc = "issue" /\ row.op = "key"
    BY TaskTyped DEF RequestStates
  <2>2. Become(r, row) /\ Starts(r, "key") /\ UNCHANGED <<cred, redeemed>>
    BY <1>3 DEF IssueApiKey, Issue
  <2> HIDE DEF row
  <2> QED BY <2>1, <2>2, Opening
<1>4. CASE RequestPasswordReset(r)
  <2> DEFINE row == [Task("reset") EXCEPT !.pc = "issue"]
  <2>1. row \in RequestStates /\ row.pc = "issue" /\ row.op = "reset"
    BY TaskTyped DEF RequestStates
  <2>2. Become(r, row) /\ Starts(r, "reset") /\ UNCHANGED <<cred, redeemed>>
    BY <1>4 DEF RequestPasswordReset, Issue
  <2> HIDE DEF row
  <2> QED BY <2>1, <2>2, Opening
<1>5. ASSUME NEW k \in Clients, Consent(r, k) PROVE IInv' /\ Promised
  <2> DEFINE row == [[Task("code") EXCEPT !.client = k] EXCEPT !.pc = "issue"]
  <2>1. row \in RequestStates /\ row.pc = "issue" /\ row.op = "code" /\ row.client = k
    BY TaskTyped DEF RequestStates
  <2>2. Become(r, row) /\ Starts(r, "code") /\ UNCHANGED <<cred, redeemed>>
    BY <1>5 DEF Consent, Issue
  <2> HIDE DEF row
  <2> QED BY <2>1, <2>2, Opening
<1>6. ASSUME NEW p \in Ids, ResolveRefresh(r, p) PROVE IInv' /\ Promised
  <2> DEFINE task == [Task("refresh") EXCEPT !.of = p, !.client = cred[p].client,
                                             !.limit = account.limit]
             row == [task EXCEPT !.pc = "issue"]
  <2>1. p \in Kind("pair") /\ cred[p].client \in Clients
    BY <1>1, <1>6 DEF ResolveRefresh, CredentialOK, Kind
  <2>2. /\ row \in RequestStates /\ row.pc = "issue" /\ row.op = "refresh"
        /\ row.of = p /\ row.client = cred[p].client
    BY <1>1, <2>1, TaskTyped DEF RequestStates
  <2>3. Become(r, row) /\ Starts(r, "refresh") /\ UNCHANGED <<cred, redeemed>>
    BY <1>6 DEF ResolveRefresh, Issue
  <2> HIDE DEF row
  <2> QED BY <2>1, <2>2, <2>3, Opening
<1>7. ASSUME NEW k \in Clients, RevokeTokens(r, k) PROVE IInv' /\ Promised
  <2> DEFINE seen == {p \in Kind("pair") : cred[p].client = k}
             row == [Task("revoke") EXCEPT !.pc = "revoking", !.client = k, !.seen = seen]
  <2>1. seen \in SUBSET Ids
    BY DEF Kind
  <2>2. row \in RequestStates /\ row.pc = "revoking" /\ row.op = "revoke"
    BY <2>1, TaskTyped DEF RequestStates
  <2>3. Become(r, row) /\ Starts(r, "revoke") /\ UNCHANGED <<cred, redeemed>>
    BY <1>7 DEF RevokeTokens
  <2> HIDE DEF row
  <2> QED BY <2>2, <2>3, Opening
<1>8. ASSUME NEW t \in Ids, PeekResetToken(r, t) PROVE IInv' /\ Promised
  <2> DEFINE row == [Task("reset password") EXCEPT !.pc = "opened", !.of = t]
  <2>1. row \in RequestStates /\ row.pc = "opened" /\ row.op = "reset password"
    BY TaskTyped DEF RequestStates
  <2>2. Become(r, row) /\ Starts(r, "reset password") /\ UNCHANGED <<cred, redeemed>>
    BY <1>8 DEF PeekResetToken
  <2> HIDE DEF row
  <2> QED BY <2>1, <2>2, Opening
<1>9. ASSUME NEW s \in Ids, VerifyCurrent(r, s) PROVE IInv' /\ Promised
  <2> DEFINE row == [Task("change password") EXCEPT !.pc = "opened", !.of = s,
                                                    !.version = account.password]
  <2>1. /\ row \in RequestStates /\ row.pc = "opened" /\ row.op = "change password"
        /\ row.of = s
    BY <1>1, TaskTyped DEF RequestStates
  <2>2. Become(r, row) /\ Starts(r, "change password") /\ UNCHANGED <<cred, redeemed>>
    BY <1>9 DEF VerifyCurrent
  <2> HIDE DEF row
  <2> QED BY <2>1, <2>2, Opening
<1>10. CASE ListGarbageCollectableClients(r)
  <2> DEFINE victims == {k \in Clients : Collectable(k)}
             row == [Task("gc") EXCEPT !.pc = "listed", !.victims = victims]
  <2>1. row \in RequestStates /\ row.pc = "listed" /\ row.op = "gc"
    BY TaskTyped DEF RequestStates
  <2>2. Become(r, row) /\ Starts(r, "gc") /\ UNCHANGED <<cred, redeemed>>
    BY <1>10 DEF ListGarbageCollectableClients
  <2> HIDE DEF row
  <2> QED BY <2>1, <2>2, Opening
<1> QED BY <1>2, <1>3, <1>4, <1>5, <1>6, <1>7, <1>8, <1>9, <1>10 DEF Opens

(* The code that an exchange consumes is nobody else's from then on.       *)
LEMMA Consumes ==
  ASSUME IInv, NEW r \in Requests, NEW f \in Ids, ConsumeOauthCode(r, f)
  PROVE  IInv' /\ Promised
<1> DEFINE task == [Task("exchange") EXCEPT !.of = f, !.client = cred[f].client,
                                            !.limit = account.limit]
           row == [task EXCEPT !.pc = "issue"]
           A == {r}
           R == {f}
<1>1. TypeOK
  BY DEF IInv
<1>2. /\ f \in Live("code") /\ f \in Kind("code") /\ cred[f].state = "live"
      /\ cred' = [cred EXCEPT ![f].state = "spent"]
      /\ redeemed' = redeemed \cup {f}
      /\ UNCHANGED <<account, lifecycle, resetting, client, family, overlapped>>
      /\ req[r].pc = "idle" /\ cred[f].client \in Clients
  BY DEF ConsumeOauthCode, Starts, Live, Kind, IInv, CredentialOK
<1>3. Unissued(r) /\ f # r /\ f \notin redeemed /\ ~Granted(f)
  BY <1>2 DEF IInv, RequestOK, Unissued, CodesOK
<1>4. /\ cred' \in [Ids -> CredentialStates]
      /\ \A x \in Ids : x # f => cred'[x] = cred[x]
      /\ cred'[f] = [cred[f] EXCEPT !.state = "spent"]
  <2>1. cred \in [Ids -> CredentialStates]
    BY <1>1, Types
  <2>2. [cred[f] EXCEPT !.state = "spent"] \in CredentialStates
    BY <2>1 DEF CredentialStates
  <2> QED BY <1>2, <2>1, <2>2
<1>5. \A x \in Ids : Fades(x)
  <2>1. cred[f] \in CredentialStates
    BY <1>1, Types
  <2>2. /\ cred'[f].kind = cred[f].kind /\ cred'[f].client = cred[f].client
        /\ cred'[f].state = "spent" /\ cred'[f].refresh = cred[f].refresh
        /\ cred'[f].version = cred[f].version
    BY <2>1, <1>4 DEF CredentialStates
  <2> QED BY <2>2, <1>2, <1>4 DEF Fades
<1>6. f \notin Live("code")'
  <2>1. cred'[f].state = "spent"
    BY <1>1, <1>4, Types DEF CredentialStates
  <2> QED BY <2>1 DEF Live
<1>7. PICK state \in RequestStates :
        /\ Become(r, state)
        /\ \/ state.pc = "done"
           \/ /\ state.pc = "issue" /\ state.op = "exchange" /\ state.of = f
              /\ state.client \in Clients
  <2>1. account.limit \in Limits \cup {NULL}
    BY <1>1, Types DEF Accounts
  <2>2. /\ row \in RequestStates /\ row.pc = "issue" /\ row.op = "exchange"
        /\ row.of = f /\ row.client = cred[f].client
    BY <2>1, <1>2, TaskTyped DEF RequestStates
  <2>3. \/ Become(r, row)
        \/ Become(r, [Idle EXCEPT !.pc = "done"])
    BY DEF ConsumeOauthCode, Issue, End
  <2> HIDE DEF row
  <2> QED BY <2>2, <2>3, <1>1, <1>2, Rows
<1>8. /\ TypeOK' /\ req'[r] = state
      /\ \A t \in Requests : t # r => req'[t] = req[t]
  <2>1. /\ account' \in Accounts
        /\ client' \in [Clients -> {"unused", "used", "deleted"}]
        /\ family' \in [Ids -> Ids \cup {NULL}]
        /\ redeemed' \in SUBSET Ids /\ overlapped' \in SUBSET Ids
    BY <1>1, <1>2, Types
  <2>2. lifecycle' = freed(lifecycle, r) /\ resetting' = freed(resetting, r)
    BY <1>1, <1>2, Holders
  <2> QED BY <2>1, <2>2, <1>1, <1>4, <1>7, Moves
<1>9. /\ \A kind : Kind(kind)' = Kind(kind) /\ Live(kind)' \subseteq Live(kind)
      /\ \A g : Granted(g)' <=> Granted(g)
      /\ Unissued(r)'
  <2>1. r \in Ids
    BY DEF Ids
  <2> QED BY <2>1, <1>1, <1>2, <1>3, <1>5, <1>8, Fading
<1>10. RequestOK(r)' /\ CountOK(r)' /\ SwapOK(r)'
  BY <1>2, <1>3, <1>7, <1>8, <1>9 DEF RequestOK, CountOK, SwapOK, Issuing
<1>11. IInv'
  <2>1. /\ A \in SUBSET Requests /\ \A t, u \in A : t = u
        /\ \A t \in Requests \ A : req'[t] = req[t]
        /\ R \in SUBSET Live("code") /\ redeemed' = redeemed \cup R
        /\ R \cap Live("code")' = {}
    BY <1>2, <1>6, <1>8
  <2>2. \A t \in A : RequestOK(t)' /\ CountOK(t)' /\ SwapOK(t)'
    BY <1>10
  <2>3. \A t \in A : Issuing(t, "exchange")' => req'[t].of \in R
    BY <1>7, <1>8 DEF Issuing
  <2>4. SessionsMatchPassword'
    <3>1. \A s \in Live("session")' : s # f /\ s \in Live("session") /\ s \in Ids
      BY <1>2, <1>9 DEF Live, Kind
    <3> QED BY <3>1, <1>2, <1>4 DEF IInv, SessionsMatchPassword
  <2> HIDE DEF A, R
  <2> QED BY <2>1, <2>2, <2>3, <2>4, <1>2, <1>5, <1>8, FadePreserves
<1>12. Families!Redeem(f)
  <2>1. /\ Kind("code")' = Kind("code") /\ Kind("pair")' = Kind("pair")
        /\ Kind("pair") \subseteq Ids /\ f \notin Kind("pair")
    BY <1>2, <1>9 DEF Kind
  <2>2. \A g \in Ids : g # f => (g \in Live("code")' <=> g \in Live("code"))
    BY <1>4 DEF Live, Kind
  <2>3. /\ stageOf(f) = "fresh" /\ stageOf(f)' = "redeemed"
    BY <1>2, <1>3, <1>9, <2>1 DEF stageOf, Granted
  <2>4. \A g \in Ids : g # f => stageOf(g)' = stageOf(g)
    BY <1>2, <2>1, <2>2 DEF stageOf
  <2>5. \A g \in Ids : heads(g)' = heads(g)
    BY <1>2, <1>4, <2>1 DEF heads, Unrevoked
  <2> QED BY <2>1, <2>3, <2>4, <2>5 DEF Families!Redeem, heads
<1>13. LimitStep
  BY <1>7, <1>8 DEF LimitStep
<1> QED BY <1>11, <1>12, <1>13 DEF Promised, Families!Next

-----------------------------------------------------------------------------
(* Revocations.                                                            *)
LEMMA SpendTyped ==
  ASSUME TypeOK, NEW x \in Ids
  PROVE  /\ spend(x) \in CredentialStates
         /\ spend(x).kind = cred[x].kind /\ spend(x).client = cred[x].client
         /\ spend(x).version = cred[x].version
         /\ spend(x).state = (IF cred[x].state = "live" THEN "spent" ELSE cred[x].state)
         /\ spend(x).refresh = (IF Unrevoked(x) THEN "spent" ELSE cred[x].refresh)
<1>1. cred[x] \in CredentialStates
  BY Types
<1> QED BY <1>1 DEF spend, CredentialStates, Unrevoked

LEMMA Spending ==
  ASSUME TypeOK, NEW S, Spend(S)
  PROVE  /\ cred' \in [Ids -> CredentialStates]
         /\ \A x \in Ids : Fades(x) /\ cred'[x].version = cred[x].version
         /\ \A x \in Ids : x \in S => cred'[x].state # "live" /\ ~Unrevoked(x)'
<1>1. \A x \in Ids : cred'[x] = IF x \in S THEN spend(x) ELSE cred[x]
  BY DEF Spend
<1>2. cred \in [Ids -> CredentialStates]
  BY Types
<1>3. cred' \in [Ids -> CredentialStates]
  BY <1>2, SpendTyped DEF Spend
<1>4. ASSUME NEW x \in Ids
      PROVE  /\ Fades(x) /\ cred'[x].version = cred[x].version
             /\ x \in S => cred'[x].state # "live" /\ ~Unrevoked(x)'
  BY <1>1, SpendTyped DEF Fades, Unrevoked
<1> QED BY <1>3, <1>4

(* Sessions are no less of the password in force for having ended.         *)
LEMMA FadedSessions ==
  ASSUME IInv, account'.password = account.password, UNCHANGED <<family, overlapped>>,
         \A x \in Ids : Fades(x) /\ cred'[x].version = cred[x].version
  PROVE  SessionsMatchPassword'
<1>1. \A s \in Live("session")' : s \in Ids /\ s \in Live("session")
  BY DEF Live, Kind, Fades
<1> QED BY <1>1 DEF IInv, SessionsMatchPassword

LEMMA AloneSteps ==
  ASSUME IInv,
         \/ \E x \in Ids : RevokeApiKey(x)
         \/ \E x \in Ids : Expire(x)
         \/ EraseAccount
         \/ SetLimit
  PROVE  IInv' /\ Promised
<1>1. /\ TypeOK /\ account \in Accounts /\ cred \in [Ids -> CredentialStates]
  BY Types DEF IInv
<1>2. ASSUME NEW x \in Ids, RevokeApiKey(x) PROVE IInv' /\ Promised
  <2>1. Spend({x}) /\ UNCHANGED <<account, lifecycle, resetting, req, client, history>>
    BY <1>2 DEF RevokeApiKey
  <2> QED BY <2>1, <1>1, Spending, Alone
<1>3. CASE EraseAccount
  <2>1. /\ account' = [account EXCEPT !.erased = TRUE] /\ Spend(Ids)
        /\ lifecycle = NULL /\ resetting = NULL
        /\ UNCHANGED <<lifecycle, resetting, req, client, history>>
    BY <1>3 DEF EraseAccount
  <2>2. account' \in Accounts /\ account'.password = account.password
    BY <1>1, <2>1 DEF Accounts
  <2> QED BY <2>1, <2>2, <1>1, Spending, Alone
<1>4. CASE SetLimit
  <2>1. PICK limit \in Limits \cup {NULL} : account' = [account EXCEPT !.limit = limit]
    BY <1>4 DEF SetLimit
  <2>2. /\ account' \in Accounts /\ account'.password = account.password
        /\ account'.erased = account.erased
    BY <1>1, <2>1 DEF Accounts
  <2>3. UNCHANGED <<lifecycle, resetting, req, cred, client, history>>
    BY <1>4 DEF SetLimit
  <2> QED BY <2>2, <2>3, <1>1, SameFades, Alone
<1>5. ASSUME NEW x \in Ids, Expire(x) PROVE IInv' /\ Promised
  <2>1. UNCHANGED <<account, lifecycle, resetting, req, client, history>>
    BY <1>5 DEF Expire
  <2>2. PICK row \in CredentialStates :
          /\ cred' = [cred EXCEPT ![x] = row]
          /\ row.kind = cred[x].kind /\ row.client = cred[x].client
          /\ row.version = cred[x].version
          /\ \/ row.state = cred[x].state
             \/ cred[x].state = "live" /\ row.state = "spent"
          /\ \/ row.refresh = cred[x].refresh
             \/ Unrevoked(x) /\ row.refresh \in {"lapsed", "spent"}
    <3>1. cred[x] \in CredentialStates
      BY <1>1
    <3>2. CASE cred[x].state = "live" /\ cred' = [cred EXCEPT ![x].state = "spent"]
      <4> DEFINE row == [cred[x] EXCEPT !.state = "spent"]
      <4>1. /\ row \in CredentialStates
            /\ row.kind = cred[x].kind /\ row.client = cred[x].client
            /\ row.version = cred[x].version
            /\ row.state = "spent" /\ row.refresh = cred[x].refresh
        BY <3>1 DEF CredentialStates
      <4>2. cred' = [cred EXCEPT ![x] = row]
        BY <3>2
      <4> HIDE DEF row
      <4> QED BY <4>1, <4>2, <3>2
    <3>3. CASE cred[x].refresh = "live" /\ cred' = [cred EXCEPT ![x].refresh = "lapsed"]
      <4> DEFINE row == [cred[x] EXCEPT !.refresh = "lapsed"]
      <4>1. /\ row \in CredentialStates
            /\ row.kind = cred[x].kind /\ row.client = cred[x].client
            /\ row.version = cred[x].version
            /\ row.state = cred[x].state /\ row.refresh = "lapsed"
        BY <3>1 DEF CredentialStates
      <4>2. cred' = [cred EXCEPT ![x] = row]
        BY <3>3
      <4>3. Unrevoked(x)
        BY <3>3 DEF Unrevoked
      <4> HIDE DEF row
      <4> QED BY <4>1, <4>2, <4>3
    <3> QED BY <3>2, <3>3, <1>5 DEF Expire
  <2>3. cred' \in [Ids -> CredentialStates]
    BY <2>2, <1>1
  <2>4. \A y \in Ids : cred'[y] = IF y = x THEN row ELSE cred[y]
    BY <2>2, <1>1
  <2>5. \A y \in Ids : Fades(y) /\ cred'[y].version = cred[y].version
    BY <2>2, <2>4 DEF Fades, Unrevoked
  <2> QED BY <2>1, <2>3, <2>5, <1>1, Alone
<1> QED BY <1>2, <1>3, <1>4, <1>5

(* Whoever ends has done nothing, or has revoked.                          *)
LEMMA EndingQuietly ==
  ASSUME IInv, NEW r \in Requests, End(r), Release(r), UNCHANGED <<account, history>>,
         cred' \in [Ids -> CredentialStates],
         \A x \in Ids : Fades(x) /\ cred'[x].version = cred[x].version,
         client' \in [Clients -> {"unused", "used", "deleted"}]
  PROVE  IInv' /\ Promised
<1>1. account' \in Accounts /\ UNCHANGED <<family, overlapped>>
  BY Types DEF IInv, history
<1> QED BY <1>1, FadedSessions, Ending

LEMMA Freed ==
  ASSUME IInv, NEW r \in Requests, req[r].pc \notin {"guarded", "swapping"},
         UNCHANGED <<lifecycle, resetting>>
  PROVE  Release(r)
BY Holders DEF IInv, Release

LEMMA Nothing ==
  ASSUME IInv, NEW r \in Requests, End(r), Release(r),
         UNCHANGED <<account, cred, client, history>>
  PROVE  IInv' /\ Promised
<1>1. /\ cred' \in [Ids -> CredentialStates]
      /\ client' \in [Clients -> {"unused", "used", "deleted"}]
  BY Types DEF IInv
<1> QED BY <1>1, SameFades, EndingQuietly

LEMMA TouchStep ==
  ASSUME IInv, NEW r \in Requests, TouchClient(r)
  PROVE  IInv' /\ Promised
<1>1. cred' \in [Ids -> CredentialStates] /\ Release(r)
  BY Types, Freed DEF IInv, TouchClient
<1>2. client' \in [Clients -> {"unused", "used", "deleted"}]
  BY Types DEF IInv, TouchClient
<1> QED BY <1>1, <1>2, SameFades, EndingQuietly DEF TouchClient

LEMMA RevokeStep ==
  ASSUME IInv, NEW r \in Requests, RevokeCodes(r)
  PROVE  IInv' /\ Promised
<1>1. Release(r) /\ client' \in [Clients -> {"unused", "used", "deleted"}]
  BY Types, Freed DEF IInv, RevokeCodes
<1>2. /\ cred' \in [Ids -> CredentialStates]
      /\ \A x \in Ids : Fades(x) /\ cred'[x].version = cred[x].version
  BY Spending DEF IInv, RevokeCodes
<1> QED BY <1>1, <1>2, EndingQuietly DEF RevokeCodes

LEMMA DeleteStep ==
  ASSUME IInv, NEW r \in Requests, DeleteClients(r)
  PROVE  IInv' /\ Promised
<1> DEFINE victims == {k \in req[r].victims : client[k] = "unused"}
<1>1. /\ End(r) /\ Release(r) /\ UNCHANGED <<account, history>>
      /\ Spend({x \in Ids : cred[x].client \in victims})
      /\ client' = [k \in Clients |-> IF k \in victims THEN "deleted" ELSE client[k]]
  BY Freed DEF DeleteClients
<1> HIDE DEF victims
<1>2. client' \in [Clients -> {"unused", "used", "deleted"}]
  BY <1>1, Types DEF IInv
<1>3. /\ cred' \in [Ids -> CredentialStates]
      /\ \A x \in Ids : Fades(x) /\ cred'[x].version = cred[x].version
  BY <1>1, Spending DEF IInv
<1> QED BY <1>1, <1>2, <1>3, EndingQuietly

-----------------------------------------------------------------------------
(* Steps of a request that has begun and goes on: the locks.               *)
LEMMA DeleteBeginStep ==
  ASSUME IInv, NEW r \in Requests, DeleteClientsBegin(r)
  PROVE  IInv' /\ Promised
<1> DEFINE victims == {k \in req[r].victims : Collectable(k)}
           row == [req[r] EXCEPT !.pc = "deleting", !.victims = victims]
<1>1. req[r] \in RequestStates
  BY Rows DEF IInv
<1>2. row \in RequestStates /\ row.pc = "deleting"
  BY <1>1 DEF RequestStates
<1>3. Become(r, row) /\ UNCHANGED <<account, lifecycle, resetting, cred, client, history>>
  BY DEF DeleteClientsBegin
<1> HIDE DEF row
<1>4. lifecycle' = freed(lifecycle, r) /\ resetting' = freed(resetting, r)
  BY <1>3, Holders DEF IInv, DeleteClientsBegin
<1>5. Unissued(r)
  BY DEF IInv, RequestOK, DeleteClientsBegin
<1> QED BY <1>2, <1>3, <1>4, <1>5, Going

LEMMA GuardIssuanceStep ==
  ASSUME IInv, NEW r \in Requests, GuardIssuance(r)
  PROVE  IInv' /\ Promised
<1>1. /\ req[r].pc = "issue" /\ req[r].op \in {"session", "key", "code", "reset"}
      /\ lifecycle = NULL /\ UNCHANGED <<account, resetting, cred, client, history>>
  BY DEF GuardIssuance
<1>2. CASE userIsLiveForIssuance
  <2> DEFINE row == [req[r] EXCEPT !.pc = "guarded"]
  <2>1. req[r] \in RequestStates
    BY Rows DEF IInv
  <2>2. /\ row \in RequestStates /\ row.pc = "guarded" /\ row.op = req[r].op
        /\ row.client = req[r].client
    BY <2>1 DEF RequestStates
  <2>3. Become(r, row) /\ lifecycle' = r
    BY <1>2 DEF GuardIssuance, Go
  <2> HIDE DEF row
  <2>4. resetting' = freed(resetting, r)
    BY <1>1, Holders DEF IInv
  <2>5. Unissued(r) /\ (req[r].op = "code" => req[r].client \in Clients)
    BY <1>1 DEF IInv, RequestOK, Issuing
  <2> QED BY <2>2, <2>3, <2>4, <2>5, <1>1, <1>2, Going DEF userIsLiveForIssuance
<1>3. CASE ~userIsLiveForIssuance
  <2>1. End(r) /\ UNCHANGED lifecycle
    BY <1>3 DEF GuardIssuance
  <2>2. Release(r)
    BY <2>1, <1>1, Freed
  <2> QED BY <2>1, <2>2, <1>1, Nothing
<1> QED BY <1>2, <1>3

(* A client that has no token yet is let in below the limit only.          *)
LEMMA NewClientFits ==
  ASSUME NEW k, NEW limit \in Nat, k \notin LiveClients, assertClientCanBeIssued(k, limit),
         limit # NULL
  PROVE  Cardinality(LiveClients) < limit
BY DEF assertClientCanBeIssued, Retained

LEMMA GuardTokensStep ==
  ASSUME IInv, NEW r \in Requests, GuardTokens(r)
  PROVE  IInv' /\ Promised
<1> DEFINE k == req[r].client
           limit == req[r].limit
           refused ==
             \/ req[r].op = "exchange" /\ ~assertClientCanBeIssued(k, limit)
             \/ req[r].op = "refresh" /\ ~assertClientCanRotate(k, limit)
           row == [req[r] EXCEPT !.pc = "guarded", !.new = k \notin LiveClients]
<1>1. /\ req[r].pc = "issue" /\ req[r].op \in {"exchange", "refresh"}
      /\ lifecycle = NULL /\ UNCHANGED <<account, resetting, cred, client, history>>
      /\ \/ userIsLiveForIssuance /\ ~refused /\ Become(r, row) /\ lifecycle' = r
         \/ End(r) /\ UNCHANGED lifecycle
  BY DEF GuardTokens, lifecycleFree
<1>2. req[r] \in RequestStates
  BY Rows DEF IInv
<1>3. CASE userIsLiveForIssuance /\ ~refused /\ Become(r, row) /\ lifecycle' = r
  <2>1. /\ row \in RequestStates /\ row.pc = "guarded" /\ row.op = req[r].op
        /\ row.client = k /\ row.of = req[r].of /\ row.limit = limit
        /\ row.new = (k \notin LiveClients)
    BY <1>2 DEF RequestStates
  <2>2. req[r].op = "exchange" => assertClientCanBeIssued(k, limit)
    BY <1>3
  <2>3. limit # NULL => limit \in Nat
    BY <1>2, CredentialAssumption DEF RequestStates
  <2>4. resetting' = freed(resetting, r)
    BY <1>1, Holders DEF IInv
  <2>5. /\ Unissued(r)
        /\ req[r].op = "refresh" => k \in Clients /\ req[r].of \in Kind("pair")
        /\ req[r].op = "exchange" => Issuing(r, "exchange")
    BY <1>1 DEF IInv, RequestOK, Issuing
  <2>6. ~account.erased /\ Become(r, row) /\ lifecycle' = r
    BY <1>3 DEF userIsLiveForIssuance
  <2> HIDE DEF row, k, limit
  <2>7. row.op = "exchange" /\ row.new /\ row.limit # NULL
          => Cardinality(LiveClients) < row.limit
    BY <2>1, <2>2, <2>3, NewClientFits
  <2>8. row.client = req[r].client
    BY <2>1 DEF k
  <2> QED BY <2>1, <2>4, <2>5, <2>6, <2>7, <2>8, <1>1, Going
<1>4. CASE End(r) /\ UNCHANGED lifecycle
  <2>1. Release(r)
    BY <1>1, <1>4, Freed
  <2> QED BY <2>1, <1>1, <1>4, Nothing
<1> QED BY <1>1, <1>3, <1>4

(* What a statement sees, every live session is among.                     *)
LEMMA Seen == Live("session") \subseteq Visible /\ Visible \subseteq Ids
BY DEF Live, Kind, Visible

LEMMA SwapBegins ==
  ASSUME IInv, NEW r \in Requests, req[r].pc = "opened",
         req[r].op \in {"reset password", "change password"},
         resetting = NULL, resetting' = r, ~account.erased,
         Become(r, [req[r] EXCEPT !.pc = "swapping", !.seen = Visible]),
         req[r].op = "change password" => account.password = req[r].version,
         UNCHANGED <<account, lifecycle, cred, client, history>>
  PROVE  IInv' /\ Promised
<1> DEFINE row == [req[r] EXCEPT !.pc = "swapping", !.seen = Visible]
<1>1. req[r] \in RequestStates
  BY Rows DEF IInv
<1>2. /\ row \in RequestStates /\ row.pc = "swapping" /\ row.op = req[r].op
      /\ row.of = req[r].of /\ row.version = req[r].version /\ row.seen = Visible
  BY <1>1, Seen DEF RequestStates
<1>3. Become(r, row)
  OBVIOUS
<1> HIDE DEF row
<1>4. lifecycle' = freed(lifecycle, r)
  BY Holders DEF IInv
<1>5. Unissued(r) /\ (req[r].op = "change password" => req[r].of \in Ids)
  BY DEF IInv, RequestOK, SwapOK
<1> QED BY <1>2, <1>3, <1>4, <1>5, Seen, Going

LEMMA SwapBeginSteps ==
  ASSUME IInv, NEW r \in Requests, ResetBegin(r) \/ ChangeBegin(r)
  PROVE  IInv' /\ Promised
<1>1. /\ req[r].pc = "opened" /\ resetting = NULL
      /\ UNCHANGED <<account, lifecycle, cred, client, history>>
  BY DEF ResetBegin, ChangeBegin, resetFree
<1>2. CASE End(r) /\ UNCHANGED resetting
  <2>1. Release(r)
    BY <1>1, <1>2, Freed
  <2> QED BY <2>1, <1>1, <1>2, Nothing
<1>3. CASE ~(End(r) /\ UNCHANGED resetting)
  <2>1. /\ req[r].op \in {"reset password", "change password"}
        /\ resetting' = r /\ ~account.erased
        /\ Become(r, [req[r] EXCEPT !.pc = "swapping", !.seen = Visible])
        /\ req[r].op = "change password" => account.password = req[r].version
    BY <1>3 DEF ResetBegin, ChangeBegin, userIsLiveForIssuance
  <2> QED BY <2>1, <1>1, SwapBegins
<1> QED BY <1>2, <1>3

LEMMA NewPasswordTyped ==
  ASSUME TypeOK, NewPassword
  PROVE  account' \in Accounts /\ account'.erased = account.erased
<1>1. account \in Accounts /\ account.password \in 1..MaxPassword
  BY Types
<1>2. account.password + 1 \in 1..MaxPassword
  BY <1>1, CredentialAssumption DEF NewPassword
<1> QED BY <1>1, <1>2 DEF NewPassword, Accounts

LEMMA ResetCommitStep ==
  ASSUME IInv, NEW r \in Requests, ResetCommit(r)
  PROVE  IInv' /\ Promised
<1>1. /\ req[r].pc = "swapping" /\ NewPassword /\ End(r) /\ Release(r)
      /\ Spend(revokedByReset(r)) /\ UNCHANGED <<client, history>>
  BY DEF ResetCommit, sweptByReset
<1>2. /\ cred' \in [Ids -> CredentialStates]
      /\ \A x \in Ids : Fades(x)
      /\ \A x \in Ids : x \in revokedByReset(r) => cred'[x].state # "live"
  BY <1>1, Spending DEF IInv
<1>3. account' \in Accounts /\ account'.erased = account.erased
  BY <1>1, NewPasswordTyped DEF IInv
<1>4. SessionsMatchPassword'
  <2>1. ASSUME NEW s \in Live("session")' PROVE s \in overlapped
    <3>1. s \in Live("session") /\ s \in Ids /\ cred'[s].state = "live"
      BY <1>2 DEF Live, Kind, Fades
    <3>2. s \in overlapped \cup req[r].seen
      BY <3>1, <1>1 DEF IInv, SwapOK
    <3>3. s \in req[r].seen => s \in revokedByReset(r)
      BY <3>1 DEF revokedByReset, Live, Kind
    <3> QED BY <3>1, <3>2, <3>3, <1>2
  <2> QED BY <2>1, <1>1 DEF SessionsMatchPassword, history
<1>5. client' \in [Clients -> {"unused", "used", "deleted"}]
  BY <1>1, Types DEF IInv
<1> QED BY <1>1, <1>2, <1>3, <1>4, <1>5, Ending

LEMMA ChangeCommitStep ==
  ASSUME IInv, NEW r \in Requests, ChangeCommit(r)
  PROVE  IInv' /\ Promised
<1> DEFINE gone == {x \in req[r].seen : cred[x].kind \in {"session", "reset"}}
                     \ {req[r].of}
           kept == [cred[req[r].of] EXCEPT !.version = account'.password]
<1>1. /\ req[r].pc = "swapping" /\ req[r].op = "change password"
      /\ NewPassword /\ End(r) /\ Release(r) /\ UNCHANGED <<client, history>>
      /\ cred' = [x \in Ids |-> IF x \in gone THEN spend(x)
                                ELSE IF x = req[r].of THEN kept
                                ELSE cred[x]]
  BY DEF ChangeCommit
<1>2. account' \in Accounts /\ account'.erased = account.erased
  BY <1>1, NewPasswordTyped DEF IInv
<1>3. req[r].of \in Ids /\ cred \in [Ids -> CredentialStates]
  BY <1>1, Types DEF IInv, SwapOK
<1>4. /\ kept \in CredentialStates
      /\ kept.kind = cred[req[r].of].kind /\ kept.client = cred[req[r].of].client
      /\ kept.state = cred[req[r].of].state /\ kept.refresh = cred[req[r].of].refresh
      /\ kept.version = account'.password
  <2>1. account'.password \in Nat
    BY <1>2, CredentialAssumption DEF Accounts
  <2> QED BY <2>1, <1>3 DEF CredentialStates
<1>5. req[r].of \notin gone
  OBVIOUS
<1>6. \A x \in Ids : cred[x].kind = "session" /\ x \in req[r].seen /\ x # req[r].of
                     => x \in gone
  OBVIOUS
<1> HIDE DEF gone, kept
<1>7. /\ \A x \in Ids : x \in gone => cred'[x] = spend(x)
      /\ \A x \in Ids : x \notin gone /\ x # req[r].of => cred'[x] = cred[x]
      /\ cred'[req[r].of] = kept
  BY <1>1, <1>3, <1>5
<1>8. cred' \in [Ids -> CredentialStates]
  BY <1>1, <1>3, <1>4, SpendTyped DEF IInv
<1>9. ASSUME NEW x \in Ids PROVE Fades(x)
  BY <1>4, <1>7, SpendTyped DEF Fades, IInv
<1>10. SessionsMatchPassword'
  <2>1. ASSUME NEW s \in Live("session")', s # req[r].of PROVE s \in overlapped
    <3>1. s \in Live("session") /\ s \in Ids /\ cred'[s].state = "live"
      BY <1>9 DEF Live, Kind, Fades
    <3>2. s \in overlapped \cup req[r].seen
      BY <3>1, <1>1 DEF IInv, SwapOK
    <3>3. s \notin gone
      BY <3>1, <1>7, SpendTyped DEF IInv
    <3>4. cred[s].kind = "session"
      BY <3>1 DEF Live, Kind
    <3> QED BY <3>1, <3>2, <3>3, <3>4, <2>1, <1>6
  <2> QED BY <2>1, <1>1, <1>4, <1>7 DEF SessionsMatchPassword, history
<1>11. client' \in [Clients -> {"unused", "used", "deleted"}]
  BY <1>1, Types DEF IInv
<1> QED BY <1>1, <1>2, <1>8, <1>9, <1>10, <1>11, Ending

-----------------------------------------------------------------------------
(* Commits that issue a credential, of the family fam.                     *)
LEMMA IssuePreserves ==
  ASSUME IInv, TypeOK', NEW r \in Requests, req[r].pc = "guarded",
         req'[r].pc \in {"touch", "done"},
         \A t \in Requests : t # r => req'[t] = req[t],
         UNCHANGED <<account, redeemed>>, overlapped \subseteq overlapped',
         NEW row \in CredentialStates, NEW fam,
         cred'[r] = row, row.kind # "none",
         family' = [family EXCEPT ![r] = fam],
         \A x \in Ids : x # r => Fades(x) /\ cred'[x].version = cred[x].version,
         row.kind = "session" =>
           \/ row.version = account.password /\ Swapping = {}
           \/ r \in overlapped',
         row.kind \in {"code", "pair"} => row.client \in Clients,
         IF row.kind = "pair"
         THEN /\ fam \in Ids /\ cred[fam].kind # "none"
              /\ fam \notin Kind("code") \ redeemed
              /\ \A t \in Requests : t # r /\ Issuing(t, "exchange") => req[t].of # fam
              /\ \A p \in Kind("pair") : family[p] = fam => ~Unrevoked(p)'
         ELSE fam = NULL /\ row.refresh = "none"
  PROVE  IInv'
<1>1. /\ Unissued(r) /\ r \in Ids /\ ~account.erased
      /\ \A t \in Requests : t # r => req[t].pc # "guarded"
  BY Holders DEF IInv, RequestOK, Ids
<1>2. family \in [Ids -> Ids \cup {NULL}] /\ NULL \notin Ids
  BY Types, CredentialAssumption DEF IInv
<1>3. family'[r] = fam /\ \A x \in Ids : x # r => family'[x] = family[x]
  BY <1>1, <1>2
<1>4. \A x \in Ids, kind \in {"session", "code", "pair"} :
        /\ x \in Kind(kind)' <=> IF x = r THEN row.kind = kind ELSE x \in Kind(kind)
        /\ x \in Live(kind)' /\ x # r => x \in Live(kind)
        /\ x \in Kind(kind) => x # r
  BY <1>1 DEF Kind, Live, Fades, Unissued
<1>5. ASSUME NEW f \in Ids
      PROVE  Granted(f)' <=> Granted(f) \/ (row.kind = "pair" /\ fam = f)
  <2>1. Kind("pair") \subseteq Ids /\ Kind("pair")' \subseteq Ids
    BY DEF Kind
  <2>2. Granted(f) => Granted(f)'
    BY <1>3, <1>4, <2>1 DEF Granted
  <2>3. row.kind = "pair" /\ fam = f => Granted(f)'
    BY <1>1, <1>3, <1>4 DEF Granted
  <2>4. Granted(f)' => Granted(f) \/ (row.kind = "pair" /\ fam = f)
    BY <1>3, <1>4, <2>1 DEF Granted
  <2> QED BY <2>2, <2>3, <2>4
<1>6. ASSUME NEW x \in Ids PROVE CredentialOK(x)'
  <2>1. CASE x = r
    <3>1. row.kind = "pair" => cred'[fam].kind # "none"
      BY DEF Fades
    <3> QED BY <2>1, <3>1, <1>3 DEF CredentialOK
  <2>2. CASE x # r
    <3>1. CredentialOK(x) /\ Fades(x)
      BY <2>2 DEF IInv
    <3>2. family[x] \in Ids /\ cred[family[x]].kind # "none" => cred'[family[x]].kind # "none"
      BY DEF Fades
    <3> QED BY <2>2, <3>1, <3>2, <1>3 DEF CredentialOK, Fades, Unrevoked
  <2> QED BY <2>1, <2>2
<1>7. CodesOK'
  <2>1. \A f \in redeemed : f \in Ids /\ f \in Kind("code") /\ f \notin Live("code") /\ f # r
    BY <1>4, Types DEF IInv, CodesOK
  <2>2. \A f \in redeemed' : f \in Kind("code")' /\ f \notin Live("code")'
    BY <2>1, <1>4
  <2>3. ASSUME NEW f \in Kind("code")' \ redeemed' PROVE ~Granted(f)'
    <3>1. f \in Ids
      BY DEF Kind
    <3>2. CASE f = r
      <4>1. \A p \in Kind("pair") : family[p] # r
        BY <1>1 DEF IInv, CredentialOK, Kind, Unissued
      <4>2. row.kind = "code"
        BY <3>2, <1>1, <1>4
      <4> QED BY <3>1, <3>2, <4>1, <4>2, <1>5 DEF Granted
    <3>3. CASE f # r
      <4>1. f \in Kind("code") \ redeemed
        BY <3>1, <3>3, <1>4
      <4> QED BY <3>1, <4>1, <1>5 DEF IInv, CodesOK
    <3> QED BY <3>2, <3>3
  <2> QED BY <2>2, <2>3 DEF CodesOK
<1>8. OneHead'
  <2>1. ASSUME NEW p \in Kind("pair")', NEW q \in Kind("pair")',
               Unrevoked(p)', Unrevoked(q)', family'[p] = family'[q]
        PROVE  p = q
    <3>1. p \in Ids /\ q \in Ids
      BY DEF Kind
    <3>2. \A x \in Ids : x # r /\ Unrevoked(x)' => Unrevoked(x)
      BY DEF Fades, Unrevoked
    <3>3. CASE p # r /\ q # r
      BY <2>1, <3>1, <3>2, <3>3, <1>3, <1>4 DEF IInv, OneHead
    <3>4. ASSUME NEW x \in Kind("pair")', x # r, Unrevoked(x)', r \in Kind("pair")'
          PROVE  family'[x] # family'[r]
      <4>1. x \in Ids /\ x \in Kind("pair") /\ row.kind = "pair"
        BY <3>4, <1>1, <1>4 DEF Kind
      <4> QED BY <3>4, <4>1, <1>3
    <3> QED BY <2>1, <3>3, <3>4
  <2> QED BY <2>1 DEF OneHead
<1>9. NothingSurvivesErasure'
  BY <1>1 DEF NothingSurvivesErasure
<1>10. SessionsMatchPassword'
  <2>1. ASSUME NEW s \in Live("session")'
        PROVE  cred'[s].version = account'.password \/ s \in overlapped'
    <3>1. s \in Ids
      BY DEF Live, Kind
    <3>2. CASE s = r
      <4>1. row.kind = "session"
        BY <3>2 DEF Live, Kind
      <4> QED BY <3>2, <4>1
    <3>3. CASE s # r
      BY <3>1, <3>3, <1>4 DEF IInv, SessionsMatchPassword
    <3> QED BY <3>2, <3>3
  <2> QED BY <2>1 DEF SessionsMatchPassword
<1>11. ASSUME NEW t \in Requests PROVE RequestOK(t)' /\ CountOK(t)' /\ SwapOK(t)'
  <2>1. CASE t = r
    BY <2>1 DEF RequestOK, CountOK, SwapOK, Issuing
  <2>2. CASE t # r
    <3>1. /\ req'[t] = req[t] /\ RequestOK(t) /\ SwapOK(t) /\ t \in Ids
          /\ req[t].pc # "guarded"
      BY <2>2, <1>1 DEF IInv, Ids
    <3>2. Unissued(t) => Unissued(t)'
      BY <2>2, <3>1, <1>3 DEF Unissued, Fades, Unrevoked
    <3>3. Issuing(t, "exchange") => ~Granted(req[t].of)'
      <4>1. Issuing(t, "exchange") => req[t].of \in Ids /\ ~Granted(req[t].of)
        BY <3>1, Types DEF RequestOK, IInv
      <4> QED BY <2>2, <4>1, <1>5
    <3>4. Issuing(t, "refresh") => req[t].of \in Kind("pair")'
      BY <3>1, <1>4 DEF RequestOK, Kind
    <3>5. RequestOK(t)'
      BY <3>1, <3>2, <3>3, <3>4 DEF RequestOK, Issuing
    <3>6. SwapOK(t)'
      <4>1. ASSUME req[t].pc = "swapping", NEW s \in Live("session")'
            PROVE  s \in overlapped' \cup req[t].seen
        <5>1. t \in Swapping
          BY <4>1 DEF Swapping
        <5>2. s \in Ids
          BY DEF Live, Kind
        <5>3. CASE s = r
          <6>1. row.kind = "session"
            BY <5>3 DEF Live, Kind
          <6> QED BY <5>1, <5>3, <6>1
        <5>4. CASE s # r
          BY <4>1, <5>2, <5>4, <3>1, <1>4 DEF SwapOK
        <5> QED BY <5>3, <5>4
      <4> QED BY <3>1, <4>1 DEF SwapOK
    <3>7. CountOK(t)'
      BY <3>1 DEF CountOK
    <3> QED BY <3>5, <3>6, <3>7
  <2> QED BY <2>1, <2>2
<1>12. RedeemersApart'
  BY DEF IInv, RedeemersApart, Issuing
<1> QED BY <1>6, <1>7, <1>8, <1>9, <1>10, <1>11, <1>12 DEF IInv

-----------------------------------------------------------------------------
(* The row that a commit leaves behind: done, or about to touch its client. *)
LEMMA Commits ==
  ASSUME IInv, NEW r \in Requests, req[r].pc = "guarded", Release(r),
         End(r) \/ \E k \in Clients : Become(r, Touch(k)),
         UNCHANGED <<account, client, redeemed>>,
         cred' \in [Ids -> CredentialStates], family' \in [Ids -> Ids \cup {NULL}],
         overlapped' \in SUBSET Ids
  PROVE  /\ TypeOK' /\ req'[r].pc \in {"touch", "done"}
         /\ End(r) => req'[r].pc = "done"
         /\ \A t \in Requests : t # r => req'[t] = req[t]
<1>1. TypeOK
  BY DEF IInv
<1>2. PICK row \in RequestStates :
        /\ row.pc \in {"touch", "done"} /\ Become(r, row)
        /\ End(r) => row.pc = "done"
  <2>1. CASE End(r)
    <3> DEFINE row == [Idle EXCEPT !.pc = "done"]
    <3>1. row \in RequestStates /\ row.pc = "done"
      BY <1>1, Rows
    <3>2. Become(r, row)
      BY <2>1 DEF End
    <3> HIDE DEF row
    <3> QED BY <3>1, <3>2
  <2>2. CASE ~End(r)
    <3>1. PICK k \in Clients : Become(r, Touch(k))
      BY <2>2
    <3>2. Touch(k) \in RequestStates /\ Touch(k).pc = "touch"
      BY TaskTyped DEF Touch, RequestStates
    <3> QED BY <2>2, <3>1, <3>2
  <2> QED BY <2>1, <2>2
<1>3. account' \in Accounts /\ client' \in [Clients -> {"unused", "used", "deleted"}]
  BY <1>1, Types
<1>4. redeemed' \in SUBSET Ids
  BY <1>1, Types
<1>5. lifecycle' = freed(lifecycle, r) /\ resetting' = freed(resetting, r)
  BY DEF Release
<1>6. row.pc # "guarded" /\ row.pc # "swapping"
  BY <1>2
<1>7. /\ TypeOK' /\ req'[r] = row
      /\ \A t \in Requests : t # r => req'[t] = req[t]
  BY <1>1, <1>2, <1>3, <1>4, <1>5, <1>6, Moves
<1> QED BY <1>2, <1>7

(* A request that has issued nothing names no family.                      *)
LEMMA Unborn ==
  ASSUME IInv, NEW r \in Requests, Unissued(r)
  PROVE  /\ r \in Ids /\ ~Granted(r) /\ stageOf(r) = "unborn"
         /\ r \notin redeemed /\ r \notin Kind("pair") /\ r \notin Kind("code")
<1>1. r \in Ids /\ r \notin Kind("pair") /\ r \notin Kind("code")
  BY DEF Ids, Unissued, Kind
<1>2. ~Granted(r)
  BY DEF IInv, CredentialOK, Kind, Unissued, Granted
<1>3. r \notin redeemed
  BY <1>1 DEF IInv, CodesOK
<1> QED BY <1>1, <1>2, <1>3 DEF stageOf, Granted, Live

LEMMA InsertStep ==
  ASSUME IInv, NEW r \in Requests, NEW op, NEW row \in CredentialStates,
         Inserts(r, op, row),
         row.kind \in {"session", "key", "reset", "code"},
         row.state = "live", row.refresh = "none",
         row.kind = "code" => row.client \in Clients,
         overlapped' \in SUBSET Ids, overlapped \subseteq overlapped',
         row.kind = "session" =>
           \/ row.version = account.password /\ Swapping = {}
           \/ r \in overlapped'
  PROVE  IInv' /\ Promised
<1>1. /\ req[r].pc = "guarded" /\ End(r) /\ Release(r)
      /\ cred' = [cred EXCEPT ![r] = row]
      /\ UNCHANGED <<account, client, family, redeemed>>
  BY DEF Inserts
<1>2. Unissued(r)
  BY <1>1 DEF IInv, RequestOK
<1>3. /\ r \in Ids /\ ~Granted(r) /\ stageOf(r) = "unborn"
      /\ r \notin redeemed /\ r \notin Kind("pair") /\ r \notin Kind("code")
  BY <1>2, Unborn
<1>4. cred \in [Ids -> CredentialStates] /\ family \in [Ids -> Ids \cup {NULL}]
  BY Types DEF IInv
<1>5. /\ cred' \in [Ids -> CredentialStates] /\ cred'[r] = row
      /\ \A x \in Ids : x # r => cred'[x] = cred[x]
      /\ family' \in [Ids -> Ids \cup {NULL}]
  BY <1>1, <1>3, <1>4
<1>6. /\ TypeOK' /\ req'[r].pc = "done"
      /\ \A t \in Requests : t # r => req'[t] = req[t]
  BY <1>1, <1>5, Commits
<1>7. \A x \in Ids : x # r => Fades(x) /\ cred'[x].version = cred[x].version
  BY <1>5 DEF Fades
<1>8. IInv'
  <2> DEFINE fam == NULL
  <2>1. family' = [family EXCEPT ![r] = fam]
    BY <1>1, <1>2, <1>4 DEF Unissued
  <2> HIDE DEF fam
  <2>2. row.kind # "pair" /\ fam = NULL
    BY DEF fam
  <2> QED BY <2>1, <2>2, <1>1, <1>5, <1>6, <1>7, IssuePreserves
<1>9. [Families!Next]_(Families!fvars)
  <2>1. /\ Kind("pair")' = Kind("pair") /\ Kind("pair") \subseteq Ids
        /\ \A g \in Ids : g # r => (g \in Kind("code")' <=> g \in Kind("code"))
        /\ \A g \in Ids : g # r => (g \in Live("code")' <=> g \in Live("code"))
        /\ r \in Live("code")' <=> row.kind = "code"
        /\ r \in Kind("code")' <=> row.kind = "code"
    BY <1>3, <1>5 DEF Kind, Live
  <2>2. \A g \in Ids : heads(g)' = heads(g)
    <3>1. \A p \in Kind("pair") : Unrevoked(p)' <=> Unrevoked(p)
      BY <2>1, <1>3, <1>5 DEF Unrevoked
    <3> QED BY <2>1, <3>1, <1>1 DEF heads
  <2>3. \A g \in Ids : g # r => stageOf(g)' = stageOf(g)
    BY <2>1, <1>1 DEF stageOf
  <2>4. stageOf(r)' = IF row.kind = "code" THEN "fresh" ELSE "unborn"
    BY <2>1, <1>1, <1>3 DEF stageOf, Granted
  <2>5. CASE row.kind = "code"
    <3>1. Families!Authorize(r)
      BY <2>1, <2>2, <2>3, <2>4, <2>5, <1>3 DEF Families!Authorize, heads
    <3> QED BY <3>1, <1>3 DEF Families!Next
  <2>6. CASE row.kind # "code"
    <3>1. \A g \in Ids : stageOf(g)' = stageOf(g)
      BY <2>3, <2>4, <2>6, <1>3
    <3> QED BY <3>1, <2>1, <2>2 DEF Families!fvars, heads
  <2> QED BY <2>5, <2>6
<1>10. LimitStep
  BY <1>6 DEF LimitStep
<1> QED BY <1>8, <1>9, <1>10 DEF Promised

LEMMA InsertSteps ==
  ASSUME IInv, NEW r \in Requests,
         InsertSession(r) \/ InsertApiKey(r) \/ InsertPasswordResetToken(r) \/ InsertOauthCode(r)
  PROVE  IInv' /\ Promised
<1>1. /\ req[r] \in RequestStates /\ overlapped \in SUBSET Ids /\ r \in Ids
      /\ RequestOK(r)
  BY Rows, Types DEF IInv, Ids
<1>2. NoCredential \in CredentialStates
  BY DEF NoCredential, CredentialStates
<1>3. \A kind \in {"session", "key", "code", "pair", "reset"} :
        /\ Of(kind) \in CredentialStates /\ Of(kind).kind = kind
        /\ Of(kind).state = "live" /\ Of(kind).refresh = "none"
  BY <1>2 DEF Of, CredentialStates, NoCredential
<1>4. CASE InsertSession(r)
  <2> DEFINE row == Session(req[r].version)
  <2>1. req[r].version \in Nat
    BY <1>1 DEF RequestStates
  <2>2. /\ row \in CredentialStates /\ row.kind = "session" /\ row.state = "live"
        /\ row.refresh = "none" /\ row.version = req[r].version
    BY <2>1, <1>3 DEF Session, CredentialStates
  <2>3. /\ Inserts(r, "session", row)
        /\ overlapped' = IF req[r].version # account.password \/ Swapping # {}
                         THEN overlapped \cup {r} ELSE overlapped
    BY <1>4 DEF InsertSession
  <2> HIDE DEF row
  <2> QED BY <2>2, <2>3, <1>1, InsertStep
<1>5. CASE InsertApiKey(r)
  BY <1>1, <1>3, <1>5, InsertStep DEF InsertApiKey
<1>6. CASE InsertPasswordResetToken(r)
  BY <1>1, <1>3, <1>6, InsertStep DEF InsertPasswordResetToken
<1>7. CASE InsertOauthCode(r)
  <2> DEFINE row == Code(req[r].client)
  <2>1. /\ Inserts(r, "code", row) /\ req[r].client \in Clients /\ UNCHANGED overlapped
    BY <1>1, <1>7 DEF InsertOauthCode, Inserts, RequestOK, Issuing
  <2>2. /\ row \in CredentialStates /\ row.kind = "code" /\ row.state = "live"
        /\ row.refresh = "none" /\ row.client = req[r].client
    BY <2>1, <1>3 DEF Code, CredentialStates
  <2> HIDE DEF row
  <2> QED BY <2>1, <2>2, <1>1, InsertStep
<1> QED BY <1>4, <1>5, <1>6, <1>7

-----------------------------------------------------------------------------
(* Token pairs: what the two of them have in common.                       *)
LEMMA PairTyped ==
  ASSUME NEW k \in Clients, NEW refresh \in {"none", "live"}
  PROVE  /\ Pair(k, refresh) \in CredentialStates
         /\ Pair(k, refresh).kind = "pair" /\ Pair(k, refresh).client = k
         /\ Pair(k, refresh).refresh = refresh
<1>1. NoCredential \in CredentialStates
  BY DEF NoCredential, CredentialStates
<1> QED BY <1>1 DEF Pair, Of, CredentialStates

(* The families of everybody else are as they were.                        *)
LEMMA OtherFamilies ==
  ASSUME IInv, NEW r \in Requests, Unissued(r), NEW row, row.kind = "pair",
         cred'[r] = row, UNCHANGED redeemed,
         \A x \in Ids : x # r => /\ cred'[x].kind = cred[x].kind
                                 /\ cred'[x].state = cred[x].state,
         NEW f \in Ids, f # r, family' = [family EXCEPT ![r] = f]
  PROVE  /\ Kind("pair")' = Kind("pair") \cup {r}
         /\ stageOf(f)' = "granted"
         /\ \A g \in Ids : g # f => stageOf(g)' = stageOf(g)
         /\ \A x \in Ids : x # r => family'[x] = family[x]
         /\ family'[r] = f
<1>1. /\ r \in Ids /\ ~Granted(r) /\ stageOf(r) = "unborn"
      /\ r \notin redeemed /\ r \notin Kind("pair") /\ r \notin Kind("code")
  BY Unborn
<1>2. family \in [Ids -> Ids \cup {NULL}]
  BY Types DEF IInv
<1>3. family'[r] = f /\ \A x \in Ids : x # r => family'[x] = family[x]
  BY <1>1, <1>2
<1>4. /\ Kind("pair")' = Kind("pair") \cup {r}
      /\ r \in Kind("pair")' /\ r \notin Kind("code")' /\ r \notin Live("code")'
      /\ \A g \in Ids : g # r => (g \in Kind("code")' <=> g \in Kind("code"))
      /\ \A g \in Ids : g # r => (g \in Live("code")' <=> g \in Live("code"))
  BY <1>1 DEF Kind, Live
<1>5. stageOf(f)' = "granted"
  BY <1>3, <1>4 DEF stageOf
<1>6. ASSUME NEW g \in Ids, g # f PROVE stageOf(g)' = stageOf(g)
  <2>1. (\E p \in Kind("pair")' : family'[p] = g) <=> (\E p \in Kind("pair") : family[p] = g)
    BY <1>1, <1>3, <1>4, <1>6 DEF Kind
  <2>2. CASE g = r
    BY <2>1, <2>2, <1>1, <1>4 DEF stageOf, Granted
  <2>3. CASE g # r
    BY <2>1, <2>3, <1>4 DEF stageOf
  <2> QED BY <2>2, <2>3
<1> QED BY <1>3, <1>4, <1>5, <1>6

LEMMA InsertPairStep ==
  ASSUME IInv, NEW r \in Requests, InsertOauthTokenPair(r)
  PROVE  IInv' /\ Promised
<1>k. PICK k : k = req[r].client
  OBVIOUS
<1>f. PICK f : f = req[r].of
  OBVIOUS
<1>1. PICK refresh \in {"none", "live"} : cred' = [cred EXCEPT ![r] = Pair(k, refresh)]
  BY <1>k DEF InsertOauthTokenPair
<1> DEFINE row == Pair(k, refresh)
<1>2. /\ req[r].pc = "guarded" /\ req[r].op = "exchange"
      /\ family' = [family EXCEPT ![r] = f]
      /\ Become(r, Touch(k)) /\ Release(r)
      /\ UNCHANGED <<account, client, redeemed, overlapped>>
  BY <1>k, <1>f DEF InsertOauthTokenPair
<1>3. /\ Unissued(r) /\ k \in Clients /\ f \in redeemed /\ ~Granted(f) /\ CountOK(r)
  BY <1>k, <1>f, <1>2 DEF IInv, RequestOK, Issuing
<1>4. /\ r \in Ids /\ ~Granted(r) /\ stageOf(r) = "unborn"
      /\ r \notin redeemed /\ r \notin Kind("pair") /\ r \notin Kind("code")
  BY <1>3, Unborn
<1>5. /\ cred \in [Ids -> CredentialStates] /\ family \in [Ids -> Ids \cup {NULL}]
      /\ redeemed \in SUBSET Ids /\ overlapped \in SUBSET Ids
  BY Types DEF IInv
<1>6. /\ row \in CredentialStates /\ row.kind = "pair" /\ row.client = k
      /\ row.refresh = refresh
  BY <1>3, PairTyped
<1>7. cred' = [cred EXCEPT ![r] = row]
  BY <1>1
<1> HIDE DEF row
<1>8. /\ f \in Ids /\ f # r /\ f \in Kind("code") /\ cred[f].kind # "none"
  BY <1>3, <1>4, <1>5 DEF IInv, CodesOK, Kind
<1>9. /\ cred' \in [Ids -> CredentialStates] /\ cred'[r] = row
      /\ \A x \in Ids : x # r => cred'[x] = cred[x]
      /\ family' \in [Ids -> Ids \cup {NULL}]
  BY <1>2, <1>4, <1>5, <1>6, <1>7, <1>8
<1>10. /\ TypeOK' /\ req'[r].pc \in {"touch", "done"}
       /\ \A t \in Requests : t # r => req'[t] = req[t]
  BY <1>2, <1>3, <1>5, <1>9, Commits
<1>11. \A x \in Ids : x # r => Fades(x) /\ cred'[x].version = cred[x].version
  BY <1>9 DEF Fades
<1>12. IInv'
  <2>1. \A t \in Requests : t # r /\ Issuing(t, "exchange") => req[t].of # f
    BY <1>f, <1>2 DEF IInv, RedeemersApart, Issuing
  <2>2. \A p \in Kind("pair") : family[p] # f
    BY <1>3 DEF Granted
  <2>3. f \notin Kind("code") \ redeemed
    BY <1>3
  <2>4. overlapped \subseteq overlapped'
    BY <1>2
  <2> QED BY <2>1, <2>2, <2>3, <2>4, <1>2, <1>3, <1>6, <1>8, <1>9, <1>10, <1>11,
             IssuePreserves
<1>13. Families!Grant(f, r)
  <2>1. /\ Kind("pair")' = Kind("pair") \cup {r}
        /\ stageOf(f)' = "granted"
        /\ \A g \in Ids : g # f => stageOf(g)' = stageOf(g)
        /\ \A x \in Ids : x # r => family'[x] = family[x]
        /\ family'[r] = f
    BY <1>2, <1>3, <1>6, <1>8, <1>9, OtherFamilies
  <2>2. stageOf(f) = "redeemed"
    BY <1>3 DEF stageOf, Granted
  <2>3. \A p \in Kind("pair") : (Unrevoked(p)' <=> Unrevoked(p)) /\ p # r /\ p \in Ids
    BY <1>4, <1>9 DEF Unrevoked, Kind
  <2>4. heads(f) = {}
    BY <1>3 DEF heads, Granted
  <2>5. \A g \in Ids : g # f => heads(g)' = heads(g)
    BY <2>1, <2>3 DEF heads
  <2>6. heads(f)' = IF refresh = "live" THEN {r} ELSE {}
    <3>1. Unrevoked(r)' <=> refresh = "live"
      BY <1>6, <1>9 DEF Unrevoked
    <3>2. \A p : p \in heads(f)' <=> p = r /\ refresh = "live"
      BY <2>1, <2>3, <3>1, <1>3 DEF heads, Granted
    <3> QED BY <3>2
  <2>7. [g \in Ids |-> stageOf(g)'] = [[g \in Ids |-> stageOf(g)] EXCEPT ![f] = "granted"]
    BY <2>1, <1>8
  <2>8. [g \in Ids |-> heads(g)'] \in
          {[g \in Ids |-> heads(g)], [[g \in Ids |-> heads(g)] EXCEPT ![f] = {r}]}
    <3>1. CASE refresh = "live"
      BY <3>1, <2>5, <2>6, <1>8
    <3>2. CASE refresh = "none"
      BY <3>2, <2>4, <2>5, <2>6, <1>8
    <3> QED BY <3>1, <3>2
  <2> QED BY <2>1, <2>2, <2>7, <2>8, <1>4, <1>8 DEF Families!Grant, heads
<1>14. LimitStep
  <2>1. /\ LiveClients \subseteq Clients /\ IsFiniteSet(LiveClients)
        /\ Cardinality(LiveClients) \in Nat
    BY LiveClientsAreClients DEF IInv
  <2>2. LiveClients' \subseteq LiveClients \cup {k}
    <3>1. \A q \in Kind("pair")' : q = r \/ (q \in Kind("pair") /\ cred'[q] = cred[q])
      BY <1>9 DEF Kind
    <3> QED BY <3>1, <1>6, <1>9 DEF LiveClients
  <2>3. /\ IsFiniteSet(LiveClients \cup {k})
        /\ Cardinality(LiveClients \cup {k}) <= Cardinality(LiveClients) + 1
        /\ Cardinality(LiveClients \cup {k}) \in Nat
    BY <2>1, FS_AddElement, FS_CardinalityType
  <2>4. /\ Cardinality(LiveClients') <= Cardinality(LiveClients \cup {k})
        /\ Cardinality(LiveClients') \in Nat
    BY <2>2, <2>3, FS_Subset, FS_CardinalityType
  <2>5. req[r].limit # NULL => req[r].limit \in Nat
    BY Rows, CredentialAssumption DEF IInv, RequestStates
  <2>6. req[r].new /\ req[r].limit # NULL => Cardinality(LiveClients') <= req[r].limit
    BY <1>2, <1>3, <2>1, <2>3, <2>4, <2>5 DEF CountOK
  <2>7. \A t \in Requests : req[t].pc = "guarded" => t = r
    BY <1>2, Holders DEF IInv
  <2> QED BY <2>6, <2>7 DEF LimitStep
<1>15. Families!Next
  <2> QED BY <1>4, <1>8, <1>13 DEF Families!Next
<1> QED BY <1>12, <1>14, <1>15 DEF Promised

LEMMA ClientGoneStep ==
  ASSUME IInv, NEW r \in Requests, ClientGone(r) \/ Crash(r)
  PROVE  IInv' /\ Promised
BY Nothing DEF ClientGone, Crash

(* The successor takes over the family of its predecessor, which it ends.  *)
LEMMA RotateStep ==
  ASSUME IInv, NEW r \in Requests, RotateOauthRefreshToken(r)
  PROVE  IInv' /\ Promised
<1>k. PICK k : k = req[r].client
  OBVIOUS
<1>p. PICK p : p = req[r].of
  OBVIOUS
<1>f. PICK f : f = family[p]
  OBVIOUS
<1>1. /\ req[r].pc = "guarded" /\ req[r].op = "refresh" /\ Release(r)
      /\ UNCHANGED <<account, client, redeemed, overlapped>>
  BY DEF RotateOauthRefreshToken
<1>2. CASE ~rotatable(p)
  <2>1. End(r) /\ UNCHANGED <<cred, family>>
    BY <1>2, <1>p DEF RotateOauthRefreshToken
  <2> QED BY <1>1, <2>1, Nothing DEF history
<1>3. CASE rotatable(p)
  <2>1. /\ cred' = [cred EXCEPT ![p].refresh = "spent", ![r] = Pair(k, "live")]
        /\ family' = [family EXCEPT ![r] = f]
        /\ Become(r, Touch(k)) /\ Unrevoked(p)
    BY <1>3, <1>k, <1>p, <1>f DEF RotateOauthRefreshToken, rotatable
  <2>2. /\ Unissued(r) /\ k \in Clients /\ p \in Kind("pair")
    BY <1>1, <1>k, <1>p DEF IInv, RequestOK, Issuing
  <2>3. /\ r \in Ids /\ ~Granted(r) /\ stageOf(r) = "unborn"
        /\ r \notin redeemed /\ r \notin Kind("pair") /\ r \notin Kind("code")
    BY <2>2, Unborn
  <2>4. /\ cred \in [Ids -> CredentialStates] /\ family \in [Ids -> Ids \cup {NULL}]
        /\ redeemed \in SUBSET Ids /\ overlapped \in SUBSET Ids
    BY Types DEF IInv
  <2>5. p \in Ids /\ p # r /\ f \in Ids /\ cred[f].kind # "none" /\ f # r /\ Granted(f)
    BY <2>2, <2>3, <1>f DEF IInv, CredentialOK, Kind, Unissued, Granted
  <2> DEFINE row == Pair(k, "live")
  <2>6. /\ row \in CredentialStates /\ row.kind = "pair" /\ row.client = k
        /\ row.refresh = "live"
    BY <2>2, PairTyped
  <2>7. cred' = [cred EXCEPT ![p].refresh = "spent", ![r] = row]
    BY <2>1
  <2> HIDE DEF row
  <2>8. /\ cred'[r] = row
        /\ cred'[p] = [cred[p] EXCEPT !.refresh = "spent"]
        /\ \A x \in Ids : x # r /\ x # p => cred'[x] = cred[x]
        /\ cred[p] \in CredentialStates
    BY <2>3, <2>4, <2>5, <2>7
  <2>9. /\ cred'[p] \in CredentialStates
        /\ cred'[p].kind = cred[p].kind /\ cred'[p].client = cred[p].client
        /\ cred'[p].state = cred[p].state /\ cred'[p].version = cred[p].version
        /\ cred'[p].refresh = "spent"
    BY <2>8 DEF CredentialStates
  <2>10. cred' \in [Ids -> CredentialStates] /\ family' \in [Ids -> Ids \cup {NULL}]
    BY <2>1, <2>3, <2>4, <2>5, <2>6, <2>7, <2>9
  <2>11. /\ TypeOK' /\ req'[r].pc \in {"touch", "done"}
         /\ \A t \in Requests : t # r => req'[t] = req[t]
    BY <1>1, <2>1, <2>2, <2>4, <2>10, Commits
  <2>12. \A x \in Ids : x # r => /\ Fades(x) /\ cred'[x].version = cred[x].version
                                 /\ cred'[x].kind = cred[x].kind
                                 /\ cred'[x].state = cred[x].state
    BY <2>1, <2>8, <2>9 DEF Fades
  <2>13. \A q \in Kind("pair") : Unrevoked(q)' <=> Unrevoked(q) /\ q # p
    BY <2>3, <2>8, <2>9 DEF Kind, Unrevoked
  <2>14. \A q \in Kind("pair") : family[q] = f /\ Unrevoked(q) => q = p
    BY <2>1, <2>2, <1>f DEF IInv, OneHead
  <2>15. IInv'
    <3>1. f \notin Kind("code") \ redeemed
      BY <2>5 DEF IInv, CodesOK
    <3>2. \A t \in Requests : t # r /\ Issuing(t, "exchange") => req[t].of # f
      BY <2>5 DEF IInv, RequestOK
    <3>3. \A q \in Kind("pair") : family[q] = f => ~Unrevoked(q)'
      BY <2>13, <2>14
    <3>4. overlapped \subseteq overlapped'
      BY <1>1
    <3>5. /\ req[r].pc = "guarded" /\ UNCHANGED <<account, redeemed>>
          /\ cred'[r] = row /\ family' = [family EXCEPT ![r] = f]
          /\ f \in Ids /\ cred[f].kind # "none"
      BY <1>1, <2>1, <2>5, <2>8
    <3>6. \A x \in Ids : x # r => Fades(x) /\ cred'[x].version = cred[x].version
      BY <2>12
    <3>7. row \in CredentialStates /\ row.kind = "pair" /\ row.client \in Clients
      BY <2>2, <2>6
    <3> QED BY <3>1, <3>2, <3>3, <3>4, <3>5, <3>6, <3>7, <2>11, IssuePreserves
  <2>16. Families!Rotate(f, p, r)
    <3>1. /\ Kind("pair")' = Kind("pair") \cup {r}
          /\ stageOf(f)' = "granted"
          /\ \A g \in Ids : g # f => stageOf(g)' = stageOf(g)
          /\ \A x \in Ids : x # r => family'[x] = family[x]
          /\ family'[r] = f
      <4>1. /\ row.kind = "pair" /\ cred'[r] = row /\ UNCHANGED redeemed
            /\ f \in Ids /\ f # r /\ family' = [family EXCEPT ![r] = f] /\ Unissued(r)
        BY <1>1, <2>1, <2>2, <2>5, <2>6, <2>8
      <4>2. \A x \in Ids : x # r => /\ cred'[x].kind = cred[x].kind
                                    /\ cred'[x].state = cred[x].state
        BY <2>12
      <4> QED BY <4>1, <4>2, OtherFamilies
    <3>2. stageOf(f) = "granted"
      BY <2>5 DEF stageOf, Granted
    <3>3. [g \in Ids |-> stageOf(g)'] = [g \in Ids |-> stageOf(g)]
      BY <3>1, <3>2
    <3>4. heads(f) = {p}
      <4>1. \A q : q \in heads(f) <=> q = p
        BY <2>1, <2>2, <2>14, <1>f DEF heads
      <4> QED BY <4>1
    <3>5. Unrevoked(r)' /\ Kind("pair") \subseteq Ids /\ \A q \in Kind("pair") : q # r
      BY <2>3, <2>6, <2>8 DEF Unrevoked, Kind
    <3>6. heads(f)' = {r}
      <4>1. \A q : q \in heads(f)' <=> q = r
        BY <2>13, <2>14, <3>1, <3>5 DEF heads
      <4> QED BY <4>1
    <3>7. \A g \in Ids : g # f => heads(g)' = heads(g)
      <4>1. ASSUME NEW g \in Ids, g # f, NEW q
            PROVE  q \in heads(g)' <=> q \in heads(g)
        <5>1. q \in heads(g)' => q \in heads(g)
          BY <4>1, <2>13, <3>1, <3>5 DEF heads
        <5>2. q \in heads(g) => q \in heads(g)'
          BY <4>1, <2>13, <3>1, <3>5, <1>f DEF heads
        <5> QED BY <5>1, <5>2
      <4>2. ASSUME NEW g \in Ids, g # f PROVE heads(g)' = heads(g)
        <5>1. \A q : q \in heads(g)' <=> q \in heads(g)
          BY <4>1, <4>2
        <5> QED BY <5>1
      <4> QED BY <4>2
    <3>8. [g \in Ids |-> heads(g)'] = [[g \in Ids |-> heads(g)] EXCEPT ![f] = {r}]
      BY <3>6, <3>7, <2>5
    <3> QED BY <3>1, <3>3, <3>4, <3>8, <2>3, <2>5 DEF Families!Rotate, heads
  <2>17. Families!Next
    BY <2>3, <2>5, <2>16 DEF Families!Next
  <2>18. LimitStep
    <3>1. \A t \in Requests : req[t].pc = "guarded" => t = r
      BY <1>1, Holders DEF IInv
    <3> QED BY <3>1, <1>1 DEF LimitStep
  <2> QED BY <2>15, <2>17, <2>18 DEF Promised
<1> QED BY <1>2, <1>3

LEMMA InitOK == Init => IInv /\ Families!Init
<1> SUFFICES ASSUME Init PROVE IInv /\ Families!Init
  OBVIOUS
<1>1. /\ account \in Accounts /\ account.password = 1 /\ ~account.erased
      /\ NULL \notin Ids /\ 1 \in 1..MaxPassword
  <2>1. NULL \notin Ids /\ 1 \in 1..MaxPassword
    BY CredentialAssumption
  <2>2. account \in [password : {1}, erased : {FALSE}, limit : Limits \cup {NULL}]
    BY DEF Init
  <2> QED BY <2>1, <2>2 DEF Accounts
<1>2. ASSUME NEW x \in Ids
      PROVE  /\ cred[x] \in CredentialStates /\ cred[x].state \in {"none", "live"}
             /\ cred[x].kind = "none" => cred[x].state = "none"
             /\ cred[x].kind = "session" => cred[x].version = 1
             /\ cred[x].kind \in {"code", "pair"} => cred[x].client \in Clients
             /\ cred[x].kind # "pair" => cred[x].refresh = "none"
             /\ cred[x].kind = "code" => cred[x].state = "live"
             /\ cred[x].kind = "pair" => cred[x].refresh = "live"
  <2>1. NoCredential \in CredentialStates
    BY DEF NoCredential, CredentialStates
  <2>2. \A kind \in {"session", "key", "code", "reset"} :
          /\ Of(kind) \in CredentialStates /\ Of(kind).kind = kind
          /\ Of(kind).state = "live" /\ Of(kind).refresh = "none"
    BY <2>1 DEF Of, CredentialStates, NoCredential
  <2>3. cred[x] \in StandingCredentials
    BY DEF Init
  <2>4. CASE cred[x] = NoCredential
    BY <2>1, <2>4 DEF NoCredential
  <2>5. CASE cred[x] = Session(1)
    BY <2>2, <2>5 DEF Session, CredentialStates
  <2>6. CASE cred[x] = Of("key") \/ cred[x] = Of("reset")
    BY <2>2, <2>6
  <2>7. ASSUME NEW k \in Clients, cred[x] = Code(k)
        PROVE  /\ cred[x] \in CredentialStates /\ cred[x].kind = "code"
               /\ cred[x].state = "live" /\ cred[x].refresh = "none" /\ cred[x].client = k
    BY <2>2, <2>7 DEF Code, CredentialStates
  <2>8. ASSUME NEW k \in Clients, cred[x] = Pair(k, "live")
        PROVE  /\ cred[x] \in CredentialStates /\ cred[x].kind = "pair"
               /\ cred[x].state = "live" /\ cred[x].refresh = "live" /\ cred[x].client = k
    BY <2>1, <2>8 DEF Pair, Of, NoCredential, CredentialStates
  <2> QED BY <2>3, <2>4, <2>5, <2>6, <2>7, <2>8 DEF StandingCredentials
<1>3. /\ redeemed = {} /\ overlapped = {}
      /\ \A x \in Ids : family[x] = IF cred[x].kind = "pair" THEN x ELSE NULL
  BY DEF Init
<1>4. ASSUME NEW r \in Requests
      PROVE  req[r] = Idle /\ req[r].pc = "idle" /\ Unissued(r)
  <2>1. cred[r] = NoCredential /\ r \in Ids
    BY DEF Init, Ids
  <2> QED BY <2>1, <1>3 DEF Init, Idle, NoCredential, Unissued
<1>5. TypeOK
  <2>1. req \in [Requests -> RequestStates]
    <3>1. Idle \in RequestStates
      BY DEF Idle, RequestStates
    <3> QED BY <3>1 DEF Init
  <2>2. cred \in [Ids -> CredentialStates]
    BY <1>2 DEF Init
  <2>3. client \in [Clients -> {"unused", "used", "deleted"}]
    BY DEF Init
  <2>4. family \in [Ids -> Ids \cup {NULL}]
    BY DEF Init
  <2>5. /\ \A r \in Requests : lifecycle = r <=> req[r].pc = "guarded"
        /\ \A r \in Requests : resetting = r <=> req[r].pc = "swapping"
    BY <1>1, <1>4 DEF Init, Ids
  <2> QED BY <1>1, <1>3, <2>1, <2>2, <2>3, <2>4, <2>5 DEF TypeOK, Accounts, Init
<1>6. \A r \in Requests : RequestOK(r) /\ CountOK(r) /\ SwapOK(r)
  BY <1>4 DEF RequestOK, CountOK, SwapOK, Issuing
<1>7. \A x \in Ids : CredentialOK(x)
  BY <1>2, <1>3 DEF CredentialOK
<1>8. \A f \in Ids : Granted(f) <=> f \in Kind("pair")
  BY <1>3 DEF Granted, Kind
<1>9. CodesOK /\ OneHead /\ RedeemersApart
  BY <1>3, <1>4, <1>8 DEF CodesOK, OneHead, RedeemersApart, Kind, Issuing
<1>10. NothingSurvivesErasure /\ SessionsMatchPassword
  BY <1>1, <1>2 DEF NothingSurvivesErasure, SessionsMatchPassword, Live, Kind
<1>11. IInv
  BY <1>5, <1>6, <1>7, <1>9, <1>10 DEF IInv
<1>12. \A f \in Ids :
         /\ stageOf(f) \in {"unborn", "fresh", "granted"}
         /\ heads(f) \subseteq Ids
         /\ stageOf(f) = "granted" <=> f \in Kind("pair")
         /\ heads(f) = {} \/ (stageOf(f) = "granted" /\ heads(f) \subseteq {f})
  <2>1. ASSUME NEW f \in Ids
        PROVE  /\ stageOf(f) \in {"unborn", "fresh", "granted"}
               /\ stageOf(f) = "granted" <=> f \in Kind("pair")
    BY <1>2, <1>3, <1>8 DEF stageOf, Granted, Live, Kind
  <2>2. ASSUME NEW f \in Ids
        PROVE  /\ heads(f) \subseteq Ids
               /\ heads(f) = {} \/ (f \in Kind("pair") /\ heads(f) \subseteq {f})
    BY <1>3 DEF heads, Kind
  <2> QED BY <2>1, <2>2
<1>13. Families!Init
  <2>1. Kind("pair") = {f \in Ids : stageOf(f) = "granted"}
    BY <1>12 DEF Kind
  <2>2. [f \in Ids |-> stageOf(f)] \in [Ids -> {"unborn", "fresh", "granted"}]
    BY <1>12
  <2>3. [f \in Ids |-> heads(f)] \in [Ids -> SUBSET Ids]
    BY <1>12
  <2> QED BY <1>12, <2>1, <2>2, <2>3 DEF Families!Init, Families!Issued, heads
<1> QED BY <1>11, <1>13

LEMMA NextOK == IInv /\ [Next]_vars => IInv' /\ Promised
<1> SUFFICES ASSUME IInv, [Next]_vars PROVE IInv' /\ Promised
  OBVIOUS
<1>1. ASSUME NEW r \in Requests, Opens(r) PROVE IInv' /\ Promised
  BY <1>1, OpensButConsume, Consumes DEF Opens
<1>2. ASSUME NEW r \in Requests, Issues(r) PROVE IInv' /\ Promised
  BY <1>2, GuardIssuanceStep, InsertSteps, ClientGoneStep, GuardTokensStep,
     InsertPairStep, RotateStep, TouchStep DEF Issues
<1>3. ASSUME NEW r \in Requests, Revokes(r) PROVE IInv' /\ Promised
  BY <1>3, RevokeStep, SwapBeginSteps, ResetCommitStep, ChangeCommitStep,
     DeleteBeginStep, DeleteStep, ClientGoneStep DEF Revokes
<1>4. CASE UNCHANGED vars
  <2>1. UNCHANGED <<account, lifecycle, resetting, req, client, history, cred>>
    BY <1>4 DEF vars
  <2>2. account' \in Accounts /\ cred' \in [Ids -> CredentialStates]
    BY <2>1, Types DEF IInv
  <2> QED BY <2>1, <2>2, SameFades, Alone
<1> QED BY <1>1, <1>2, <1>3, <1>4, AloneSteps DEF Next

LEMMA Inductive == Spec => []IInv
BY InitOK, NextOK, PTL DEF Spec

-----------------------------------------------------------------------------
(* The account, the two advisory locks, the requests and the credentials   *)
(* keep their types, and a lock is held by whoever is between the          *)
(* statement that took it and its commit.                                  *)
THEOREM TypeCorrect == Spec => []TypeOK
<1>1. IInv => TypeOK
  BY DEF IInv
<1> QED BY <1>1, Inductive, PTL

(* eraseAccountData and guardCredentialIssuance: no credential works once  *)
(* the account is erased, whichever issuance, exchange, rotation or        *)
(* password change the erasure raced with.                                 *)
THEOREM ErasureEndsCredentials == Spec => []NothingSurvivesErasure
<1>1. IInv => NothingSurvivesErasure
  BY DEF IInv
<1> QED BY <1>1, Inductive, PTL

(* resetPassword and changePasswordAndRevokeOthers: a live session is of   *)
(* the password in force, or its login overlapped the change.              *)
THEOREM OldSessionsEnd == Spec => []SessionsMatchPassword
<1>1. IInv => SessionsMatchPassword
  BY DEF IInv
<1> QED BY <1>1, Inductive, PTL

Verified ==
  \A r \in Requests :
    req[r].op = "change password" /\ req[r].pc = "swapping"
      /\ account'.password # account.password /\ req'[r].pc = "done"
      => account.password = req[r].version

(* rotatePasswordAndRevokeOthers: the password that a change replaces is   *)
(* the one it verified, as nothing sets another under the reset lock.      *)
THEOREM ChangesWhatItVerified == Spec => NoPasswordIsOverwritten
<1>1. IInv => \A r \in Requests :
                req[r].op = "change password" /\ req[r].pc = "swapping"
                  => account.password = req[r].version
  BY DEF IInv, SwapOK
<1>2. IInv /\ [Next]_vars => [Verified]_vars
  BY <1>1 DEF Verified
<1> QED BY <1>2, Inductive, PTL DEF Spec, NoPasswordIsOverwritten, Verified

(* insertOauthTokenPair: what assertClientCanBeIssued has counted can only *)
(* shrink until the pair is in, so the limit it has read is kept.          *)
THEOREM KeepsLimit == Spec => LimitHolds
<1>1. IInv /\ [Next]_vars => [LimitStep]_vars
  BY NextOK DEF Promised
<1> QED BY <1>1, Inductive, PTL DEF Spec, LimitHolds, LimitStep

(* The token endpoint, with its revocations, expiries and erasures, is an  *)
(* implementation of GrantFamilies: one pair per code, one successor per   *)
(* refresh token, and a family that has ended stays ended.                 *)
THEOREM ImplementsFamilies == Spec => GrantFamiliesHold
<1>1. IInv /\ [Next]_vars => [Families!Next]_(Families!fvars)
  BY NextOK DEF Promised
<1> QED BY <1>1, InitOK, Inductive, PTL DEF Spec, GrantFamiliesHold, Families!Spec
=============================================================================
