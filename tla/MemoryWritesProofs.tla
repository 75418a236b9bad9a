-------------------------- MODULE MemoryWritesProofs --------------------------
(***************************************************************************)
(* Why the writes of a tenant keep their promises.  What a transaction     *)
(* holds nobody else holds; what it will publish (its out) already makes a *)
(* good timeline of every key that it holds, over whatever the others      *)
(* publish meanwhile; and whoever waits, waits for someone further on.     *)
(*                                                                         *)
(* The parts of the invariant speak of values, not of the variables: l is  *)
(* the limit, M the memories, F the facts, P the proposals, T the          *)
(* transactions and t one of them, R the revived memories.                 *)
(***************************************************************************)
EXTENDS MemoryWrites, FiniteSetTheorems, WellFoundedInduction, TLAPS

(* A transaction, and what it holds.                                       *)

Transactions ==
  [ pc : {"idle", "quota", "close", "probe", "count", "insert", "source",
          "claim", "keys", "commit", "done"},
    op : {"none", "create", "revise", "apply"}, start : Times,
    of : Memories \cup {NULL}, hash : Hashes \cup {NULL},
    state : {"none", "active", "archived"}, prop : Proposals \cup {NULL},
    rows : Seq(Rows), left : SUBSET Keys,
    out : SUBSET [id : FactIds, fact : Facts] ]

MemoryRows ==
  [state : {"none", "active", "archived"}, closed : BOOLEAN, hash : Hashes \cup {NULL}]
ProposalRows ==
  [status : {"proposed", "applied", "rejected"}, of : Standing, row : {r \in Rows : ~r.many}]

Typed ==
  /\ limit \in Limits
  /\ clock \in Times
  /\ mem \in [Memories -> MemoryRows]
  /\ facts \in [FactIds -> Facts]
  /\ prop \in [Proposals -> ProposalRows]
  /\ tx \in [Calls -> Transactions]
  /\ revived \in SUBSET Memories

LiveIn(M, m) == M[m].state # "none" /\ ~M[m].closed
CountsIn(M, m) == LiveIn(M, m) /\ M[m].state = "active"

HasQuota(l, t) ==
  /\ l # NULL
  /\ t.op = "create" /\ t.state = "active"
  /\ t.pc \in {"probe", "count", "insert", "keys", "commit"}
HasRow(t, m) ==
  t.op = "revise" /\ t.of = m /\ t.pc \in {"probe", "insert", "commit"}
HasShare(t, m) ==
  t.op = "apply" /\ t.of = m /\ t.pc \in {"claim", "keys", "commit"}
HasProposal(t, p) ==
  t.op = "apply" /\ t.prop = p /\ t.pc \in {"keys", "commit"}
HasKey(t, k) ==
  t.pc \in {"keys", "commit"} /\ k \in SingleKeys(t.rows) \ t.left

(* The course of each kind of write, and what it knows on the way.         *)
CreateOK(t) ==
  /\ t.pc \in {"quota", "probe", "count", "insert", "keys", "commit"}
  /\ t.of = NULL /\ t.prop = NULL
ReviseOK(t) ==
  /\ t.pc \in {"close", "probe", "insert", "commit"}
  /\ t.of \in Memories /\ t.prop = NULL /\ t.state = "active" /\ t.rows = <<>>
ApplyOK(t) ==
  /\ t.pc \in {"source", "claim", "keys", "commit"}
  /\ t.of \in Memories /\ t.prop \in Proposals
  /\ Len(t.rows) = 1 /\ ~t.rows[1].many
CourseOK(t) ==
  /\ t.pc \in {"idle", "done"} => t.op = "none" /\ t.rows = <<>>
  /\ t.pc \notin {"idle", "done"} => \/ t.op = "create" /\ CreateOK(t)
                                     \/ t.op = "revise" /\ ReviseOK(t)
                                     \/ t.op = "apply" /\ ApplyOK(t)
  /\ t.op \in {"create", "revise"} => t.hash \in Hashes
  /\ Len(t.rows) <= MaxRows
  /\ t.left \in SUBSET SingleKeys(t.rows)
  /\ t.pc \notin {"keys", "commit"} => t.left = SingleKeys(t.rows) /\ t.out = {}
  /\ t.pc = "keys" <=> t.left # {} /\ t.pc \in {"keys", "commit"}
  /\ \A k \in SingleKeys(t.rows) \ t.left, n \in t.left : k < n

-----------------------------------------------------------------------------
(* A timeline of a key: one current value at most, each value below a      *)
(* current fact that starts no earlier, no overlap within a call.          *)
IsValue(F, k, f) == F[f].key = k /\ ~F[f].many
IsOpen(F, k, f) == F[f].key = k /\ F[f].to = NULL
Meet(F, f, g) ==
  /\ F[g].to = NULL \/ F[f].from < F[g].to
  /\ F[f].to = NULL \/ F[g].from < F[f].to

OneOpen(F, k) ==
  \A f, g \in FactIds :
    IsValue(F, k, f) /\ IsValue(F, k, g) /\ IsOpen(F, k, f) /\ IsOpen(F, k, g) => f = g
Covered(F, k) ==
  \A f \in FactIds :
    IsValue(F, k, f) => \E g \in FactIds : IsOpen(F, k, g) /\ F[g].from >= F[f].from
Disjoint(F, k) ==
  \A f, g \in FactIds :
    IsValue(F, k, f) /\ IsValue(F, k, g) /\ f[1] = g[1] /\ f # g => ~Meet(F, f, g)
Timeline(F, k) == OneOpen(F, k) /\ Covered(F, k) /\ Disjoint(F, k)

Over(F, out) ==
  [f \in FactIds |-> IF \E o \in out : o.id = f
                     THEN (CHOOSE o \in out : o.id = f).fact ELSE F[f]]

(* What a call will publish: values of its own for rows whose keys it      *)
(* holds, and facts of those keys that it closes and leaves else as they   *)
(* are.                                                                    *)
OwnValue(c, t, o) ==
  \E i \in DOMAIN t.rows :
    /\ o.id = <<c, i>> /\ ~t.rows[i].many
    /\ o.fact.key = t.rows[i].key /\ o.fact.prop = t.prop /\ ~o.fact.many
Closing(F, o) ==
  \E to \in Times : F[o.id].to = NULL /\ o.fact = [F[o.id] EXCEPT !.to = to]
OutOK(F, c, t) ==
  /\ \A o \in t.out :
       /\ HasKey(t, o.fact.key)
       /\ o.fact.from \in Times
       /\ o.fact.to \in Times => o.fact.from <= o.fact.to
       /\ OwnValue(c, t, o) \/ Closing(F, o)
  /\ \A o, q \in t.out : o.id = q.id => o = q
  /\ \A i \in DOMAIN t.rows :
       ~t.rows[i].many /\ HasKey(t, t.rows[i].key) => \E o \in t.out : o.id = <<c, i>>

-----------------------------------------------------------------------------
(* The parts of the invariant.                                             *)
FactsOK(F) ==
  \A f \in FactIds :
    /\ F[f].key = NULL => F[f] = NoFact
    /\ F[f].key # NULL => F[f].from \in Times
    /\ F[f].to \in Times => F[f].from <= F[f].to

(* What a call brings is not there before it commits.                      *)
Unborn(M, F, T) ==
  \A c \in Calls :
    T[c].pc # "done" => /\ M[c].state = "none"
                        /\ \A f \in FactIds : f[1] = c => F[f] = NoFact

LocksApart(l, T) ==
  \A c, d \in Calls : c # d =>
    /\ ~(HasQuota(l, T[c]) /\ HasQuota(l, T[d]))
    /\ \A m \in Memories :
         HasRow(T[c], m) => ~HasRow(T[d], m) /\ ~HasShare(T[d], m)
    /\ \A p \in Proposals : ~(HasProposal(T[c], p) /\ HasProposal(T[d], p))
    /\ \A k \in Keys : ~(HasKey(T[c], k) /\ HasKey(T[d], k))

(* What is held stays as it was when the lock was granted.                 *)
LocksMean(M, P, T) ==
  \A c \in Calls :
    /\ T[c].op = "revise" => M[T[c].of].state # "none"
    /\ \A m \in Memories : HasRow(T[c], m) => LiveIn(M, m)
    /\ \A m \in Memories : HasShare(T[c], m) => CountsIn(M, m)
    /\ \A p \in Proposals : HasProposal(T[c], p) => P[p].status = "proposed"

(* The keys' timelines as they are, and as each holder will leave them.    *)
TimelinesOK(F, T) ==
  \A k \in Keys :
    /\ Timeline(F, k)
    /\ \A c \in Calls : HasKey(T[c], k) => Timeline(Over(F, T[c].out), k)

Counted(M, R) == {m \in Memories : CountsIn(M, m) /\ m \notin R}
QuotaOK(l, M, T, R) ==
  l # NULL =>
    /\ Cardinality(Counted(M, R)) <= l
    /\ \A c \in Calls :
         /\ T[c].pc \in {"quota", "count"} => T[c].op = "create" /\ T[c].state = "active"
         /\ HasQuota(l, T[c]) /\ T[c].pc \in {"insert", "keys", "commit"} =>
              Cardinality(Counted(M, R)) < l

AppliedOnce(F, P) ==
  /\ \A f \in FactIds : F[f].prop # NULL => P[F[f].prop].status = "applied"
  /\ \A f, g \in FactIds : F[f].prop # NULL /\ F[f].prop = F[g].prop => f = g
  /\ \A p \in Proposals : P[p].status = "applied" => \E f \in FactIds : F[f].prop = p

(* Inserts wait for the row of a revise that is itself at its insert only  *)
(* in the order in which they have probed.                                 *)
HasHash(M, t, h) ==
  \/ t.op \in {"create", "revise"} /\ t.pc \in {"keys", "commit"} /\ t.hash = h
  \/ \E m \in Memories : HasRow(t, m) /\ M[m].hash = h
InsertsOK(M, T) ==
  \A S \in SUBSET {c \in Calls : T[c].pc = "insert"} : S # {} =>
    \E c \in S : \A d \in S \ {c} : ~HasHash(M, T[d], T[c].hash)

Sound(l, M, F, P, T, R) ==
  /\ \A c \in Calls : CourseOK(T[c])
  /\ \A c \in Calls : OutOK(F, c, T[c])
  /\ FactsOK(F)
  /\ Unborn(M, F, T)
  /\ LocksApart(l, T)
  /\ LocksMean(M, P, T)
  /\ TimelinesOK(F, T)
  /\ QuotaOK(l, M, T, R)
  /\ AppliedOnce(F, P)
  /\ InsertsOK(M, T)

IInv == Typed /\ Sound(limit, mem, facts, prop, tx, revived)

-----------------------------------------------------------------------------
(* Least elements.                                                         *)

LEMMA Least ==
  ASSUME NEW T \in SUBSET Nat, T # {}
  PROVE  \E x \in T : \A y \in T : x <= y
<1> DEFINE U == {0..n : n \in T}
<1>1. U \in SUBSET FiniteSubsetsOf(Nat)
  <2>1. \A n \in T : 0..n \in SUBSET Nat /\ IsFiniteSet(0..n)
    BY FS_Interval
  <2> QED BY <2>1 DEF FiniteSubsetsOf
<1>2. U # {}
  OBVIOUS
<1>3. PICK u \in U : \A v \in U : ~(<<v, u>> \in StrictSubsetOrdering(Nat))
  BY <1>1, <1>2, WFMin, FS_StrictSubsetOrderingWellFounded
<1>4. PICK x \in T : u = 0..x
  OBVIOUS
<1>5. ASSUME NEW y \in T, y < x
      PROVE  FALSE
  <2>1. 0..y \in U /\ 0..y \subseteq 0..x /\ 0..y # 0..x
    <3>1. x \in 0..x /\ x \notin 0..y
      BY <1>5
    <3> QED BY <3>1, <1>5
  <2>2. <<0..y, 0..x>> \in StrictSubsetOrdering(Nat)
    BY <2>1 DEF StrictSubsetOrdering
  <2> QED BY <1>3, <1>4, <2>1, <2>2
<1> QED BY <1>5

LEMMA MinIsLeast ==
  ASSUME NEW T \in SUBSET Nat, T # {}
  PROVE  Min(T) \in T /\ \A y \in T : Min(T) <= y
BY Least DEF Min

LEMMA Greatest ==
  ASSUME NEW T \in SUBSET Nat, T # {}, NEW b \in Nat, \A x \in T : x <= b
  PROVE  \E x \in T : \A y \in T : y <= x
<1> DEFINE B == {n \in Nat : \A x \in T : x <= n}
<1>1. PICK m \in B : \A n \in B : m <= n
  <2>1. b \in B
    OBVIOUS
  <2>2. B \in SUBSET Nat /\ B # {}
    BY <2>1
  <2> QED BY <2>2, Least
<1>2. m \in T
  <2>1. SUFFICES ASSUME m \notin T PROVE FALSE
    OBVIOUS
  <2>2. m # 0
    <3>1. PICK x \in T : x \in Nat
      OBVIOUS
    <3>2. x <= m /\ x # m /\ m \in Nat
      BY <1>1, <2>1, <3>1
    <3> QED BY <3>1, <3>2
  <2>3. m - 1 \in Nat /\ \A x \in T : x # m /\ x <= m /\ x \in Nat
    BY <1>1, <2>1, <2>2
  <2>4. m - 1 \in B
    BY <2>3
  <2> QED BY <1>1, <2>3, <2>4
<1> QED BY <1>1, <1>2

-----------------------------------------------------------------------------
(* Steps that change one transaction only.                                 *)

(* What the call c may have when its transaction is t.                     *)
Apart(l, T, c, t) ==
  \A d \in Calls \ {c} :
    /\ ~(HasQuota(l, t) /\ HasQuota(l, T[d]))
    /\ \A m \in Memories :
         /\ HasRow(t, m) => ~HasRow(T[d], m) /\ ~HasShare(T[d], m)
         /\ HasShare(t, m) => ~HasRow(T[d], m)
    /\ \A p \in Proposals : ~(HasProposal(t, p) /\ HasProposal(T[d], p))
    /\ \A k \in Keys : ~(HasKey(t, k) /\ HasKey(T[d], k))
Means(M, P, t) ==
  /\ t.op = "revise" => M[t.of].state # "none"
  /\ \A m \in Memories : HasRow(t, m) => LiveIn(M, m)
  /\ \A m \in Memories : HasShare(t, m) => CountsIn(M, m)
  /\ \A p \in Proposals : HasProposal(t, p) => P[p].status = "proposed"
Counts(l, M, R, t) ==
  l # NULL =>
    /\ t.pc \in {"quota", "count"} => t.op = "create" /\ t.state = "active"
    /\ HasQuota(l, t) /\ t.pc \in {"insert", "keys", "commit"} =>
         Cardinality(Counted(M, R)) < l
Queues(M, T, c, t) ==
  t.pc = "insert" => \/ t.op = "create"
                     \/ \A d \in Calls \ {c} :
                          T[d].pc = "insert" => ~HasHash(M, T[d], t.hash)

LEMMA InsertsQueue ==
  ASSUME NEW M, NEW T \in [Calls -> Transactions], NEW c \in Calls,
         NEW t \in Transactions, InsertsOK(M, T), Queues(M, T, c, t)
  PROVE  InsertsOK(M, [T EXCEPT ![c] = t])
<1> DEFINE T2 == [T EXCEPT ![c] = t]
<1>1. T2 \in [Calls -> Transactions] /\ T2[c] = t
      /\ \A d \in Calls \ {c} : T2[d] = T[d]
  OBVIOUS
<1> HIDE DEF T2
<1>2. SUFFICES ASSUME NEW S \in SUBSET {d \in Calls : T2[d].pc = "insert"}, S # {}
               PROVE  \E e \in S : \A d \in S \ {e} : ~HasHash(M, T2[d], T2[e].hash)
  BY DEF InsertsOK, T2
<1>3. S \ {c} \in SUBSET {d \in Calls : T[d].pc = "insert"}
  BY <1>1
<1>4. CASE c \notin S
  <2>1. S \in SUBSET {d \in Calls : T[d].pc = "insert"} /\ \A d \in S : T2[d] = T[d]
    BY <1>1, <1>4
  <2>2. PICK e \in S : \A d \in S \ {e} : ~HasHash(M, T[d], T[e].hash)
    BY <1>2, <2>1 DEF InsertsOK
  <2> QED BY <2>1, <2>2
<1>5. CASE c \in S /\ t.op # "create"
  <2>1. \A d \in S \ {c} : T2[d] = T[d] /\ d \in Calls \ {c} /\ T[d].pc = "insert"
    BY <1>1
  <2>2. t.pc = "insert"
    BY <1>1, <1>5
  <2>3. \A d \in S \ {c} : ~HasHash(M, T2[d], T2[c].hash)
    BY <1>1, <1>5, <2>1, <2>2 DEF Queues
  <2> QED BY <1>5, <2>3
<1>6. CASE c \in S /\ t.op = "create"
  <2>1. t.pc = "insert"
    BY <1>1, <1>6
  <2>2. \A h : ~HasHash(M, T2[c], h)
    BY <1>1, <1>6, <2>1 DEF HasHash, HasRow
  <2>3. CASE S \ {c} = {}
    BY <1>6, <2>3
  <2>4. CASE S \ {c} # {}
    <3>1. PICK e \in S \ {c} : \A d \in (S \ {c}) \ {e} : ~HasHash(M, T[d], T[e].hash)
      BY <1>3, <2>4 DEF InsertsOK
    <3>2. \A d \in (S \ {c}) : T2[d] = T[d]
      BY <1>1
    <3>3. \A d \in S \ {e} : ~HasHash(M, T2[d], T2[e].hash)
      BY <2>2, <3>1, <3>2
    <3> QED BY <3>3
  <2> QED BY <2>3, <2>4
<1> QED BY <1>4, <1>5, <1>6

(* Whoever is at its insert after a step was there before, and the rows    *)
(* that they hold keep their hashes.                                       *)
LEMMA InsertsStay ==
  ASSUME NEW M, NEW T, NEW M2, NEW T2, InsertsOK(M, T),
         \A c \in Calls : T2[c].pc = "insert" => T2[c] = T[c],
         \A c \in Calls, m \in Memories :
           T2[c].pc = "insert" /\ HasRow(T[c], m) => M2[m].hash = M[m].hash
  PROVE  InsertsOK(M2, T2)
<1>1. SUFFICES ASSUME NEW S \in SUBSET {d \in Calls : T2[d].pc = "insert"}, S # {}
               PROVE  \E e \in S : \A d \in S \ {e} : ~HasHash(M2, T2[d], T2[e].hash)
  BY DEF InsertsOK
<1>2. S \in SUBSET {d \in Calls : T[d].pc = "insert"} /\ \A d \in S : T2[d] = T[d]
  OBVIOUS
<1>3. PICK e \in S : \A d \in S \ {e} : ~HasHash(M, T[d], T[e].hash)
  BY <1>1, <1>2 DEF InsertsOK
<1>4. \A d \in S : T2[d].pc = "insert" /\ d \in Calls
  OBVIOUS
<1>5. \A d \in S : \A h : HasHash(M2, T2[d], h) => HasHash(M, T[d], h)
  BY <1>2, <1>4 DEF HasHash
<1> QED BY <1>2, <1>3, <1>5

LEMMA OwnStep ==
  ASSUME NEW l, NEW M, NEW F, NEW P, NEW R, NEW T \in [Calls -> Transactions],
         NEW c \in Calls, NEW t \in Transactions, Sound(l, M, F, P, T, R),
         CourseOK(t), OutOK(F, c, t), t.pc # "done" => T[c].pc # "done",
         Apart(l, T, c, t), Means(M, P, t), Counts(l, M, R, t),
         \A k \in Keys : HasKey(t, k) => Timeline(Over(F, t.out), k),
         Queues(M, T, c, t)
  PROVE  Sound(l, M, F, P, [T EXCEPT ![c] = t], R)
<1> DEFINE T2 == [T EXCEPT ![c] = t]
<1>1. T2 \in [Calls -> Transactions] /\ T2[c] = t
      /\ \A d \in Calls \ {c} : T2[d] = T[d]
  OBVIOUS
<1>2. InsertsOK(M, T2)
  BY InsertsQueue DEF Sound
<1> HIDE DEF T2
<1>3. \A d \in Calls : d # c => T2[d] = T[d]
  BY <1>1
<1>4. \A d \in Calls : CourseOK(T2[d])
  BY <1>1, <1>3 DEF Sound
<1>5. \A d \in Calls : OutOK(F, d, T2[d])
  BY <1>1, <1>3 DEF Sound
<1>6. Unborn(M, F, T2)
  BY <1>1, <1>3 DEF Sound, Unborn
<1>7. LocksApart(l, T2)
  <2>1. SUFFICES ASSUME NEW d \in Calls, NEW e \in Calls, d # e
                 PROVE  /\ ~(HasQuota(l, T2[d]) /\ HasQuota(l, T2[e]))
                        /\ \A m \in Memories :
                             HasRow(T2[d], m) => ~HasRow(T2[e], m) /\ ~HasShare(T2[e], m)
                        /\ \A p \in Proposals :
                             ~(HasProposal(T2[d], p) /\ HasProposal(T2[e], p))
                        /\ \A k \in Keys : ~(HasKey(T2[d], k) /\ HasKey(T2[e], k))
    BY DEF LocksApart
  <2>2. CASE d = c
    <3>1. T2[d] = t /\ T2[e] = T[e] /\ e \in Calls \ {c}
      BY <1>1, <1>3, <2>1, <2>2
    <3> QED BY <3>1 DEF Apart
  <2>3. CASE e = c
    <3>1. T2[e] = t /\ T2[d] = T[d] /\ d \in Calls \ {c}
      BY <1>1, <1>3, <2>1, <2>3
    <3> QED BY <3>1 DEF Apart
  <2>4. CASE d # c /\ e # c
    <3>1. T2[e] = T[e] /\ T2[d] = T[d]
      BY <1>3, <2>4
    <3> QED BY <2>1, <3>1 DEF Sound, LocksApart
  <2> QED BY <2>2, <2>3, <2>4
<1>8. LocksMean(M, P, T2)
  BY <1>1, <1>3 DEF Sound, LocksMean, Means
<1>9. TimelinesOK(F, T2)
  BY <1>1, <1>3 DEF Sound, TimelinesOK
<1>10. QuotaOK(l, M, T2, R)
  BY <1>1, <1>3 DEF Sound, QuotaOK, Counts
<1> QED BY <1>2, <1>4, <1>5, <1>6, <1>7, <1>8, <1>9, <1>10 DEF Sound, T2

(* The end of a transaction, and a step that takes no key.                 *)
Ended == [Idle EXCEPT !.pc = "done"]
At(t, step) == [t EXCEPT !.pc = step]

LEMMA EndedIs ==
  /\ Ended \in Transactions
  /\ Ended.pc = "done" /\ Ended.op = "none" /\ Ended.rows = <<>>
  /\ Ended.left = {} /\ Ended.out = {}
<1>1. 0 \in Times /\ <<>> \in Seq(Rows)
  BY MemoryWritesAssumption DEF Times
<1> QED BY <1>1 DEF Ended, Idle, Transactions

LEMMA NoRows ==
  SingleKeys(<<>>) = {}
BY DEF SingleKeys

LEMMA EndStep ==
  ASSUME NEW l, NEW M, NEW F, NEW P, NEW R, NEW T \in [Calls -> Transactions],
         NEW c \in Calls, Sound(l, M, F, P, T, R)
  PROVE  Sound(l, M, F, P, [T EXCEPT ![c] = Ended], R)
<1>1. CourseOK(Ended)
  BY EndedIs, NoRows, MemoryWritesAssumption DEF CourseOK
<1>2. OutOK(F, c, Ended)
  BY EndedIs DEF OutOK
<1>3. \A k : ~HasKey(Ended, k)
  BY EndedIs DEF HasKey
<1>4. Apart(l, T, c, Ended) /\ Means(M, P, Ended)
  BY EndedIs DEF Apart, Means, HasQuota, HasRow, HasShare, HasProposal, HasKey
<1>5. Counts(l, M, R, Ended) /\ Queues(M, T, c, Ended)
  BY EndedIs DEF Counts, Queues, HasQuota
<1> QED BY <1>1, <1>2, <1>3, <1>4, <1>5, EndedIs, OwnStep

LEMMA AtIs ==
  ASSUME NEW t \in Transactions,
         NEW step \in {"quota", "close", "probe", "count", "insert", "source",
                       "claim", "keys", "commit", "done"}
  PROVE  /\ At(t, step) \in Transactions
         /\ At(t, step).pc = step /\ At(t, step).op = t.op
         /\ At(t, step).of = t.of /\ At(t, step).hash = t.hash
         /\ At(t, step).state = t.state /\ At(t, step).prop = t.prop
         /\ At(t, step).rows = t.rows /\ At(t, step).left = t.left
         /\ At(t, step).out = t.out
BY DEF At, Transactions

Had(l, M, P, T, R, c) ==
  /\ CourseOK(T[c])
  /\ Apart(l, T, c, T[c]) /\ Means(M, P, T[c]) /\ Counts(l, M, R, T[c])

LEMMA HadIs ==
  ASSUME NEW l, NEW M, NEW F, NEW P, NEW R, NEW T, NEW c \in Calls,
         Sound(l, M, F, P, T, R)
  PROVE  Had(l, M, P, T, R, c)
<1>1. CourseOK(T[c])
  BY DEF Sound
<1>2. Apart(l, T, c, T[c])
  BY DEF Sound, LocksApart, Apart
<1>3. Means(M, P, T[c])
  BY DEF Sound, LocksMean, Means
<1>4. Counts(l, M, R, T[c])
  BY DEF Sound, QuotaOK, Counts
<1> QED BY <1>1, <1>2, <1>3, <1>4 DEF Had

LEMMA MoveStep ==
  ASSUME NEW l, NEW M, NEW F, NEW P, NEW R, NEW T \in [Calls -> Transactions],
         NEW c \in Calls, Sound(l, M, F, P, T, R),
         T[c].pc \in {"quota", "close", "probe", "count", "insert", "source", "claim"},
         NEW step \in {"probe", "count", "insert", "claim", "keys", "commit"},
         step = "keys" <=> T[c].left # {} /\ step \in {"keys", "commit"},
         T[c].op = "create" => CreateOK(At(T[c], step)),
         T[c].op = "revise" => ReviseOK(At(T[c], step)),
         T[c].op = "apply" => ApplyOK(At(T[c], step)),
         Apart(l, T, c, At(T[c], step)), Means(M, P, At(T[c], step)),
         Counts(l, M, R, At(T[c], step)), Queues(M, T, c, At(T[c], step))
  PROVE  Sound(l, M, F, P, [T EXCEPT ![c] = At(T[c], step)], R)
<1>1. T[c] \in Transactions /\ CourseOK(T[c])
  BY DEF Sound
<1>2. T[c].left = SingleKeys(T[c].rows) /\ T[c].out = {} /\ T[c].op # "none"
  BY <1>1 DEF CourseOK
<1> DEFINE t == At(T[c], step)
<1>3. /\ t \in Transactions /\ t.pc = step
      /\ t.op = T[c].op /\ t.hash = T[c].hash
      /\ t.rows = T[c].rows /\ t.left = T[c].left /\ t.out = T[c].out
  BY <1>1, AtIs
<1>4. Apart(l, T, c, t) /\ Means(M, P, t) /\ Counts(l, M, R, t) /\ Queues(M, T, c, t)
  OBVIOUS
<1>5. /\ t.op = "create" => CreateOK(t)
      /\ t.op = "revise" => ReviseOK(t)
      /\ t.op = "apply" => ApplyOK(t)
  BY <1>3
<1> HIDE DEF t
<1>6. t.op \in {"create", "revise", "apply"}
  BY <1>1, <1>2, <1>3 DEF Transactions
<1>7. CourseOK(t)
  BY <1>1, <1>2, <1>3, <1>5, <1>6 DEF CourseOK
<1>8. \A k : ~HasKey(t, k)
  BY <1>2, <1>3 DEF HasKey
<1>9. OutOK(F, c, t)
  BY <1>2, <1>3, <1>8 DEF OutOK
<1>10. Sound(l, M, F, P, [T EXCEPT ![c] = t], R)
  BY <1>3, <1>4, <1>7, <1>8, <1>9, OwnStep
<1> QED BY <1>10 DEF t

LEMMA OwnPreserves ==
  ASSUME IInv, NEW c \in Calls, NEW t \in Transactions,
         tx' = [tx EXCEPT ![c] = t], Waiting,
         Sound(limit, mem, facts, prop, [tx EXCEPT ![c] = t], revived)
  PROVE  IInv'
<1>1. Sound(limit', mem', facts', prop', tx', revived')
  BY DEF Waiting
<1>2. Typed'
  BY DEF IInv, Typed, Waiting
<1> QED BY <1>1, <1>2 DEF IInv

LEMMA EndOK ==
  ASSUME IInv, NEW c \in Calls, End(c), Waiting
  PROVE  IInv'
<1>1. tx' = [tx EXCEPT ![c] = Ended]
  BY DEF End, Become, Ended
<1>2. tx \in [Calls -> Transactions] /\ Sound(limit, mem, facts, prop, tx, revived)
  BY DEF IInv, Typed
<1>3. Sound(limit, mem, facts, prop, [tx EXCEPT ![c] = Ended], revived)
  BY <1>2, EndStep
<1> QED BY <1>1, <1>3, EndedIs, OwnPreserves

LEMMA GoOK ==
  ASSUME IInv, NEW c \in Calls,
         tx[c].pc \in {"quota", "close", "probe", "count", "insert", "source", "claim"},
         NEW step \in {"probe", "count", "insert", "claim", "keys", "commit"},
         Go(c, step), Waiting,
         step = "keys" <=> tx[c].left # {} /\ step \in {"keys", "commit"},
         tx[c].op = "create" => CreateOK(At(tx[c], step)),
         tx[c].op = "revise" => ReviseOK(At(tx[c], step)),
         tx[c].op = "apply" => ApplyOK(At(tx[c], step)),
         Apart(limit, tx, c, At(tx[c], step)), Means(mem, prop, At(tx[c], step)),
         Counts(limit, mem, revived, At(tx[c], step)), Queues(mem, tx, c, At(tx[c], step))
  PROVE  IInv'
<1>1. tx' = [tx EXCEPT ![c] = At(tx[c], step)]
  BY DEF Go, Become, At
<1>2. tx \in [Calls -> Transactions] /\ Sound(limit, mem, facts, prop, tx, revived)
  BY DEF IInv, Typed
<1>3. Sound(limit, mem, facts, prop, [tx EXCEPT ![c] = At(tx[c], step)], revived)
  BY <1>2, MoveStep
<1>4. At(tx[c], step) \in Transactions
  BY <1>2, AtIs
<1> QED BY <1>1, <1>3, <1>4, OwnPreserves

-----------------------------------------------------------------------------
(* The steps of a write up to its facts.                                   *)

LEMMA Start ==
  ASSUME IInv, NEW c \in Calls
  PROVE  /\ tx[c] \in Transactions /\ CourseOK(tx[c])
         /\ Had(limit, mem, prop, tx, revived, c)
         /\ \A d \in Calls : tx[d] \in Transactions
BY HadIs DEF IInv, Typed, Had

LEMMA HoldsIs ==
  ASSUME NEW d, NEW m, NEW p, NEW k
  PROVE  /\ HoldsQuota(d) <=> HasQuota(limit, tx[d])
         /\ HoldsRow(d, m) <=> HasRow(tx[d], m)
         /\ HoldsShare(d, m) <=> HasShare(tx[d], m)
         /\ HoldsProposal(d, p) <=> HasProposal(tx[d], p)
         /\ HoldsKey(d, k) <=> HasKey(tx[d], k)
BY DEF HoldsQuota, HoldsRow, HoldsShare, HoldsProposal, HoldsKey,
       HasQuota, HasRow, HasShare, HasProposal, HasKey

LEMMA LockQuotaOK ==
  ASSUME IInv, NEW c \in Calls, LockQuota(c)
  PROVE  IInv'
<1> DEFINE t == At(tx[c], "probe")
<1>1. /\ tx[c] \in Transactions /\ CourseOK(tx[c])
      /\ Had(limit, mem, prop, tx, revived, c)
      /\ tx[c].pc = "quota" /\ Go(c, "probe") /\ Waiting
  BY Start DEF LockQuota
<1>2. \A d \in Calls \ {c} : ~HasQuota(limit, tx[d])
  BY HoldsIs DEF LockQuota, Free, WaitsFor, liveMemoriesLock, quotaHolders, Others
<1>3. /\ t.pc = "probe" /\ t.op = tx[c].op /\ t.of = tx[c].of /\ t.prop = tx[c].prop
      /\ t.state = tx[c].state
  BY <1>1, AtIs
<1>4. t.op = "create"
  BY <1>1, <1>3 DEF CourseOK, ReviseOK, ApplyOK
<1> HIDE DEF t
<1>5. CreateOK(t)
  BY <1>1, <1>3, <1>4 DEF CourseOK, CreateOK
<1>6. Apart(limit, tx, c, t)
  BY <1>2, <1>3, <1>4 DEF Apart, HasRow, HasShare, HasProposal, HasKey
<1>7. Means(mem, prop, t)
  BY <1>3, <1>4 DEF Means, HasRow, HasShare, HasProposal
<1>8. Counts(limit, mem, revived, t) /\ Queues(mem, tx, c, t)
  BY <1>3 DEF Counts, Queues
<1>9. tx[c].op = "create"
  BY <1>3, <1>4
<1> QED BY <1>1, <1>5, <1>6, <1>7, <1>8, <1>9, GoOK DEF t

(* A write that has probed finds no other live memory of its hash; the row *)
(* of a revise that waits at its insert is live.                           *)
LEMMA ProbedFirst ==
  ASSUME IInv, NEW c \in Calls, tx[c].pc = "probe", ~duplicate(c),
         NEW d \in Calls \ {c}, tx[d].pc = "insert"
  PROVE  ~HasHash(mem, tx[d], tx[c].hash)
<1>1. SUFFICES ASSUME NEW m \in Memories, HasRow(tx[d], m), mem[m].hash = tx[c].hash
               PROVE  FALSE
  BY DEF HasHash
<1>2. LiveIn(mem, m)
  BY <1>1 DEF IInv, Sound, LocksMean
<1>3. Live(m)
  BY <1>2 DEF Live, Exists, LiveIn
<1>4. m # tx[c].of
  <2>1. CourseOK(tx[c])
    BY Start
  <2>2. CASE tx[c].op = "create"
    <3>1. tx[c].of = NULL
      BY <2>1, <2>2 DEF CourseOK, CreateOK, ReviseOK, ApplyOK
    <3> QED BY <3>1, MemoryWritesAssumption
  <2>3. CASE tx[c].op = "revise"
    <3>1. SUFFICES ASSUME m = tx[c].of PROVE FALSE
      OBVIOUS
    <3>2. HasRow(tx[c], m)
      BY <2>3, <3>1 DEF HasRow
    <3> QED BY <1>1, <3>2 DEF IInv, Sound, LocksApart
  <2> QED BY <2>1, <2>2, <2>3 DEF CourseOK, ApplyOK
<1> QED BY <1>1, <1>3, <1>4 DEF duplicate, LiveWith

LEMMA ProbeOK ==
  ASSUME IInv, NEW c \in Calls, Probe(c)
  PROVE  IInv'
<1>1. /\ tx[c] \in Transactions /\ CourseOK(tx[c])
      /\ Had(limit, mem, prop, tx, revived, c)
      /\ tx[c].pc = "probe" /\ Waiting
  BY Start DEF Probe
<1>2. CASE duplicate(c)
  BY <1>2, <1>1, EndOK DEF Probe
<1>3. ASSUME ~duplicate(c), NEW step \in {"count", "insert"}, Go(c, step),
             step = "count" <=> HoldsQuota(c)
      PROVE  IInv'
  <2> DEFINE t == At(tx[c], step)
  <2>1. /\ t.pc = step /\ t.op = tx[c].op /\ t.of = tx[c].of /\ t.prop = tx[c].prop
        /\ t.state = tx[c].state /\ t.hash = tx[c].hash /\ t.rows = tx[c].rows
    BY <1>1, AtIs
  <2>2. tx[c].op \in {"create", "revise"} /\ (HoldsQuota(c) => tx[c].op = "create")
    BY <1>1 DEF CourseOK, ApplyOK, HoldsQuota
  <2> HIDE DEF t
  <2>3. tx[c].op = "create" => CreateOK(t)
    BY <1>1, <2>1 DEF CourseOK, CreateOK
  <2>4. tx[c].op = "revise" => ReviseOK(t)
    BY <1>1, <1>3, <2>1, <2>2 DEF CourseOK, ReviseOK
  <2>5. /\ HasQuota(limit, t) => HasQuota(limit, tx[c])
        /\ \A m : HasRow(t, m) => HasRow(tx[c], m)
        /\ \A m : ~HasShare(t, m)
        /\ \A p : ~HasProposal(t, p)
        /\ \A k : ~HasKey(t, k)
    BY <1>1, <2>1 DEF HasQuota, HasRow, HasShare, HasProposal, HasKey
  <2>6. Apart(limit, tx, c, t)
    BY <1>1, <2>5 DEF Had, Apart
  <2>7. Means(mem, prop, t)
    BY <1>1, <2>1, <2>5 DEF Had, Means
  <2>8. Counts(limit, mem, revived, t)
    <3>1. step = "insert" => ~HasQuota(limit, t)
      BY <1>3, <2>5, HoldsIs
    <3>2. step = "count" => t.op = "create" /\ t.state = "active"
      BY <1>3, <2>1 DEF HoldsQuota
    <3> QED BY <2>1, <3>1, <3>2 DEF Counts
  <2>9. Queues(mem, tx, c, t)
    <3>1. \A d \in Calls \ {c} : tx[d].pc = "insert" => ~HasHash(mem, tx[d], t.hash)
      BY <1>1, <1>3, <2>1, ProbedFirst
    <3> QED BY <3>1 DEF Queues
  <2>10. tx[c].op # "apply"
    BY <2>2
  <2> QED BY <1>1, <1>3, <2>3, <2>4, <2>6, <2>7, <2>8, <2>9, <2>10, GoOK DEF t
<1>4. CASE ~duplicate(c)
  <2>1. CASE HoldsQuota(c)
    BY <1>3, <1>4, <2>1 DEF Probe
  <2>2. CASE ~HoldsQuota(c)
    BY <1>3, <1>4, <2>2 DEF Probe
  <2> QED BY <2>1, <2>2
<1> QED BY <1>2, <1>4

LEMMA FiniteMemories ==
  ASSUME NEW S \in SUBSET Memories
  PROVE  IsFiniteSet(S) /\ Cardinality(S) \in Nat
<1>1. IsFiniteSet(Memories)
  BY FS_Union, MemoryWritesAssumption DEF Memories
<1> QED BY <1>1, FS_Subset, FS_CardinalityType

LEMMA LimitIs ==
  ASSUME IInv, limit # NULL
  PROVE  limit \in Nat
BY MemoryWritesAssumption DEF IInv, Typed

LEMMA CountLiveOK ==
  ASSUME IInv, NEW c \in Calls, CountLive(c)
  PROVE  IInv'
<1>1. /\ tx[c] \in Transactions /\ CourseOK(tx[c])
      /\ Had(limit, mem, prop, tx, revived, c)
      /\ tx[c].pc = "count" /\ Waiting
  BY Start DEF CountLive
<1> DEFINE counted == {m \in Memories : ActiveLive(m)}
<1>2. CASE Cardinality(counted) >= limit
  BY <1>2, <1>1, EndOK DEF CountLive
<1>3. CASE ~(Cardinality(counted) >= limit)
  <2> DEFINE t == At(tx[c], "insert")
  <2>1. /\ t.pc = "insert" /\ t.op = tx[c].op /\ t.of = tx[c].of /\ t.prop = tx[c].prop
        /\ t.state = tx[c].state
    BY <1>1, AtIs
  <2>2. tx[c].op = "create"
    BY <1>1 DEF CourseOK, ReviseOK, ApplyOK
  <2>3. Go(c, "insert")
    BY <1>3 DEF CountLive
  <2> HIDE DEF t
  <2>4. CreateOK(t)
    BY <1>1, <2>1, <2>2 DEF CourseOK, CreateOK
  <2>5. /\ HasQuota(limit, t) => HasQuota(limit, tx[c])
        /\ \A m : ~HasRow(t, m) /\ ~HasShare(t, m)
        /\ \A p : ~HasProposal(t, p)
        /\ \A k : ~HasKey(t, k)
    BY <1>1, <2>1, <2>2 DEF HasQuota, HasRow, HasShare, HasProposal, HasKey
  <2>6. Apart(limit, tx, c, t)
    BY <1>1, <2>5 DEF Had, Apart
  <2>7. Means(mem, prop, t)
    BY <2>1, <2>2, <2>5 DEF Means
  <2>8. Counts(limit, mem, revived, t)
    <3>1. SUFFICES ASSUME limit # NULL
                   PROVE  Cardinality(Counted(mem, revived)) < limit
      BY <2>1 DEF Counts
    <3>2. Counted(mem, revived) \in SUBSET counted /\ counted \in SUBSET Memories
      BY DEF Counted, CountsIn, LiveIn, ActiveLive, Live, Exists
    <3>3. IsFiniteSet(counted) /\ Cardinality(counted) \in Nat
          /\ Cardinality(Counted(mem, revived)) \in Nat
      BY <3>2, FiniteMemories DEF Counted
    <3>4. Cardinality(Counted(mem, revived)) <= Cardinality(counted)
      BY <3>2, <3>3, FS_Subset
    <3> HIDE DEF counted
    <3>5. limit \in Nat
      BY <3>1, LimitIs
    <3> QED BY <1>3, <3>3, <3>4, <3>5
  <2>9. Queues(mem, tx, c, t)
    BY <2>1, <2>2 DEF Queues
  <2> QED BY <1>1, <2>2, <2>3, <2>4, <2>6, <2>7, <2>8, <2>9, GoOK DEF t
<1> QED BY <1>2, <1>3

LEMMA InsertOK ==
  ASSUME IInv, NEW c \in Calls, Insert(c)
  PROVE  IInv'
<1>1. /\ tx[c] \in Transactions /\ CourseOK(tx[c])
      /\ Had(limit, mem, prop, tx, revived, c)
      /\ tx[c].pc = "insert" /\ Waiting
  BY Start DEF Insert
<1>2. CASE LiveWith(c, tx[c].hash)
  BY <1>2, <1>1, EndOK DEF Insert
<1>3. ASSUME NEW step \in {"keys", "commit"}, Go(c, step),
             step = "commit" <=> tx[c].left = {}
      PROVE  IInv'
  <2> DEFINE t == At(tx[c], step)
  <2>1. /\ t.pc = step /\ t.op = tx[c].op /\ t.of = tx[c].of /\ t.prop = tx[c].prop
        /\ t.state = tx[c].state /\ t.rows = tx[c].rows /\ t.left = tx[c].left
    BY <1>1, AtIs
  <2>2. tx[c].op \in {"create", "revise"} /\ tx[c].left = SingleKeys(tx[c].rows)
    BY <1>1 DEF CourseOK, ApplyOK
  <2> HIDE DEF t
  <2>3. tx[c].op = "create" => CreateOK(t)
    BY <1>1, <2>1 DEF CourseOK, CreateOK
  <2>4. tx[c].op = "revise" => ReviseOK(t)
    <3>1. tx[c].op = "revise" => ReviseOK(tx[c]) /\ tx[c].left = {}
      BY <1>1, <2>2, NoRows DEF CourseOK, ReviseOK
    <3> QED BY <1>3, <2>1, <3>1 DEF ReviseOK
  <2>5. /\ HasQuota(limit, t) => HasQuota(limit, tx[c])
        /\ \A m : HasRow(t, m) => HasRow(tx[c], m)
        /\ \A m : ~HasShare(t, m)
        /\ \A p : ~HasProposal(t, p)
        /\ \A k : ~HasKey(t, k)
    BY <1>1, <2>1, <2>2 DEF HasQuota, HasRow, HasShare, HasProposal, HasKey
  <2>6. Apart(limit, tx, c, t)
    BY <1>1, <2>5 DEF Had, Apart
  <2>7. Means(mem, prop, t)
    BY <1>1, <2>1, <2>5 DEF Had, Means
  <2>8. Counts(limit, mem, revived, t)
    BY <1>1, <2>1, <2>5 DEF Had, Counts
  <2>9. Queues(mem, tx, c, t)
    BY <2>1 DEF Queues
  <2>10. step = "keys" <=> tx[c].left # {} /\ step \in {"keys", "commit"}
    BY <1>3
  <2>11. tx[c].op # "apply"
    BY <2>2
  <2> QED BY <1>1, <1>3, <2>3, <2>4, <2>6, <2>7, <2>8, <2>9, <2>10, <2>11, GoOK DEF t
<1>4. CASE ~LiveWith(c, tx[c].hash)
  <2>1. CASE tx[c].left = {}
    BY <1>3, <1>4, <2>1 DEF Insert
  <2>2. CASE tx[c].left # {}
    BY <1>3, <1>4, <2>2 DEF Insert
  <2> QED BY <2>1, <2>2
<1> QED BY <1>2, <1>4

LEMMA ClosePredecessorOK ==
  ASSUME IInv, NEW c \in Calls, ClosePredecessor(c)
  PROVE  IInv'
<1>1. /\ tx[c] \in Transactions /\ CourseOK(tx[c])
      /\ Had(limit, mem, prop, tx, revived, c)
      /\ tx[c].pc = "close" /\ Waiting
  BY Start DEF ClosePredecessor
<1>2. CASE ~Live(tx[c].of)
  BY <1>2, <1>1, EndOK DEF ClosePredecessor
<1>3. CASE Live(tx[c].of)
  <2> DEFINE t == At(tx[c], "probe")
  <2>1. /\ t.pc = "probe" /\ t.op = tx[c].op /\ t.of = tx[c].of /\ t.prop = tx[c].prop
        /\ t.state = tx[c].state /\ t.rows = tx[c].rows
    BY <1>1, AtIs
  <2>2. tx[c].op = "revise"
    BY <1>1 DEF CourseOK, CreateOK, ApplyOK
  <2>3. Go(c, "probe")
    BY <1>3 DEF ClosePredecessor
  <2>4. \A d \in Calls \ {c} : ~HasRow(tx[d], tx[c].of) /\ ~HasShare(tx[d], tx[c].of)
    BY <1>1, HoldsIs DEF ClosePredecessor, Free, WaitsFor, Others
  <2> HIDE DEF t
  <2>5. ReviseOK(t)
    BY <1>1, <2>1, <2>2 DEF CourseOK, ReviseOK
  <2>6. /\ ~HasQuota(limit, t)
        /\ \A m : HasRow(t, m) => m = tx[c].of
        /\ \A m : ~HasShare(t, m)
        /\ \A p : ~HasProposal(t, p)
        /\ \A k : ~HasKey(t, k)
    BY <2>1, <2>2 DEF HasQuota, HasRow, HasShare, HasProposal, HasKey
  <2>7. Apart(limit, tx, c, t)
    BY <2>4, <2>6 DEF Apart
  <2>8. Means(mem, prop, t)
    <3>1. LiveIn(mem, tx[c].of)
      BY <1>3 DEF Live, Exists, LiveIn
    <3> QED BY <1>1, <2>1, <2>6, <3>1 DEF Had, Means
  <2>9. Counts(limit, mem, revived, t) /\ Queues(mem, tx, c, t)
    BY <2>1 DEF Counts, Queues
  <2> QED BY <1>1, <2>2, <2>3, <2>5, <2>7, <2>8, <2>9, GoOK DEF t
<1> QED BY <1>2, <1>3

LEMMA LockLiveSourceOK ==
  ASSUME IInv, NEW c \in Calls, LockLiveSource(c)
  PROVE  IInv'
<1>1. /\ tx[c] \in Transactions /\ CourseOK(tx[c])
      /\ Had(limit, mem, prop, tx, revived, c)
      /\ tx[c].pc = "source" /\ Waiting
  BY Start DEF LockLiveSource
<1> DEFINE ready == prop[tx[c].prop].status = "proposed" /\ ActiveLive(tx[c].of)
<1>2. CASE ~ready
  BY <1>2, <1>1, EndOK DEF LockLiveSource
<1>3. CASE ready
  <2> DEFINE t == At(tx[c], "claim")
  <2>1. /\ t.pc = "claim" /\ t.op = tx[c].op /\ t.of = tx[c].of /\ t.prop = tx[c].prop
        /\ t.rows = tx[c].rows
    BY <1>1, AtIs
  <2>2. tx[c].op = "apply"
    BY <1>1 DEF CourseOK, CreateOK, ReviseOK
  <2>3. Go(c, "claim")
    BY <1>3 DEF LockLiveSource
  <2>4. \A d \in Calls \ {c} : ~HasRow(tx[d], tx[c].of)
    BY <1>1, HoldsIs DEF LockLiveSource, Free, WaitsFor, lockLiveSource, Others
  <2> HIDE DEF t
  <2>5. ApplyOK(t)
    BY <1>1, <2>1, <2>2 DEF CourseOK, ApplyOK
  <2>6. /\ ~HasQuota(limit, t)
        /\ \A m : HasShare(t, m) => m = tx[c].of
        /\ \A m : ~HasRow(t, m)
        /\ \A p : ~HasProposal(t, p)
        /\ \A k : ~HasKey(t, k)
    BY <2>1, <2>2 DEF HasQuota, HasRow, HasShare, HasProposal, HasKey
  <2>7. Apart(limit, tx, c, t)
    BY <2>4, <2>6 DEF Apart
  <2>8. Means(mem, prop, t)
    <3>1. CountsIn(mem, tx[c].of)
      BY <1>3 DEF ActiveLive, Live, Exists, CountsIn, LiveIn
    <3> QED BY <1>1, <2>1, <2>2, <2>6, <3>1 DEF Means
  <2>9. Counts(limit, mem, revived, t) /\ Queues(mem, tx, c, t)
    BY <2>1, <2>6 DEF Counts, Queues
  <2> QED BY <1>1, <2>2, <2>3, <2>5, <2>7, <2>8, <2>9, GoOK DEF t
<1> QED BY <1>2, <1>3

LEMMA ClaimOK ==
  ASSUME IInv, NEW c \in Calls, Claim(c)
  PROVE  IInv'
<1>1. /\ tx[c] \in Transactions /\ CourseOK(tx[c])
      /\ Had(limit, mem, prop, tx, revived, c)
      /\ tx[c].pc = "claim" /\ Waiting
  BY Start DEF Claim
<1>2. CASE ~claimable(tx[c].prop)
  BY <1>2, <1>1, EndOK DEF Claim
<1>3. ASSUME claimable(tx[c].prop), NEW step \in {"keys", "commit"}, Go(c, step),
             step = "commit" <=> tx[c].left = {}
      PROVE  IInv'
  <2> DEFINE t == At(tx[c], step)
  <2>1. /\ t.pc = step /\ t.op = tx[c].op /\ t.of = tx[c].of /\ t.prop = tx[c].prop
        /\ t.rows = tx[c].rows /\ t.left = tx[c].left
    BY <1>1, AtIs
  <2>2. tx[c].op = "apply" /\ tx[c].left = SingleKeys(tx[c].rows)
    BY <1>1 DEF CourseOK, CreateOK, ReviseOK
  <2>3. \A d \in Calls \ {c} : ~HasProposal(tx[d], tx[c].prop)
    BY <1>1, HoldsIs DEF Claim, Free, WaitsFor, Others
  <2> HIDE DEF t
  <2>4. ApplyOK(t)
    BY <1>1, <2>1, <2>2 DEF CourseOK, ApplyOK
  <2>5. /\ ~HasQuota(limit, t)
        /\ \A m : HasShare(t, m) => HasShare(tx[c], m)
        /\ \A m : ~HasRow(t, m)
        /\ \A p : HasProposal(t, p) => p = tx[c].prop
        /\ \A k : ~HasKey(t, k)
    BY <1>1, <2>1, <2>2 DEF HasQuota, HasRow, HasShare, HasProposal, HasKey
  <2>6. Apart(limit, tx, c, t)
    BY <1>1, <2>3, <2>5 DEF Had, Apart
  <2>7. Means(mem, prop, t)
    <3>1. prop[tx[c].prop].status = "proposed"
      BY <1>3 DEF claimable, stillProposed
    <3> QED BY <1>1, <2>1, <2>2, <2>5, <3>1 DEF Had, Means
  <2>8. Counts(limit, mem, revived, t) /\ Queues(mem, tx, c, t)
    BY <2>1, <2>5 DEF Counts, Queues
  <2>9. step = "keys" <=> tx[c].left # {} /\ step \in {"keys", "commit"}
    BY <1>3
  <2> QED BY <1>1, <1>3, <2>2, <2>4, <2>6, <2>7, <2>8, <2>9, GoOK DEF t
<1>4. CASE claimable(tx[c].prop)
  <2>1. CASE tx[c].left = {}
    BY <1>3, <1>4, <2>1 DEF Claim
  <2>2. CASE tx[c].left # {}
    BY <1>3, <1>4, <2>2 DEF Claim
  <2> QED BY <2>1, <2>2
<1> QED BY <1>2, <1>4

LEMMA AbortOK ==
  ASSUME IInv, NEW c \in Calls, Abort(c)
  PROVE  IInv'
BY EndOK DEF Abort

(* A transaction that begins holds nothing.                                *)
LEMMA BeginOK ==
  ASSUME IInv, NEW c \in Calls, NEW t \in Transactions,
         tx[c].pc = "idle", tx' = [tx EXCEPT ![c] = t], Waiting, CourseOK(t),
         t.pc \in {"quota", "probe", "close", "source"},
         t.pc \in {"probe", "quota"} => t.op = "create" /\ t.of \notin Memories,
         t.pc = "quota" => t.state = "active",
         t.pc = "probe" => limit = NULL \/ t.state # "active",
         t.op = "revise" => t.pc = "close" /\ mem[t.of].state # "none"
  PROVE  IInv'
<1>1. tx \in [Calls -> Transactions] /\ Sound(limit, mem, facts, prop, tx, revived)
  BY DEF IInv, Typed
<1>2. t.out = {} /\ \A k : ~HasKey(t, k)
  BY DEF CourseOK, HasKey
<1>3. OutOK(facts, c, t)
  BY <1>2 DEF OutOK, CourseOK
<1>4. /\ ~HasQuota(limit, t)
      /\ \A m : ~HasRow(t, m) /\ ~HasShare(t, m)
      /\ \A p : ~HasProposal(t, p)
  BY DEF HasQuota, HasRow, HasShare, HasProposal
<1>5. Apart(limit, tx, c, t) /\ Means(mem, prop, t)
  BY <1>2, <1>4 DEF Apart, Means
<1>6. Counts(limit, mem, revived, t) /\ Queues(mem, tx, c, t)
  BY <1>4 DEF Counts, Queues
<1>7. Sound(limit, mem, facts, prop, [tx EXCEPT ![c] = t], revived)
  BY <1>1, <1>2, <1>3, <1>5, <1>6, OwnStep
<1> QED BY <1>7, OwnPreserves

LEMMA KeysOfRows ==
  ASSUME NEW rows \in Seq(Rows)
  PROVE  SingleKeys(rows) \in SUBSET Keys
<1>1. \A i \in DOMAIN rows : rows[i] \in Rows
  OBVIOUS
<1>2. \A i \in DOMAIN rows : rows[i].key \in Keys
  BY <1>1 DEF Rows
<1> QED BY <1>2 DEF SingleKeys

LEMMA StartTyped ==
  ASSUME IInv
  PROVE  clock \in Times /\ Idle \in Transactions
<1>1. 0 \in Times /\ <<>> \in Seq(Rows)
  BY MemoryWritesAssumption DEF Times
<1> QED BY <1>1 DEF IInv, Typed, Idle, Transactions

LEMMA CreateBegins ==
  ASSUME IInv, NEW c \in Calls, NEW h \in Hashes, NEW state \in {"active", "archived"},
         NEW rows \in Serieses, Create(c, h, state, rows)
  PROVE  IInv'
<1> DEFINE asks == limit # NULL /\ state = "active"
           t == [Idle EXCEPT !.pc = IF asks THEN "quota" ELSE "probe",
                             !.op = "create", !.hash = h, !.state = state,
                             !.rows = rows, !.left = SingleKeys(rows), !.start = clock]
<1>1. rows \in Seq(Rows) /\ Len(rows) <= MaxRows /\ SingleKeys(rows) \in SUBSET Keys
  BY KeysOfRows, MemoryWritesAssumption
<1>2. /\ t.op = "create" /\ t.hash = h /\ t.state = state /\ t.rows = rows
      /\ t.left = SingleKeys(rows) /\ t.out = {} /\ t.of = NULL /\ t.prop = NULL
      /\ t.pc = IF asks THEN "quota" ELSE "probe"
  BY DEF Idle
<1>3. t \in Transactions
  BY <1>1, StartTyped DEF Idle, Transactions
<1>4. tx[c].pc = "idle" /\ tx' = [tx EXCEPT ![c] = t] /\ Waiting
  BY DEF Create, Begin, Become
<1> HIDE DEF t
<1>5. CreateOK(t) /\ t.pc \in {"quota", "probe"}
  BY <1>2 DEF CreateOK
<1>6. CourseOK(t)
  BY <1>1, <1>2, <1>5 DEF CourseOK
<1>7. t.of \notin Memories
  BY <1>2, MemoryWritesAssumption
<1>8. t.pc = "quota" => t.state = "active"
  BY <1>2
<1>9. t.pc = "probe" => limit = NULL \/ t.state # "active"
  BY <1>2
<1> QED BY <1>2, <1>3, <1>4, <1>5, <1>6, <1>7, <1>8, <1>9, BeginOK

LEMMA ReviseBegins ==
  ASSUME IInv, NEW c \in Calls, NEW m \in Memories, NEW h \in Hashes, Revise(c, m, h)
  PROVE  IInv'
<1> DEFINE t == [Idle EXCEPT !.pc = "close", !.op = "revise", !.of = m, !.hash = h,
                             !.state = "active", !.start = clock]
<1>1. /\ t.op = "revise" /\ t.hash = h /\ t.state = "active" /\ t.rows = <<>>
      /\ t.left = {} /\ t.out = {} /\ t.of = m /\ t.prop = NULL /\ t.pc = "close"
  BY DEF Idle
<1>2. t \in Transactions
  BY StartTyped DEF Idle, Transactions
<1>3. tx[c].pc = "idle" /\ tx' = [tx EXCEPT ![c] = t] /\ Waiting /\ mem[m].state # "none"
  BY DEF Revise, Begin, Become, Live, Exists
<1> HIDE DEF t
<1>4. ReviseOK(t)
  BY <1>1 DEF ReviseOK
<1>5. CourseOK(t)
  BY <1>1, <1>4, NoRows, MemoryWritesAssumption DEF CourseOK
<1> QED BY <1>1, <1>2, <1>3, <1>5, BeginOK

LEMMA ApplyBegins ==
  ASSUME IInv, NEW c \in Calls, NEW p \in Proposals, ApplyFactProposal(c, p)
  PROVE  IInv'
<1> DEFINE rows == <<prop[p].row>>
           t == [Idle EXCEPT !.pc = "source", !.op = "apply", !.prop = p,
                             !.of = prop[p].of, !.rows = rows,
                             !.left = SingleKeys(rows), !.start = clock]
<1>1. prop[p].row \in Rows /\ prop[p].of \in Memories
  BY DEF IInv, Typed, ProposalRows, Memories
<1>2. rows \in Seq(Rows) /\ Len(rows) = 1 /\ SingleKeys(rows) \in SUBSET Keys
      /\ rows[1] = prop[p].row
  <2>1. rows \in Seq(Rows) /\ Len(rows) = 1 /\ rows[1] = prop[p].row
    BY <1>1
  <2> HIDE DEF rows
  <2> QED BY <2>1, KeysOfRows
<1>3. /\ t.op = "apply" /\ t.rows = rows /\ t.prop = p /\ t.of \in Memories
      /\ t.left = SingleKeys(rows) /\ t.out = {} /\ t.pc = "source"
  BY <1>1 DEF Idle
<1>4. t \in Transactions
  BY <1>1, <1>2, StartTyped DEF Idle, Transactions
<1>5. tx[c].pc = "idle" /\ tx' = [tx EXCEPT ![c] = t] /\ Waiting
  BY DEF ApplyFactProposal, Begin, Become
<1>6. ~prop[p].row.many
  BY DEF IInv, Typed, ProposalRows
<1> HIDE DEF t, rows
<1>7. ApplyOK(t)
  BY <1>2, <1>3, <1>6 DEF ApplyOK
<1>8. Len(t.rows) <= MaxRows
  <2>1. MaxRows \in Nat /\ 1 <= MaxRows
    BY MemoryWritesAssumption
  <2>2. Len(t.rows) = 1
    BY <1>2, <1>3
  <2> QED BY <2>1, <2>2
<1>9. CourseOK(t)
  BY <1>2, <1>3, <1>7, <1>8 DEF CourseOK
<1> QED BY <1>3, <1>4, <1>5, <1>9, BeginOK

-----------------------------------------------------------------------------
(* What is decided about memories and proposals outside of the calls.      *)

LEMMA NoMoreCounted ==
  ASSUME NEW l \in Nat \cup {NULL}, NEW M, NEW T, NEW R, NEW M2, NEW T2, NEW R2,
         QuotaOK(l, M, T, R), Cardinality(Counted(M2, R2)) <= Cardinality(Counted(M, R)),
         \A c \in Calls : T2[c] = T[c] \/ T2[c] = Ended
  PROVE  QuotaOK(l, M2, T2, R2)
<1>1. SUFFICES ASSUME l # NULL
               PROVE  /\ Cardinality(Counted(M2, R2)) <= l
                      /\ \A c \in Calls :
                           /\ T2[c].pc \in {"quota", "count"} =>
                                T2[c].op = "create" /\ T2[c].state = "active"
                           /\ HasQuota(l, T2[c]) /\ T2[c].pc \in {"insert", "keys", "commit"} =>
                                Cardinality(Counted(M2, R2)) < l
  BY DEF QuotaOK
<1>2. IsFiniteSet(Counted(M, R)) /\ Cardinality(Counted(M, R)) \in Nat
      /\ Cardinality(Counted(M2, R2)) \in Nat
  <2>1. Counted(M, R) \in SUBSET Memories /\ Counted(M2, R2) \in SUBSET Memories
    BY DEF Counted
  <2> QED BY <2>1, FiniteMemories
<1>3. Cardinality(Counted(M2, R2)) <= Cardinality(Counted(M, R))
  OBVIOUS
<1>4. Cardinality(Counted(M2, R2)) <= l
  <2>1. Cardinality(Counted(M, R)) <= l /\ l \in Nat
    BY <1>1 DEF QuotaOK
  <2> QED BY <1>2, <1>3, <2>1
<1>5. ASSUME NEW c \in Calls, T2[c] = T[c]
      PROVE  /\ T2[c].pc \in {"quota", "count"} =>
                  T2[c].op = "create" /\ T2[c].state = "active"
             /\ HasQuota(l, T2[c]) /\ T2[c].pc \in {"insert", "keys", "commit"} =>
                  Cardinality(Counted(M2, R2)) < l
  <2>1. T2[c].pc \in {"quota", "count"} => T2[c].op = "create" /\ T2[c].state = "active"
    BY <1>1, <1>5 DEF QuotaOK
  <2>2. ASSUME HasQuota(l, T2[c]), T2[c].pc \in {"insert", "keys", "commit"}
        PROVE  Cardinality(Counted(M2, R2)) < l
    <3>1. Cardinality(Counted(M, R)) < l /\ l \in Nat
      BY <1>1, <1>5, <2>2 DEF QuotaOK
    <3> QED BY <1>2, <1>3, <3>1
  <2> QED BY <2>1, <2>2
<1>6. \A c \in Calls : T2[c] = Ended =>
        T2[c].pc \notin {"quota", "count", "insert", "keys", "commit"}
  BY EndedIs
<1> QED BY <1>4, <1>5, <1>6

LEMMA FewerCounted ==
  ASSUME NEW l \in Nat \cup {NULL}, NEW M, NEW T, NEW R, NEW M2, NEW T2, NEW R2,
         QuotaOK(l, M, T, R), Counted(M2, R2) \subseteq Counted(M, R),
         \A c \in Calls : T2[c] = T[c] \/ T2[c] = Ended
  PROVE  QuotaOK(l, M2, T2, R2)
<1>1. IsFiniteSet(Counted(M, R))
  BY FiniteMemories DEF Counted
<1>2. Cardinality(Counted(M2, R2)) <= Cardinality(Counted(M, R))
  BY <1>1, FS_Subset
<1> QED BY <1>2, NoMoreCounted

LEMMA LimitTyped ==
  ASSUME IInv
  PROVE  limit \in Nat \cup {NULL}
BY MemoryWritesAssumption DEF IInv, Typed

LEMMA ArchiveOK ==
  ASSUME IInv, NEW m \in Memories, Archive(m)
  PROVE  IInv'
<1>1. PICK blocker \in BOOLEAN :
        mem' = [mem EXCEPT ![m].state = "archived", ![m].closed = blocker]
  BY DEF Archive
<1>2. mem \in [Memories -> MemoryRows]
  BY DEF IInv, Typed
<1>3. mem'[m] = [mem[m] EXCEPT !.state = "archived", !.closed = blocker]
      /\ \A x \in Memories \ {m} : mem'[x] = mem[x]
  BY <1>1, <1>2
<1>4. mem'[m].state = "archived" /\ mem'[m].hash = mem[m].hash /\ mem'[m] \in MemoryRows
  BY <1>2, <1>3 DEF MemoryRows
<1>5. mem' \in [Memories -> MemoryRows]
  <2>1. mem' = [x \in Memories |-> mem'[x]]
    BY <1>1, <1>2
  <2> QED BY <1>2, <1>3, <1>4, <2>1
<1>6. UNCHANGED <<limit, clock, facts, prop, tx, revived>>
  BY DEF Archive
<1>7. Typed'
  BY <1>5, <1>6 DEF IInv, Typed
<1>8. CountsIn(mem, m) /\ mem[m].state = "active"
  BY DEF Archive, ActiveLive, Live, Exists, CountsIn, LiveIn
<1>9. \A d \in Calls : ~HasRow(tx[d], m) /\ ~HasShare(tx[d], m)
  BY HoldsIs DEF Archive, RowFree
<1>10. \A c \in Calls : c \in Memories
  BY DEF Memories
<1>11. Unborn(mem', facts, tx)
  BY <1>3, <1>8, <1>10 DEF IInv, Sound, Unborn
<1>12. \A c \in Calls : tx[c].op = "revise" => tx[c].of \in Memories
  BY Start DEF CourseOK, ReviseOK
<1>13. LocksMean(mem', prop, tx)
  <2>1. SUFFICES ASSUME NEW c \in Calls
                 PROVE  Means(mem', prop, tx[c])
    BY DEF LocksMean, Means
  <2>2. Means(mem, prop, tx[c])
    BY DEF IInv, Sound, LocksMean, Means
  <2>3. tx[c].op = "revise" => mem'[tx[c].of].state # "none"
    BY <1>3, <1>4, <1>12, <2>2 DEF Means
  <2>4. \A x \in Memories : HasRow(tx[c], x) => LiveIn(mem', x)
    BY <1>3, <1>9, <2>2 DEF Means, LiveIn
  <2>5. \A x \in Memories : HasShare(tx[c], x) => CountsIn(mem', x)
    BY <1>3, <1>9, <2>2 DEF Means, CountsIn, LiveIn
  <2> QED BY <2>2, <2>3, <2>4, <2>5 DEF Means
<1>14. QuotaOK(limit, mem', tx, revived)
  <2>1. Counted(mem', revived) \subseteq Counted(mem, revived)
    BY <1>3, <1>4 DEF Counted, CountsIn, LiveIn
  <2>2. QuotaOK(limit, mem, tx, revived)
    BY DEF IInv, Sound
  <2> QED BY <2>1, <2>2, LimitTyped, FewerCounted
<1>15. InsertsOK(mem', tx)
  <2>1. \A x \in Memories : mem'[x].hash = mem[x].hash
    BY <1>3, <1>4
  <2>2. InsertsOK(mem, tx)
    BY DEF IInv, Sound
  <2> QED BY <2>1, <2>2, InsertsStay
<1>16. Sound(limit, mem', facts, prop, tx, revived)
  BY <1>11, <1>13, <1>14, <1>15 DEF IInv, Sound
<1> QED BY <1>6, <1>7, <1>16 DEF IInv

LEMMA RejectOK ==
  ASSUME IInv, NEW p \in Proposals, RejectFactProposal(p)
  PROVE  IInv'
<1>1. /\ prop[p].status = "proposed"
      /\ prop' = [prop EXCEPT ![p].status = "rejected"]
      /\ UNCHANGED <<limit, clock, mem, facts, tx, revived>>
  BY DEF RejectFactProposal
<1>2. prop \in [Proposals -> ProposalRows]
  BY DEF IInv, Typed
<1>3. prop'[p] = [prop[p] EXCEPT !.status = "rejected"]
      /\ \A q \in Proposals \ {p} : prop'[q] = prop[q]
  BY <1>1, <1>2
<1>4. prop'[p] \in ProposalRows /\ prop'[p].status = "rejected"
  BY <1>2, <1>3 DEF ProposalRows
<1>5. prop' \in [Proposals -> ProposalRows]
  <2>1. prop' = [q \in Proposals |-> prop'[q]]
    BY <1>1, <1>2
  <2> QED BY <1>2, <1>3, <1>4, <2>1
<1>6. Typed'
  BY <1>1, <1>5 DEF IInv, Typed
<1>7. \A d \in Calls : ~HasProposal(tx[d], p)
  BY HoldsIs DEF RejectFactProposal
<1>8. LocksMean(mem, prop', tx)
  BY <1>3, <1>7 DEF IInv, Sound, LocksMean
<1>9. AppliedOnce(facts, prop')
  <2>1. AppliedOnce(facts, prop) /\ facts \in [FactIds -> Facts]
    BY DEF IInv, Sound, Typed
  <2>2. \A f \in FactIds : facts[f].prop # NULL =>
          facts[f].prop \in Proposals \ {p} /\ prop'[facts[f].prop].status = "applied"
    BY <1>1, <1>3, <2>1 DEF AppliedOnce, Facts
  <2>3. \A q \in Proposals : prop'[q].status = "applied" => prop[q].status = "applied"
    BY <1>3, <1>4
  <2> QED BY <2>1, <2>2, <2>3 DEF AppliedOnce
<1>10. Sound(limit, mem, facts, prop', tx, revived)
  BY <1>8, <1>9 DEF IInv, Sound
<1> QED BY <1>1, <1>6, <1>10 DEF IInv

LEMMA TickOK ==
  ASSUME IInv, Tick
  PROVE  IInv'
<1>1. clock' \in Times /\ UNCHANGED <<limit, mem, facts, prop, tx, revived>>
  BY MemoryWritesAssumption DEF IInv, Typed, Tick, Times
<1>2. Typed'
  BY <1>1 DEF IInv, Typed
<1> QED BY <1>1, <1>2 DEF IInv

-----------------------------------------------------------------------------
(* Timelines.                                                              *)

LEMMA OverIs ==
  ASSUME NEW F, NEW out, \A o \in out : o.id \in FactIds,
         \A o, q \in out : o.id = q.id => o = q
  PROVE  /\ \A o \in out : Over(F, out)[o.id] = o.fact
         /\ \A f \in FactIds : (\A o \in out : o.id # f) => Over(F, out)[f] = F[f]
<1>1. ASSUME NEW o \in out
      PROVE  Over(F, out)[o.id] = o.fact
  <2>1. (CHOOSE q \in out : q.id = o.id) = o
    OBVIOUS
  <2> QED BY <2>1 DEF Over
<1> QED BY <1>1 DEF Over

(* From F to G nothing happens to the key k but that current facts, marked *)
(* `many`, appear.                                                         *)
Grows(k, F, G) ==
  \A f \in FactIds :
    \/ G[f] = F[f]
    \/ F[f].key # k /\ (G[f].key # k \/ (G[f].many /\ G[f].to = NULL))

LEMMA GrowsKeeps ==
  ASSUME NEW k, NEW F, NEW G, Grows(k, F, G), Timeline(F, k)
  PROVE  Timeline(G, k)
<1>1. \A f \in FactIds : IsValue(G, k, f) => G[f] = F[f] /\ IsValue(F, k, f)
  BY DEF Grows, IsValue
<1>2. \A f \in FactIds : IsOpen(F, k, f) => G[f] = F[f] /\ IsOpen(G, k, f)
  BY DEF Grows, IsOpen
<1>3. OneOpen(G, k)
  BY <1>1 DEF Timeline, OneOpen, IsOpen
<1>4. Covered(G, k)
  <2>1. SUFFICES ASSUME NEW f \in FactIds, IsValue(G, k, f)
                 PROVE  \E g \in FactIds : IsOpen(G, k, g) /\ G[g].from >= G[f].from
    BY DEF Covered
  <2>2. PICK g \in FactIds : IsOpen(F, k, g) /\ F[g].from >= F[f].from
    BY <1>1, <2>1 DEF Timeline, Covered
  <2> QED BY <1>1, <1>2, <2>1, <2>2
<1>5. Disjoint(G, k)
  BY <1>1 DEF Timeline, Disjoint, Meet
<1> QED BY <1>3, <1>4, <1>5 DEF Timeline

(* What the call c writes for the key k (writeKey, in parts).              *)
Group(c, k) ==
  {i \in DOMAIN tx[c].rows : tx[c].rows[i].key = k /\ ~tx[c].rows[i].many}
Closers(c, k, f) ==
  {startOf(c, i) : i \in {n \in Group(c, k) : facts[f].from <= startOf(c, n)}}
EndsOf(c, k, i) ==
  {startOf(c, j) : j \in {n \in Group(c, k) : Follows(c, i, n)}}
    \cup {facts[f].from :
            f \in {g \in OpenOf(k) : ~(facts[g].from <= startOf(c, i))}}
NewRow(c, k, i) ==
  [ key |-> k, from |-> startOf(c, i), many |-> FALSE, prop |-> tx[c].prop,
    to |-> IF EndsOf(c, k, i) = {} THEN NULL ELSE Min(EndsOf(c, k, i)) ]
ClosedFact(c, k, f) == [facts[f] EXCEPT !.to = Min(Closers(c, k, f))]

LEMMA WriteKeyIs ==
  ASSUME NEW c, NEW k
  PROVE  writeKey(c, k) =
           {[id |-> f, fact |-> ClosedFact(c, k, f)] :
              f \in {g \in OpenOf(k) : Closers(c, k, g) # {}}}
           \cup {[id |-> <<c, i>>, fact |-> NewRow(c, k, i)] : i \in Group(c, k)}
BY DEF writeKey, replaces, closesBefore, endsBy, nextInCall, Group, Closers,
       EndsOf, NewRow, ClosedFact

LEMMA RowsTyped ==
  ASSUME IInv, NEW c \in Calls, NEW i \in DOMAIN tx[c].rows
  PROVE  /\ tx[c].rows[i] \in Rows /\ i \in 1..MaxRows /\ i \in Nat
         /\ startOf(c, i) \in Times /\ startOf(c, i) \in Nat
<1>1. tx[c] \in Transactions /\ CourseOK(tx[c])
  BY Start
<1>2. tx[c].rows \in Seq(Rows) /\ tx[c].start \in Times /\ Len(tx[c].rows) <= MaxRows
  BY <1>1 DEF Transactions, CourseOK
<1>3. tx[c].rows[i] \in Rows /\ i \in 1..Len(tx[c].rows)
  BY <1>2
<1>4. startOf(c, i) \in Times
  BY <1>2, <1>3 DEF startOf, Rows
<1>5. MaxRows \in Nat /\ \A n \in Times : n \in Nat
  BY MemoryWritesAssumption DEF Times
<1>6. i \in 1..MaxRows /\ i \in Nat
  <2>1. Len(tx[c].rows) \in Nat /\ Len(tx[c].rows) <= MaxRows /\ i \in 1..Len(tx[c].rows)
    BY <1>2, <1>3
  <2> QED BY <1>5, <2>1
<1> QED BY <1>3, <1>4, <1>5, <1>6

LEMMA FollowsIs ==
  ASSUME IInv, NEW c \in Calls,
         NEW i \in DOMAIN tx[c].rows, NEW j \in DOMAIN tx[c].rows
  PROVE  /\ Follows(c, i, j) => startOf(c, i) <= startOf(c, j)
         /\ i # j => Follows(c, i, j) \/ Follows(c, j, i)
<1>1. startOf(c, i) \in Nat /\ startOf(c, j) \in Nat /\ i \in Nat /\ j \in Nat
  BY RowsTyped
<1> QED BY <1>1 DEF Follows

LEMMA LastRow ==
  ASSUME IInv, NEW c \in Calls, NEW group \in SUBSET DOMAIN tx[c].rows, group # {}
  PROVE  \E i \in group : \A n \in group : ~Follows(c, i, n) /\ startOf(c, n) <= startOf(c, i)
<1>1. \A i \in group : startOf(c, i) \in Times /\ startOf(c, i) \in Nat /\ i \in 1..MaxRows /\ i \in Nat
  BY RowsTyped
<1>2. MaxTime \in Nat /\ MaxRows \in Nat /\ \A n \in Times : n <= MaxTime
  BY MemoryWritesAssumption DEF Times
<1> DEFINE starts == {startOf(c, i) : i \in group}
<1>3. PICK s \in starts : \A n \in starts : n <= s
  <2>1. starts \in SUBSET Nat /\ starts # {} /\ \A n \in starts : n <= MaxTime
    BY <1>1, <1>2
  <2> HIDE DEF starts
  <2> QED BY <1>2, <2>1, Greatest
<1>4. \A n \in group : startOf(c, n) <= s
  BY <1>3
<1> DEFINE late == {i \in group : startOf(c, i) = s}
           open == {i \in late : tx[c].rows[i].from = NULL}
           last == IF open = {} THEN late ELSE open
<1>5. last # {} /\ last \in SUBSET late
  BY <1>3
<1>6. PICK i \in last : \A n \in last : n <= i
  <2>1. last \in SUBSET Nat /\ \A n \in last : n <= MaxRows
    BY <1>1, <1>2, <1>5
  <2> HIDE DEF last
  <2> QED BY <1>2, <1>5, <2>1, Greatest
<1>7. i \in group /\ startOf(c, i) = s
  BY <1>5, <1>6
<1>8. ASSUME NEW n \in group
      PROVE  ~Follows(c, i, n)
  <2>1. startOf(c, n) \in Nat /\ s \in Nat /\ startOf(c, n) <= s /\ i \in Nat /\ n \in Nat
    BY <1>1, <1>4, <1>7, <1>8
  <2>2. CASE startOf(c, n) # s
    BY <1>7, <2>1, <2>2 DEF Follows
  <2>3. CASE startOf(c, n) = s /\ n \in last
    <3>1. n <= i /\ (tx[c].rows[i].from = NULL <=> tx[c].rows[n].from = NULL)
      BY <1>6, <2>3
    <3> QED BY <1>7, <2>1, <2>3, <3>1 DEF Follows
  <2>4. CASE startOf(c, n) = s /\ n \notin last
    <3>1. tx[c].rows[i].from = NULL /\ tx[c].rows[n].from # NULL
      BY <1>6, <2>4, <1>8
    <3> QED BY <1>7, <2>1, <2>4, <3>1 DEF Follows
  <2> QED BY <2>2, <2>3, <2>4
<1> QED BY <1>4, <1>7, <1>8

LEMMA TimesAreNat ==
  NULL \notin Times /\ NULL \notin Keys /\ \A n \in Times : n \in Nat
<1>1. \A n \in Times : n \in Nat
  BY MemoryWritesAssumption DEF Times
<1>2. NULL \notin Nat /\ \A n \in Keys : n \in Nat
  BY MemoryWritesAssumption
<1> QED BY <1>1, <1>2

LEMMA ClosersTyped ==
  ASSUME IInv, NEW c \in Calls, NEW k, NEW f, Closers(c, k, f) # {}
  PROVE  /\ Min(Closers(c, k, f)) \in Closers(c, k, f)
         /\ Min(Closers(c, k, f)) \in Times
<1>1. \A i \in Group(c, k) : startOf(c, i) \in Times
  BY RowsTyped DEF Group
<1>2. Closers(c, k, f) \in SUBSET Times
  BY <1>1 DEF Closers
<1>3. Closers(c, k, f) \in SUBSET Nat
  BY <1>2, TimesAreNat
<1> QED BY <1>2, <1>3, MinIsLeast

LEMMA EndsTyped ==
  ASSUME IInv, NEW c \in Calls, NEW k \in Keys, NEW i \in Group(c, k)
  PROVE  /\ \A e \in EndsOf(c, k, i) : e \in Times /\ e >= startOf(c, i)
         /\ EndsOf(c, k, i) # {} =>
              /\ Min(EndsOf(c, k, i)) \in EndsOf(c, k, i)
              /\ \A e \in EndsOf(c, k, i) : Min(EndsOf(c, k, i)) <= e
<1>1. \A j \in Group(c, k) : j \in DOMAIN tx[c].rows /\ startOf(c, j) \in Times
                             /\ startOf(c, j) \in Nat
  BY RowsTyped DEF Group
<1>2. ASSUME NEW f \in OpenOf(k)
      PROVE  facts[f].from \in Times
  BY TimesAreNat DEF OpenOf, IInv, Sound, FactsOK
<1>3. ASSUME NEW e \in EndsOf(c, k, i)
      PROVE  e \in Times /\ e >= startOf(c, i)
  <2>1. CASE \E j \in Group(c, k) : Follows(c, i, j) /\ e = startOf(c, j)
    BY <1>1, <2>1, FollowsIs
  <2>2. CASE \E f \in OpenOf(k) : ~(facts[f].from <= startOf(c, i)) /\ e = facts[f].from
    BY <1>1, <1>2, <2>2, TimesAreNat
  <2> QED BY <1>3, <2>1, <2>2 DEF EndsOf
<1>4. EndsOf(c, k, i) \in SUBSET Nat
  BY <1>3, TimesAreNat
<1> QED BY <1>3, <1>4, MinIsLeast

(* G is what the facts of k are once c has written k.                      *)
Written(c, k, G) ==
  /\ \A f \in OpenOf(k) : Closers(c, k, f) # {} => G[f] = ClosedFact(c, k, f)
  /\ \A i \in Group(c, k) : G[<<c, i>>] = NewRow(c, k, i)
  /\ \A f \in FactIds :
       \/ f \in OpenOf(k) /\ Closers(c, k, f) # {}
       \/ \E i \in Group(c, k) : f = <<c, i>>
       \/ G[f] = facts[f]
       \/ facts[f].key # k /\ G[f].key # k

IsNew(c, k, G, f) == \E i \in Group(c, k) : f = <<c, i>> /\ G[f] = NewRow(c, k, i)
IsKept(k, G, f) == facts[f].key = k /\ G[f] = facts[f]
IsShut(k, G, f) ==
  facts[f].key = k /\ \E to \in Times : facts[f].to = NULL /\ G[f] = [facts[f] EXCEPT !.to = to]

LEMMA OwnAbsent ==
  ASSUME IInv, NEW c \in Calls, tx[c].pc # "done", NEW f \in FactIds, f[1] = c
  PROVE  facts[f] = NoFact /\ facts[f].key = NULL
<1>1. facts[f] = NoFact
  BY DEF IInv, Sound, Unborn
<1> QED BY <1>1 DEF NoFact

LEMMA KindsWritten ==
  ASSUME IInv, NEW c \in Calls, tx[c].pc # "done", NEW k \in Keys, NEW G, Written(c, k, G),
         NEW f \in FactIds, G[f].key = k
  PROVE  \/ IsNew(c, k, G, f) /\ f[1] = c
         \/ /\ f[1] # c
            /\ \/ IsKept(k, G, f) /\ (IsOpen(G, k, f) => Closers(c, k, f) = {})
               \/ IsShut(k, G, f) /\ ~IsOpen(G, k, f)
<1>1. CASE f \in OpenOf(k) /\ Closers(c, k, f) # {}
  <2>1. facts[f].key = k /\ facts[f].to = NULL
    BY <1>1 DEF OpenOf
  <2>2. f[1] # c
    BY <2>1, OwnAbsent, TimesAreNat
  <2>3. G[f] = [facts[f] EXCEPT !.to = Min(Closers(c, k, f))]
    BY <1>1 DEF Written, ClosedFact
  <2>4. Min(Closers(c, k, f)) \in Times
    BY <1>1, ClosersTyped
  <2>5. IsShut(k, G, f)
    BY <2>1, <2>3, <2>4 DEF IsShut
  <2>6. facts[f] \in Facts
    BY DEF IInv, Typed
  <2>7. G[f].to = Min(Closers(c, k, f))
    BY <2>3, <2>6 DEF Facts
  <2> QED BY <2>2, <2>4, <2>5, <2>7, TimesAreNat DEF IsOpen
<1>2. CASE \E i \in Group(c, k) : f = <<c, i>>
  BY <1>2 DEF Written, IsNew
<1>3. CASE G[f] = facts[f] /\ ~(f \in OpenOf(k) /\ Closers(c, k, f) # {})
  <2>1. facts[f].key = k
    BY <1>3
  <2>2. f[1] # c
    BY <2>1, OwnAbsent, TimesAreNat
  <2> QED BY <1>3, <2>1, <2>2 DEF IsKept, IsOpen, OpenOf
<1> QED BY <1>1, <1>2, <1>3 DEF Written

LEMMA NewRowIs ==
  ASSUME NEW c, NEW k, NEW i
  PROVE  /\ NewRow(c, k, i).key = k /\ NewRow(c, k, i).from = startOf(c, i)
         /\ ~NewRow(c, k, i).many /\ NewRow(c, k, i).prop = tx[c].prop
         /\ NewRow(c, k, i).to = IF EndsOf(c, k, i) = {} THEN NULL ELSE Min(EndsOf(c, k, i))
BY DEF NewRow

LEMMA NewRowTo ==
  ASSUME IInv, NEW c \in Calls, NEW k \in Keys, NEW i \in Group(c, k)
  PROVE  NewRow(c, k, i).to = NULL <=> EndsOf(c, k, i) = {}
<1>1. EndsOf(c, k, i) # {} => Min(EndsOf(c, k, i)) \in Times
  BY EndsTyped
<1> QED BY <1>1, NewRowIs, TimesAreNat

LEMMA ShutIs ==
  ASSUME IInv, NEW k, NEW G, NEW f \in FactIds, IsShut(k, G, f)
  PROVE  /\ facts[f].to = NULL /\ facts[f].key = k /\ G[f].key = k
         /\ G[f].many = facts[f].many /\ G[f].from = facts[f].from
<1>1. facts[f] \in Facts
  BY DEF IInv, Typed
<1> QED BY <1>1 DEF IsShut, Facts

LEMMA WrittenOneOpen ==
  ASSUME IInv, NEW c \in Calls, tx[c].pc # "done", NEW k \in Keys, NEW G, Written(c, k, G),
         OneOpen(facts, k)
  PROVE  OneOpen(G, k)
<1>1. SUFFICES ASSUME NEW f \in FactIds, NEW g \in FactIds,
                      IsValue(G, k, f), IsValue(G, k, g), IsOpen(G, k, f), IsOpen(G, k, g),
                      f # g
               PROVE  FALSE
  BY DEF OneOpen
<1>2. \A x \in {f, g} : \/ IsNew(c, k, G, x)
                        \/ IsKept(k, G, x) /\ Closers(c, k, x) = {}
  BY <1>1, KindsWritten DEF IsOpen
<1>3. CASE IsKept(k, G, f) /\ IsKept(k, G, g)
  BY <1>1, <1>3 DEF IsKept, OneOpen, IsValue, IsOpen
<1>4. ASSUME NEW x \in FactIds, NEW y \in FactIds, IsOpen(G, k, x), IsOpen(G, k, y),
             IsNew(c, k, G, x), IsKept(k, G, y), Closers(c, k, y) = {}
      PROVE  FALSE
  <2>1. PICK i \in Group(c, k) : G[x] = NewRow(c, k, i)
    BY <1>4 DEF IsNew
  <2>2. EndsOf(c, k, i) = {}
    BY <1>4, <2>1, NewRowTo DEF IsOpen
  <2>3. y \in OpenOf(k) /\ ~(facts[y].from <= startOf(c, i))
    BY <1>4 DEF IsKept, IsOpen, OpenOf, Closers
  <2> QED BY <2>2, <2>3 DEF EndsOf
<1>5. CASE IsNew(c, k, G, f) /\ IsNew(c, k, G, g)
  <2>1. PICK i \in Group(c, k) : f = <<c, i>> /\ G[f] = NewRow(c, k, i)
    BY <1>5 DEF IsNew
  <2>2. PICK j \in Group(c, k) : g = <<c, j>> /\ G[g] = NewRow(c, k, j)
    BY <1>5 DEF IsNew
  <2>3. EndsOf(c, k, i) = {} /\ EndsOf(c, k, j) = {}
    BY <1>1, <2>1, <2>2, NewRowTo DEF IsOpen
  <2>4. i # j /\ i \in DOMAIN tx[c].rows /\ j \in DOMAIN tx[c].rows
    BY <1>1, <2>1, <2>2 DEF Group
  <2>5. Follows(c, i, j) \/ Follows(c, j, i)
    BY <2>4, FollowsIs
  <2> QED BY <2>3, <2>5 DEF EndsOf
<1> QED BY <1>1, <1>2, <1>3, <1>4, <1>5

(* No window of the group ends before it begins, so the last row, or a     *)
(* fact that starts after every row, is current.                           *)
LEMMA WrittenCovered ==
  ASSUME IInv, NEW c \in Calls, tx[c].pc # "done", NEW k \in Keys, NEW G, Written(c, k, G),
         Group(c, k) # {}, Covered(facts, k)
  PROVE  Covered(G, k)
<1>1. \A i \in Group(c, k) : i \in DOMAIN tx[c].rows /\ startOf(c, i) \in Nat
                             /\ <<c, i>> \in FactIds
  BY RowsTyped DEF Group, FactIds
<1>2. \A f \in FactIds : facts[f].key = k => facts[f].from \in Nat
  BY TimesAreNat DEF IInv, Sound, FactsOK
<1>3. \A f \in FactIds : facts[f].key = k => G[f].from = facts[f].from /\ G[f].key = k
  <2>1. SUFFICES ASSUME NEW f \in FactIds, facts[f].key = k
                 PROVE  G[f].from = facts[f].from /\ G[f].key = k
    OBVIOUS
  <2>2. CASE f \in OpenOf(k) /\ Closers(c, k, f) # {}
    <3>1. facts[f] \in Facts /\ G[f] = [facts[f] EXCEPT !.to = Min(Closers(c, k, f))]
      BY <2>2 DEF Written, ClosedFact, IInv, Typed
    <3> QED BY <2>1, <3>1 DEF Facts
  <2>3. CASE \E i \in Group(c, k) : f = <<c, i>>
    BY <2>1, <2>3, OwnAbsent, TimesAreNat
  <2> QED BY <2>1, <2>2, <2>3 DEF Written
<1>4. SUFFICES ASSUME NEW f \in FactIds, IsValue(G, k, f)
               PROVE  \E g \in FactIds : IsOpen(G, k, g) /\ G[g].from >= G[f].from
  BY DEF Covered
<1>5. \/ \E i \in Group(c, k) : G[f].from = startOf(c, i)
      \/ IsValue(facts, k, f) /\ G[f].from = facts[f].from
  <2>1. G[f].key = k /\ ~G[f].many
    BY <1>4 DEF IsValue
  <2>2. CASE IsNew(c, k, G, f)
    BY <2>2, NewRowIs DEF IsNew
  <2>3. CASE IsKept(k, G, f)
    BY <2>1, <2>3 DEF IsKept, IsValue
  <2>4. CASE IsShut(k, G, f)
    BY <2>1, <2>4, ShutIs DEF IsValue
  <2> QED BY <2>1, <2>2, <2>3, <2>4, KindsWritten
<1>6. G[f].from \in Nat
  BY <1>1, <1>2, <1>5 DEF IsValue
<1>7. CASE \E g \in OpenOf(k) : Closers(c, k, g) = {}
  <2>1. PICK g \in OpenOf(k) : Closers(c, k, g) = {}
    BY <1>7
  <2>2. g \in FactIds /\ facts[g].key = k /\ facts[g].to = NULL
    BY DEF OpenOf
  <2>3. G[g] = facts[g]
    <3>1. ~\E i \in Group(c, k) : g = <<c, i>>
      BY <2>2, OwnAbsent, TimesAreNat
    <3> QED BY <2>1, <2>2, <3>1 DEF Written
  <2>4. IsOpen(G, k, g)
    BY <2>2, <2>3 DEF IsOpen
  <2>5. \A i \in Group(c, k) : startOf(c, i) < facts[g].from
    <3>1. SUFFICES ASSUME NEW i \in Group(c, k)
                   PROVE  startOf(c, i) < facts[g].from
      OBVIOUS
    <3>2. ~(facts[g].from <= startOf(c, i))
      BY <2>1 DEF Closers
    <3>3. facts[g].from \in Nat /\ startOf(c, i) \in Nat
      BY <1>1, <1>2, <2>2
    <3> QED BY <3>2, <3>3
  <2>6. CASE \E i \in Group(c, k) : G[f].from = startOf(c, i)
    <3>1. PICK i \in Group(c, k) : G[f].from = startOf(c, i)
      BY <2>6
    <3>2. facts[g].from \in Nat /\ startOf(c, i) \in Nat /\ startOf(c, i) < facts[g].from
      BY <1>1, <1>2, <2>2, <2>5
    <3>3. G[g].from >= G[f].from
      BY <2>3, <3>1, <3>2
    <3> QED BY <2>2, <2>4, <3>3
  <2>7. CASE IsValue(facts, k, f) /\ G[f].from = facts[f].from
    <3>1. PICK h \in FactIds : IsOpen(facts, k, h) /\ facts[h].from >= facts[f].from
      BY <2>7 DEF Covered
    <3>2. h \in OpenOf(k) /\ facts[h].key = k
      BY <3>1 DEF IsOpen, OpenOf
    <3>3. CASE Closers(c, k, h) = {}
      <4>1. ~\E i \in Group(c, k) : h = <<c, i>>
        BY <3>2, OwnAbsent, TimesAreNat
      <4>2. G[h] = facts[h]
        BY <3>2, <3>3, <4>1 DEF Written
      <4>3. IsOpen(G, k, h)
        BY <3>1, <4>2 DEF IsOpen
      <4> QED BY <2>7, <3>1, <4>2, <4>3
    <3>4. CASE Closers(c, k, h) # {}
      <4>1. PICK i \in Group(c, k) : facts[h].from <= startOf(c, i)
        BY <3>4 DEF Closers
      <4>2. facts[h].from \in Nat /\ startOf(c, i) \in Nat /\ facts[g].from \in Nat
            /\ startOf(c, i) < facts[g].from /\ facts[f].from \in Nat
        BY <1>1, <1>2, <2>2, <2>5, <2>7, <3>2 DEF IsValue
      <4>3. facts[f].from <= facts[g].from
        BY <3>1, <4>1, <4>2
      <4> QED BY <2>3, <2>4, <2>7, <2>2, <4>2, <4>3
    <3> QED BY <3>3, <3>4
  <2> QED BY <1>5, <2>6, <2>7
<1>8. CASE \A g \in OpenOf(k) : Closers(c, k, g) # {}
  <2>1. PICK i \in Group(c, k) :
          \A n \in Group(c, k) : ~Follows(c, i, n) /\ startOf(c, n) <= startOf(c, i)
    BY LastRow DEF Group
  <2>2. EndsOf(c, k, i) = {}
    <3>1. \A g \in OpenOf(k) : facts[g].from <= startOf(c, i)
      <4>1. SUFFICES ASSUME NEW g \in OpenOf(k)
                     PROVE  facts[g].from <= startOf(c, i)
        OBVIOUS
      <4>2. PICK n \in Group(c, k) : facts[g].from <= startOf(c, n)
        BY <1>8, <4>1 DEF Closers
      <4>3. facts[g].from \in Nat /\ startOf(c, n) \in Nat /\ startOf(c, i) \in Nat
            /\ startOf(c, n) <= startOf(c, i)
        BY <1>1, <1>2, <2>1 DEF OpenOf
      <4> QED BY <4>2, <4>3
    <3> QED BY <2>1, <3>1 DEF EndsOf
  <2>3. <<c, i>> \in FactIds /\ G[<<c, i>>] = NewRow(c, k, i)
    BY <1>1 DEF Written
  <2>4. IsOpen(G, k, <<c, i>>) /\ G[<<c, i>>].from = startOf(c, i)
    BY <2>2, <2>3, NewRowIs DEF IsOpen
  <2>5. G[f].from <= startOf(c, i)
    <3>1. CASE \E n \in Group(c, k) : G[f].from = startOf(c, n)
      BY <2>1, <3>1
    <3>2. CASE IsValue(facts, k, f) /\ G[f].from = facts[f].from
      <4>1. PICK h \in FactIds : IsOpen(facts, k, h) /\ facts[h].from >= facts[f].from
        BY <3>2 DEF Covered
      <4>2. h \in OpenOf(k) /\ facts[h].key = k
        BY <4>1 DEF IsOpen, OpenOf
      <4>3. PICK n \in Group(c, k) : facts[h].from <= startOf(c, n)
        BY <1>8, <4>2 DEF Closers
      <4>4. facts[h].from \in Nat /\ facts[f].from \in Nat /\ startOf(c, n) \in Nat
            /\ startOf(c, i) \in Nat /\ startOf(c, n) <= startOf(c, i)
        BY <1>1, <1>2, <2>1, <3>2, <4>2 DEF IsValue
      <4> QED BY <3>2, <4>1, <4>3, <4>4
    <3> QED BY <1>5, <3>1, <3>2
  <2>6. startOf(c, i) \in Nat
    BY <1>1
  <2> QED BY <1>6, <2>3, <2>4, <2>5, <2>6
<1> QED BY <1>7, <1>8

LEMMA WrittenDisjoint ==
  ASSUME IInv, NEW c \in Calls, tx[c].pc # "done", NEW k \in Keys, NEW G, Written(c, k, G),
         Disjoint(facts, k)
  PROVE  Disjoint(G, k)
<1>1. ASSUME NEW i \in Group(c, k), NEW j \in Group(c, k), NEW f, NEW g,
             G[f] = NewRow(c, k, i), G[g] = NewRow(c, k, j), Follows(c, i, j)
      PROVE  ~Meet(G, f, g) /\ ~Meet(G, g, f)
  <2>1. startOf(c, j) \in EndsOf(c, k, i)
    BY <1>1 DEF EndsOf
  <2>2. /\ Min(EndsOf(c, k, i)) \in Times /\ Min(EndsOf(c, k, i)) <= startOf(c, j)
        /\ startOf(c, j) \in Times
    BY <2>1, EndsTyped
  <2>3. G[f].to = Min(EndsOf(c, k, i)) /\ G[g].from = startOf(c, j)
    BY <1>1, <2>1, NewRowIs
  <2>4. G[f].to # NULL /\ ~(G[g].from < G[f].to)
    BY <2>2, <2>3, TimesAreNat
  <2> QED BY <2>4 DEF Meet
<1>2. SUFFICES ASSUME NEW f \in FactIds, NEW g \in FactIds,
                      IsValue(G, k, f), IsValue(G, k, g), f[1] = g[1], f # g
               PROVE  ~Meet(G, f, g)
  BY DEF Disjoint
<1>3. CASE f[1] = c
  <2>1. PICK i \in Group(c, k) : f = <<c, i>> /\ G[f] = NewRow(c, k, i)
    BY <1>2, <1>3, KindsWritten DEF IsValue, IsNew
  <2>2. PICK j \in Group(c, k) : g = <<c, j>> /\ G[g] = NewRow(c, k, j)
    <3>1. g[1] = c /\ G[g].key = k
      BY <1>2, <1>3 DEF IsValue
    <3>2. IsNew(c, k, G, g)
      BY <3>1, KindsWritten
    <3> QED BY <3>2 DEF IsNew
  <2>3. i # j /\ i \in DOMAIN tx[c].rows /\ j \in DOMAIN tx[c].rows
    BY <1>2, <2>1, <2>2 DEF Group
  <2>4. Follows(c, i, j) \/ Follows(c, j, i)
    BY <2>3, FollowsIs
  <2> QED BY <1>1, <2>1, <2>2, <2>4
<1>4. CASE f[1] # c
  <2>1. \A x \in {f, g} : IsKept(k, G, x) \/ IsShut(k, G, x)
    BY <1>2, <1>4, KindsWritten DEF IsValue
  <2>2. \A x \in {f, g} : /\ IsValue(facts, k, x) /\ G[x].from = facts[x].from
                          /\ G[x].to = facts[x].to \/ facts[x].to = NULL
    <3>1. SUFFICES ASSUME NEW x \in {f, g}
                   PROVE  /\ IsValue(facts, k, x) /\ G[x].from = facts[x].from
                          /\ G[x].to = facts[x].to \/ facts[x].to = NULL
      OBVIOUS
    <3>2. IsValue(G, k, x) /\ x \in FactIds
      BY <1>2
    <3>3. CASE IsKept(k, G, x)
      BY <3>2, <3>3 DEF IsKept, IsValue
    <3>4. CASE IsShut(k, G, x)
      BY <3>2, <3>4, ShutIs DEF IsValue
    <3> QED BY <2>1, <3>3, <3>4
  <2>3. ~Meet(facts, f, g)
    BY <1>2, <2>2 DEF Disjoint
  <2> QED BY <2>2, <2>3 DEF Meet
<1> QED BY <1>3, <1>4

LEMMA WrittenTimeline ==
  ASSUME IInv, NEW c \in Calls, tx[c].pc # "done", NEW k \in Keys, NEW G, Written(c, k, G),
         Group(c, k) # {}
  PROVE  Timeline(G, k)
<1>1. Timeline(facts, k)
  BY DEF IInv, Sound, TimelinesOK
<1> QED BY <1>1, WrittenOneOpen, WrittenCovered, WrittenDisjoint DEF Timeline

-----------------------------------------------------------------------------
(* The step that writes a key.                                             *)

Wrote(c, k) ==
  [tx[c] EXCEPT !.left = tx[c].left \ {k}, !.out = tx[c].out \cup writeKey(c, k),
                !.pc = IF tx[c].left = {k} THEN "commit" ELSE "keys"]

LEMMA WroteIs ==
  ASSUME IInv, NEW c \in Calls, NEW k
  PROVE  /\ Wrote(c, k).left = tx[c].left \ {k}
         /\ Wrote(c, k).out = tx[c].out \cup writeKey(c, k)
         /\ Wrote(c, k).pc = IF tx[c].left = {k} THEN "commit" ELSE "keys"
         /\ Wrote(c, k).op = tx[c].op /\ Wrote(c, k).of = tx[c].of
         /\ Wrote(c, k).hash = tx[c].hash /\ Wrote(c, k).state = tx[c].state
         /\ Wrote(c, k).prop = tx[c].prop /\ Wrote(c, k).rows = tx[c].rows
         /\ Wrote(c, k).start = tx[c].start
<1>1. tx[c] \in Transactions
  BY Start
<1> QED BY <1>1 DEF Wrote, Transactions

(* What the step adds.                                                     *)
LEMMA WritesNew ==
  ASSUME IInv, NEW c \in Calls, tx[c].pc = "keys", NEW k \in Keys, NEW i \in Group(c, k)
  PROVE  /\ <<c, i>> \in FactIds /\ NewRow(c, k, i) \in Facts
         /\ startOf(c, i) \in Times
         /\ NewRow(c, k, i).to \in Times => startOf(c, i) <= NewRow(c, k, i).to
<1>1. i \in DOMAIN tx[c].rows
  BY DEF Group
<1>2. <<c, i>> \in FactIds /\ startOf(c, i) \in Times
  BY <1>1, RowsTyped DEF FactIds
<1>3. EndsOf(c, k, i) # {} =>
        /\ Min(EndsOf(c, k, i)) \in Times
        /\ startOf(c, i) <= Min(EndsOf(c, k, i))
  <2>1. SUFFICES ASSUME EndsOf(c, k, i) # {}
                 PROVE  /\ Min(EndsOf(c, k, i)) \in Times
                        /\ startOf(c, i) <= Min(EndsOf(c, k, i))
    OBVIOUS
  <2>2. /\ Min(EndsOf(c, k, i)) \in Times /\ Min(EndsOf(c, k, i)) >= startOf(c, i)
    BY <2>1, EndsTyped
  <2> QED BY <1>2, <2>2, TimesAreNat
<1>4. tx[c].prop \in Proposals \cup {NULL}
  BY Start DEF Transactions
<1>5. NewRow(c, k, i) \in Facts
  <2> DEFINE to == IF EndsOf(c, k, i) = {} THEN NULL ELSE Min(EndsOf(c, k, i))
  <2>1. to \in Times \cup {NULL}
    BY <1>3
  <2>2. NewRow(c, k, i) = [ key |-> k, from |-> startOf(c, i), many |-> FALSE,
                            prop |-> tx[c].prop, to |-> to ]
    BY DEF NewRow
  <2> HIDE DEF to
  <2> QED BY <1>2, <1>4, <2>1, <2>2 DEF Facts
<1>6. NewRow(c, k, i).to \in Times => startOf(c, i) <= NewRow(c, k, i).to
  BY <1>3, NewRowIs, TimesAreNat
<1> QED BY <1>2, <1>5, <1>6

LEMMA WritesShut ==
  ASSUME IInv, NEW c \in Calls, tx[c].pc = "keys", NEW k \in Keys,
         NEW f \in OpenOf(k), Closers(c, k, f) # {}
  PROVE  /\ f \in FactIds /\ f[1] # c
         /\ facts[f].key = k /\ facts[f].to = NULL /\ facts[f].from \in Times
         /\ ClosedFact(c, k, f) \in Facts
         /\ ClosedFact(c, k, f).key = k /\ ClosedFact(c, k, f).from = facts[f].from
         /\ \E to \in Times : /\ facts[f].from <= to
                              /\ ClosedFact(c, k, f) = [facts[f] EXCEPT !.to = to]
                              /\ ClosedFact(c, k, f).to = to
<1>1. f \in FactIds /\ facts[f].key = k /\ facts[f].to = NULL
  BY DEF OpenOf
<1>2. f[1] # c
  BY <1>1, OwnAbsent, TimesAreNat
<1>3. facts[f] \in Facts /\ facts[f].from \in Times
  BY <1>1, TimesAreNat DEF IInv, Typed, Sound, FactsOK
<1> DEFINE to == Min(Closers(c, k, f))
<1>4. to \in Times /\ to \in Closers(c, k, f)
  BY ClosersTyped
<1>5. facts[f].from <= to
  BY <1>4 DEF Closers
<1>6. ClosedFact(c, k, f) = [facts[f] EXCEPT !.to = to]
  BY DEF ClosedFact
<1> HIDE DEF to
<1>7. ClosedFact(c, k, f) \in Facts /\ ClosedFact(c, k, f).key = k
      /\ ClosedFact(c, k, f).from = facts[f].from /\ ClosedFact(c, k, f).to = to
  BY <1>1, <1>3, <1>4, <1>6 DEF Facts
<1> QED BY <1>1, <1>2, <1>3, <1>4, <1>5, <1>6, <1>7

LEMMA Writes ==
  ASSUME IInv, NEW c \in Calls, tx[c].pc = "keys", NEW k \in Keys, NEW o \in writeKey(c, k)
  PROVE  \/ \E f \in OpenOf(k) : /\ Closers(c, k, f) # {} /\ o.id = f
                                 /\ o.fact = ClosedFact(c, k, f)
                                 /\ o = [id |-> f, fact |-> ClosedFact(c, k, f)]
         \/ \E i \in Group(c, k) : /\ o.id = <<c, i>> /\ o.fact = NewRow(c, k, i)
                                   /\ o = [id |-> <<c, i>>, fact |-> NewRow(c, k, i)]
BY WriteKeyIs

(* What is there already.                                                  *)
LEMMA OutKinds ==
  ASSUME IInv, NEW c \in Calls, tx[c].pc # "done", NEW o \in tx[c].out
  PROVE  /\ o.id \in FactIds /\ o.fact \in Facts /\ HasKey(tx[c], o.fact.key)
         /\ o.fact.key \in Keys
         /\ \/ /\ o.id[1] = c /\ facts[o.id] = NoFact /\ facts[o.id].key = NULL
               /\ OwnValue(c, tx[c], o)
            \/ /\ o.id[1] # c /\ facts[o.id].key = o.fact.key /\ facts[o.id].to = NULL
               /\ Closing(facts, o) /\ facts[o.id].prop = o.fact.prop
<1>1. tx[c] \in Transactions
  BY Start
<1>2. o \in [id : FactIds, fact : Facts]
  BY <1>1 DEF Transactions
<1>3. /\ HasKey(tx[c], o.fact.key)
      /\ OwnValue(c, tx[c], o) \/ Closing(facts, o)
  BY DEF IInv, Sound, OutOK
<1>4. o.fact.key \in Keys
  <2>1. tx[c].rows \in Seq(Rows)
    BY <1>1 DEF Transactions
  <2> QED BY <1>3, <2>1, KeysOfRows DEF HasKey
<1>5. CASE OwnValue(c, tx[c], o)
  <2>1. o.id[1] = c
    BY <1>5 DEF OwnValue
  <2>2. facts[o.id] = NoFact /\ facts[o.id].key = NULL
    BY <1>2, <2>1, OwnAbsent
  <2> QED BY <1>2, <1>3, <1>4, <1>5, <2>1, <2>2
<1>6. CASE Closing(facts, o)
  <2>1. PICK to \in Times : facts[o.id].to = NULL /\ o.fact = [facts[o.id] EXCEPT !.to = to]
    BY <1>6 DEF Closing
  <2>2. facts[o.id] \in Facts
    BY <1>2 DEF IInv, Typed
  <2>3. facts[o.id].key = o.fact.key /\ facts[o.id].prop = o.fact.prop
    BY <2>1, <2>2 DEF Facts
  <2>4. o.id[1] # c
    BY <1>2, <1>4, <2>3, OwnAbsent, TimesAreNat
  <2> QED BY <1>2, <1>3, <1>4, <1>6, <2>1, <2>3, <2>4
<1> QED BY <1>3, <1>5, <1>6

LEMMA WroteTyped ==
  ASSUME IInv, NEW c \in Calls, tx[c].pc = "keys", NEW k \in tx[c].left
  PROVE  /\ k \in Keys /\ Wrote(c, k) \in Transactions
         /\ \A o \in Wrote(c, k).out : o.id \in FactIds
<1>1. tx[c] \in Transactions /\ k \in Keys
  BY Start DEF Transactions
<1>2. ASSUME NEW o \in writeKey(c, k)
      PROVE  o \in [id : FactIds, fact : Facts]
  <2>1. CASE \E f \in OpenOf(k) : /\ Closers(c, k, f) # {} /\ o.id = f
                                  /\ o.fact = ClosedFact(c, k, f)
                                  /\ o = [id |-> f, fact |-> ClosedFact(c, k, f)]
    BY <1>1, <2>1, WritesShut
  <2>2. CASE \E i \in Group(c, k) : /\ o.id = <<c, i>> /\ o.fact = NewRow(c, k, i)
                                    /\ o = [id |-> <<c, i>>, fact |-> NewRow(c, k, i)]
    BY <1>1, <2>2, WritesNew
  <2> QED BY <1>1, <2>1, <2>2, Writes
<1>3. tx[c].out \cup writeKey(c, k) \in SUBSET [id : FactIds, fact : Facts]
  BY <1>1, <1>2 DEF Transactions
<1> DEFINE out == tx[c].out \cup writeKey(c, k)
           left == tx[c].left \ {k}
           pc == IF tx[c].left = {k} THEN "commit" ELSE "keys"
<1>4. left \in SUBSET Keys /\ pc \in {"commit", "keys"}
  BY <1>1 DEF Transactions
<1>5. Wrote(c, k) = [tx[c] EXCEPT !.left = left, !.out = out, !.pc = pc]
  BY DEF Wrote
<1>6. out \in SUBSET [id : FactIds, fact : Facts]
  BY <1>3
<1> HIDE DEF out, left, pc
<1>7. Wrote(c, k) \in Transactions /\ Wrote(c, k).out = out
  BY <1>1, <1>4, <1>5, <1>6 DEF Transactions
<1> QED BY <1>1, <1>6, <1>7

LEMMA WroteApart ==
  ASSUME IInv, NEW c \in Calls, tx[c].pc = "keys", NEW k \in tx[c].left,
         NEW o \in tx[c].out, NEW q \in writeKey(c, k)
  PROVE  o.id # q.id /\ o.fact.key # k
<1>1. k \in Keys /\ tx[c].pc # "done"
  BY WroteTyped
<1>2. o.fact.key # k
  <2>1. HasKey(tx[c], o.fact.key)
    BY <1>1, OutKinds
  <2> QED BY <2>1 DEF HasKey
<1>3. ASSUME NEW f \in OpenOf(k), Closers(c, k, f) # {}, q.id = f
      PROVE  o.id # q.id
  <2>1. f[1] # c /\ facts[f].key = k
    BY <1>1, <1>3, WritesShut
  <2> QED BY <1>1, <1>2, <1>3, <2>1, OutKinds
<1>4. ASSUME NEW i \in Group(c, k), q.id = <<c, i>>
      PROVE  o.id # q.id
  <2>1. SUFFICES ASSUME o.id = <<c, i>> PROVE FALSE
    BY <1>4
  <2>2. o.id[1] = c
    BY <2>1
  <2>3. OwnValue(c, tx[c], o)
    BY <1>1, <2>2, OutKinds
  <2>4. PICK j \in DOMAIN tx[c].rows : o.id = <<c, j>> /\ o.fact.key = tx[c].rows[j].key
    BY <2>3 DEF OwnValue
  <2>5. tx[c].rows[i].key = k /\ i = j
    BY <2>1, <2>4 DEF Group
  <2> QED BY <1>2, <2>4, <2>5
<1> QED BY <1>1, <1>2, <1>3, <1>4, Writes

LEMMA WritesOnce ==
  ASSUME IInv, NEW c \in Calls, tx[c].pc = "keys", NEW k \in tx[c].left,
         NEW o \in writeKey(c, k), NEW q \in writeKey(c, k), o.id = q.id
  PROVE  o = q
<1>1. k \in Keys
  BY WroteTyped
<1>2. \A x \in writeKey(c, k) :
        \/ x.id[1] # c /\ x = [id |-> x.id, fact |-> ClosedFact(c, k, x.id)]
        \/ x.id[1] = c /\ x = [id |-> x.id, fact |-> NewRow(c, k, x.id[2])]
  <2>1. SUFFICES ASSUME NEW x \in writeKey(c, k)
                 PROVE  \/ x.id[1] # c /\ x = [id |-> x.id, fact |-> ClosedFact(c, k, x.id)]
                        \/ x.id[1] = c /\ x = [id |-> x.id, fact |-> NewRow(c, k, x.id[2])]
    OBVIOUS
  <2>2. ASSUME NEW f \in OpenOf(k), Closers(c, k, f) # {}, x.id = f,
               x = [id |-> f, fact |-> ClosedFact(c, k, f)]
        PROVE  x.id[1] # c /\ x = [id |-> x.id, fact |-> ClosedFact(c, k, x.id)]
    BY <1>1, <2>2, WritesShut
  <2>3. ASSUME NEW i \in Group(c, k), x.id = <<c, i>>,
               x = [id |-> <<c, i>>, fact |-> NewRow(c, k, i)]
        PROVE  x.id[1] = c /\ x = [id |-> x.id, fact |-> NewRow(c, k, x.id[2])]
    BY <2>3
  <2> QED BY <1>1, <2>2, <2>3, Writes
<1> QED BY <1>2

LEMMA WroteOnce ==
  ASSUME IInv, NEW c \in Calls, tx[c].pc = "keys", NEW k \in tx[c].left,
         NEW o \in Wrote(c, k).out, NEW q \in Wrote(c, k).out, o.id = q.id
  PROVE  o = q
<1>1. \A x, y \in tx[c].out : x.id = y.id => x = y
  BY DEF IInv, Sound, OutOK
<1>2. o \in tx[c].out \cup writeKey(c, k) /\ q \in tx[c].out \cup writeKey(c, k)
  BY WroteIs
<1> QED BY <1>1, <1>2, WroteApart, WritesOnce

LEMMA WroteHas ==
  ASSUME IInv, NEW c \in Calls, tx[c].pc = "keys", NEW k \in tx[c].left, NEW j
  PROVE  HasKey(Wrote(c, k), j) <=> j = k \/ HasKey(tx[c], j)
<1>1. tx[c].left \in SUBSET SingleKeys(tx[c].rows)
  BY Start DEF CourseOK
<1> QED BY <1>1, WroteIs DEF HasKey

LEMMA WroteOutOK ==
  ASSUME IInv, NEW c \in Calls, tx[c].pc = "keys", NEW k \in tx[c].left
  PROVE  OutOK(facts, c, Wrote(c, k))
<1>1. k \in Keys /\ tx[c].pc # "done"
  BY WroteTyped
<1> DEFINE t == Wrote(c, k)
<1>2. t.rows = tx[c].rows /\ t.prop = tx[c].prop /\ t.out = tx[c].out \cup writeKey(c, k)
  BY WroteIs
<1>3. \A j : HasKey(t, j) <=> j = k \/ HasKey(tx[c], j)
  BY WroteHas
<1>4. OutOK(facts, c, tx[c])
  BY DEF IInv, Sound
<1>5. \A o, q \in t.out : o.id = q.id => o = q
  BY WroteOnce
<1> HIDE DEF t
<1>6. ASSUME NEW o \in t.out
      PROVE  /\ HasKey(t, o.fact.key)
             /\ o.fact.from \in Times
             /\ o.fact.to \in Times => o.fact.from <= o.fact.to
             /\ OwnValue(c, t, o) \/ Closing(facts, o)
  <2>1. CASE o \in tx[c].out
    BY <1>2, <1>3, <1>4, <2>1 DEF OutOK, OwnValue
  <2>2. ASSUME NEW f \in OpenOf(k), Closers(c, k, f) # {}, o.id = f,
               o.fact = ClosedFact(c, k, f)
        PROVE  /\ o.fact.key = k /\ o.fact.from \in Times
               /\ o.fact.to \in Times => o.fact.from <= o.fact.to
               /\ Closing(facts, o)
    <3>1. /\ facts[f].to = NULL /\ facts[f].from \in Times
          /\ ClosedFact(c, k, f).key = k /\ ClosedFact(c, k, f).from = facts[f].from
      BY <1>1, <2>2, WritesShut
    <3>2. PICK to \in Times : /\ facts[f].from <= to
                              /\ ClosedFact(c, k, f) = [facts[f] EXCEPT !.to = to]
                              /\ ClosedFact(c, k, f).to = to
      BY <1>1, <2>2, WritesShut
    <3> QED BY <2>2, <3>1, <3>2 DEF Closing
  <2>3. ASSUME NEW i \in Group(c, k), o.id = <<c, i>>, o.fact = NewRow(c, k, i)
        PROVE  /\ o.fact.key = k /\ o.fact.from \in Times
               /\ o.fact.to \in Times => o.fact.from <= o.fact.to
               /\ OwnValue(c, t, o)
    <3>1. /\ startOf(c, i) \in Times
          /\ NewRow(c, k, i).to \in Times => startOf(c, i) <= NewRow(c, k, i).to
      BY <1>1, WritesNew
    <3>2. i \in DOMAIN t.rows /\ ~t.rows[i].many /\ t.rows[i].key = k
      BY <1>2 DEF Group
    <3>3. o.fact.key = k /\ o.fact.from = startOf(c, i) /\ ~o.fact.many
          /\ o.fact.prop = tx[c].prop
      BY <2>3, NewRowIs
    <3> QED BY <1>2, <2>3, <3>1, <3>2, <3>3 DEF OwnValue
  <2>4. CASE o \in writeKey(c, k)
    <3>1. o.fact.key = k /\ o.fact.from \in Times
          /\ (o.fact.to \in Times => o.fact.from <= o.fact.to)
          /\ (OwnValue(c, t, o) \/ Closing(facts, o))
      BY <1>1, <2>2, <2>3, <2>4, Writes
    <3> QED BY <1>3, <3>1
  <2> QED BY <1>2, <2>1, <2>4
<1>7. ASSUME NEW i \in DOMAIN t.rows, ~t.rows[i].many, HasKey(t, t.rows[i].key)
      PROVE  \E o \in t.out : o.id = <<c, i>>
  <2>1. CASE t.rows[i].key = k
    <3>1. i \in Group(c, k)
      BY <1>2, <1>7, <2>1 DEF Group
    <3>2. [id |-> <<c, i>>, fact |-> NewRow(c, k, i)] \in writeKey(c, k)
      BY <3>1, WriteKeyIs
    <3> QED BY <1>2, <3>2
  <2>2. CASE t.rows[i].key # k
    <3>1. HasKey(tx[c], tx[c].rows[i].key)
      BY <1>2, <1>3, <1>7, <2>2
    <3>2. \E o \in tx[c].out : o.id = <<c, i>>
      BY <1>2, <1>4, <1>7, <3>1 DEF OutOK
    <3> QED BY <1>2, <3>2
  <2> QED BY <2>1, <2>2
<1> QED BY <1>5, <1>6, <1>7 DEF OutOK, t

LEMMA WroteIsWritten ==
  ASSUME IInv, NEW c \in Calls, tx[c].pc = "keys", NEW k \in tx[c].left
  PROVE  Written(c, k, Over(facts, Wrote(c, k).out))
<1> DEFINE out == Wrote(c, k).out
           G == Over(facts, out)
<1>1. k \in Keys /\ tx[c].pc # "done" /\ \A o \in out : o.id \in FactIds
  BY WroteTyped
<1>2. \A o, q \in out : o.id = q.id => o = q
  BY WroteOnce
<1>3. out = tx[c].out \cup writeKey(c, k)
  BY WroteIs
<1> HIDE DEF out
<1>4. /\ \A o \in out : G[o.id] = o.fact
      /\ \A f \in FactIds : (\A o \in out : o.id # f) => G[f] = facts[f]
  BY <1>1, <1>2, OverIs
<1> HIDE DEF G
<1>5. ASSUME NEW f \in OpenOf(k), Closers(c, k, f) # {}
      PROVE  G[f] = ClosedFact(c, k, f)
  <2> DEFINE o == [id |-> f, fact |-> ClosedFact(c, k, f)]
  <2>1. o \in writeKey(c, k)
    BY <1>5, WriteKeyIs
  <2>2. o \in out /\ o.id = f /\ o.fact = ClosedFact(c, k, f)
    BY <1>3, <2>1
  <2> QED BY <1>4, <2>2
<1>6. ASSUME NEW i \in Group(c, k)
      PROVE  G[<<c, i>>] = NewRow(c, k, i)
  <2> DEFINE o == [id |-> <<c, i>>, fact |-> NewRow(c, k, i)]
  <2>1. o \in writeKey(c, k)
    BY WriteKeyIs
  <2>2. o \in out /\ o.id = <<c, i>> /\ o.fact = NewRow(c, k, i)
    BY <1>3, <2>1
  <2> QED BY <1>4, <2>2
<1>7. ASSUME NEW f \in FactIds, ~(f \in OpenOf(k) /\ Closers(c, k, f) # {}),
             ~\E i \in Group(c, k) : f = <<c, i>>
      PROVE  G[f] = facts[f] \/ (facts[f].key # k /\ G[f].key # k)
  <2>1. CASE \A o \in out : o.id # f
    BY <1>4, <2>1
  <2>2. CASE \E o \in out : o.id = f
    <3>1. PICK o \in out : o.id = f
      BY <2>2
    <3>2. o \notin writeKey(c, k)
      BY <1>1, <1>7, <3>1, Writes
    <3>3. o \in tx[c].out
      BY <1>3, <3>2
    <3>4. HasKey(tx[c], o.fact.key) /\ o.fact.key \in Keys
          /\ (facts[f].key = o.fact.key \/ facts[f].key = NULL)
      BY <1>1, <3>1, <3>3, OutKinds
    <3>5. o.fact.key # k
      BY <3>4 DEF HasKey
    <3>6. G[f].key # k
      BY <1>4, <3>1, <3>5
    <3> QED BY <1>1, <3>4, <3>5, <3>6, TimesAreNat
  <2> QED BY <2>1, <2>2
<1>8. Written(c, k, G)
  BY <1>5, <1>6, <1>7 DEF Written
<1> QED BY <1>8 DEF G, out

LEMMA WroteGrows ==
  ASSUME IInv, NEW c \in Calls, tx[c].pc = "keys", NEW k \in tx[c].left,
         NEW j \in Keys, HasKey(tx[c], j)
  PROVE  Grows(j, Over(facts, tx[c].out), Over(facts, Wrote(c, k).out))
<1> DEFINE out == tx[c].out
           all == Wrote(c, k).out
           F == Over(facts, out)
           G == Over(facts, all)
<1>1. k \in Keys /\ tx[c].pc # "done" /\ \A o \in all : o.id \in FactIds
  BY WroteTyped
<1>2. (\A o, q \in all : o.id = q.id => o = q) /\ all = out \cup writeKey(c, k)
  BY WroteOnce, WroteIs
<1>3. j # k
  BY DEF HasKey
<1>4. \A o \in out, q \in writeKey(c, k) : o.id # q.id
  BY WroteApart
<1> HIDE DEF all
<1>5. /\ \A o \in all : G[o.id] = o.fact
      /\ \A f \in FactIds : (\A o \in all : o.id # f) => G[f] = facts[f]
  BY <1>1, <1>2, OverIs
<1>6. /\ \A o \in out : F[o.id] = o.fact
      /\ \A f \in FactIds : (\A o \in out : o.id # f) => F[f] = facts[f]
  BY <1>1, <1>2, OverIs
<1> HIDE DEF F, G, out
<1>7. SUFFICES ASSUME NEW f \in FactIds, G[f] # F[f]
               PROVE  F[f].key # j /\ G[f].key # j
  BY DEF Grows, F, G, out, all
<1>8. PICK o \in writeKey(c, k) : o.id = f
  BY <1>2, <1>5, <1>6, <1>7
<1>9. F[f] = facts[f] /\ G[f] = o.fact
  BY <1>2, <1>4, <1>5, <1>6, <1>8
<1>10. facts[f].key # j /\ o.fact.key = k
  <2>1. ASSUME NEW g \in OpenOf(k), Closers(c, k, g) # {}, o.id = g,
               o.fact = ClosedFact(c, k, g)
        PROVE  facts[f].key # j /\ o.fact.key = k
    BY <1>1, <1>3, <1>8, <2>1, WritesShut
  <2>2. ASSUME NEW i \in Group(c, k), o.id = <<c, i>>, o.fact = NewRow(c, k, i)
        PROVE  facts[f].key # j /\ o.fact.key = k
    <3>1. facts[f].key = NULL
      BY <1>1, <1>8, <2>2, OwnAbsent
    <3> QED BY <2>2, <3>1, NewRowIs, TimesAreNat
  <2> QED BY <1>1, <2>1, <2>2, Writes
<1> QED BY <1>3, <1>9, <1>10

LEMMA WroteTimelines ==
  ASSUME IInv, NEW c \in Calls, tx[c].pc = "keys", NEW k \in tx[c].left,
         NEW j \in Keys, HasKey(Wrote(c, k), j)
  PROVE  Timeline(Over(facts, Wrote(c, k).out), j)
<1>1. k \in Keys /\ tx[c].pc # "done"
  BY WroteTyped
<1>2. CASE j = k
  <2>1. Group(c, k) # {}
    <3>1. k \in SingleKeys(tx[c].rows)
      BY Start DEF CourseOK
    <3> QED BY <3>1 DEF SingleKeys, Group
  <2> QED BY <1>1, <1>2, <2>1, WroteIsWritten, WrittenTimeline
<1>3. CASE j # k
  <2>1. HasKey(tx[c], j)
    BY <1>3, WroteHas
  <2>2. Timeline(Over(facts, tx[c].out), j)
    BY <2>1 DEF IInv, Sound, TimelinesOK
  <2> QED BY <2>1, <2>2, WroteGrows, GrowsKeeps
<1> QED BY <1>2, <1>3

LEMMA WroteCourse ==
  ASSUME IInv, NEW c \in Calls, tx[c].pc = "keys", NEW k \in tx[c].left,
         \A n \in tx[c].left : k <= n
  PROVE  CourseOK(Wrote(c, k))
<1>1. tx[c] \in Transactions /\ CourseOK(tx[c])
  BY Start
<1> DEFINE t == Wrote(c, k)
<1>2. /\ t.left = tx[c].left \ {k} /\ t.pc = IF tx[c].left = {k} THEN "commit" ELSE "keys"
      /\ t.op = tx[c].op /\ t.of = tx[c].of /\ t.hash = tx[c].hash
      /\ t.state = tx[c].state /\ t.prop = tx[c].prop /\ t.rows = tx[c].rows
  BY WroteIs
<1> HIDE DEF t
<1>3. /\ tx[c].op = "create" => CreateOK(t)
      /\ tx[c].op = "revise" => ReviseOK(t)
      /\ tx[c].op = "apply" => ApplyOK(t)
  <2>1. tx[c].op # "revise"
    BY <1>1 DEF CourseOK, ReviseOK
  <2>2. tx[c].op = "create" => CreateOK(t)
    BY <1>1, <1>2 DEF CourseOK, CreateOK
  <2>3. tx[c].op = "apply" => ApplyOK(t)
    BY <1>1, <1>2 DEF CourseOK, ApplyOK
  <2> QED BY <2>1, <2>2, <2>3
<1>4. tx[c].op \in {"create", "revise", "apply"}
  BY <1>1 DEF CourseOK
<1>5. t.pc = "keys" <=> t.left # {} /\ t.pc \in {"keys", "commit"}
  BY <1>2
<1>6. \A x \in SingleKeys(t.rows) \ t.left, n \in t.left : x < n
  <2>1. SUFFICES ASSUME NEW x \in SingleKeys(t.rows) \ t.left, NEW n \in t.left
                 PROVE  x < n
    OBVIOUS
  <2>2. n \in tx[c].left /\ n # k
    BY <1>2
  <2>3. CASE x = k
    <3>1. k \in Nat /\ n \in Nat
      BY <1>1, <2>2, MemoryWritesAssumption DEF Transactions
    <3> QED BY <2>2, <2>3, <3>1
  <2>4. CASE x # k
    BY <1>1, <1>2, <2>2, <2>4 DEF CourseOK
  <2> QED BY <2>3, <2>4
<1>7. t.left \in SUBSET SingleKeys(t.rows) /\ Len(t.rows) <= MaxRows
      /\ (t.op \in {"create", "revise"} => t.hash \in Hashes)
  BY <1>1, <1>2 DEF CourseOK
<1>8. t.pc \in {"keys", "commit"}
  BY <1>2
<1>9. CourseOK(t)
  BY <1>2, <1>3, <1>4, <1>5, <1>6, <1>7, <1>8 DEF CourseOK
<1> QED BY <1>9 DEF t

LEMMA WriteKeyOK ==
  ASSUME IInv, NEW c \in Calls, WriteKey(c)
  PROVE  IInv'
<1>1. /\ tx[c] \in Transactions /\ CourseOK(tx[c])
      /\ Had(limit, mem, prop, tx, revived, c)
      /\ tx[c].pc = "keys" /\ Waiting
  BY Start DEF WriteKey
<1>2. tx[c].left # {} /\ tx[c].left \in SUBSET Nat
  BY <1>1, MemoryWritesAssumption DEF CourseOK, Transactions
<1> DEFINE k == Min(tx[c].left)
<1>3. nextKeys(c) = {k}
  BY <1>2 DEF nextKeys, inOrder
<1>4. tx' = [tx EXCEPT ![c] = Wrote(c, k)]
  BY <1>3 DEF WriteKey, Become, Wrote
<1>5. k \in tx[c].left /\ \A n \in tx[c].left : k <= n
  BY <1>2, MinIsLeast
<1>6. \A d \in Calls \ {c} : ~HasKey(tx[d], k)
  <2>1. keyLock(c, k) = {}
    BY <1>1, <1>3 DEF WriteKey, Free, WaitsFor
  <2> QED BY <2>1, HoldsIs DEF keyLock, keyHolders, Others
<1> HIDE DEF k
<1>7. k \in Keys /\ Wrote(c, k) \in Transactions
  BY <1>1, <1>5, WroteTyped
<1> DEFINE t == Wrote(c, k)
<1>8. /\ t.pc \in {"keys", "commit"} /\ t.op = tx[c].op /\ t.of = tx[c].of
      /\ t.state = tx[c].state /\ t.prop = tx[c].prop
  BY WroteIs
<1>9. \A j : HasKey(t, j) <=> j = k \/ HasKey(tx[c], j)
  BY <1>1, <1>5, WroteHas
<1>10. CourseOK(t) /\ OutOK(facts, c, t)
  BY <1>1, <1>5, WroteCourse, WroteOutOK
<1>11. \A j \in Keys : HasKey(t, j) => Timeline(Over(facts, t.out), j)
  BY <1>1, <1>5, WroteTimelines
<1> HIDE DEF t
<1>12. /\ HasQuota(limit, t) => HasQuota(limit, tx[c])
       /\ \A m : HasRow(t, m) => HasRow(tx[c], m)
       /\ \A m : HasShare(t, m) => HasShare(tx[c], m)
       /\ \A p : HasProposal(t, p) => HasProposal(tx[c], p)
  <2>1. tx[c].op # "revise"
    BY <1>1 DEF CourseOK, ReviseOK
  <2> QED BY <1>1, <1>8, <2>1 DEF HasQuota, HasRow, HasShare, HasProposal
<1>13. Apart(limit, tx, c, t)
  BY <1>1, <1>6, <1>9, <1>12 DEF Had, Apart
<1>14. Means(mem, prop, t)
  BY <1>1, <1>8, <1>12 DEF Had, Means
<1>15. Counts(limit, mem, revived, t) /\ Queues(mem, tx, c, t)
  BY <1>1, <1>8, <1>12 DEF Had, Counts, Queues
<1>16. tx \in [Calls -> Transactions] /\ Sound(limit, mem, facts, prop, tx, revived)
  BY DEF IInv, Typed
<1>17. t \in Transactions /\ tx' = [tx EXCEPT ![c] = t]
  BY <1>4, <1>7 DEF t
<1>18. Sound(limit, mem, facts, prop, [tx EXCEPT ![c] = t], revived)
  BY <1>1, <1>10, <1>11, <1>13, <1>14, <1>15, <1>16, <1>17, OwnStep
<1> QED BY <1>1, <1>17, <1>18, OwnPreserves

-----------------------------------------------------------------------------
(* What a commit does to the facts, and to those who are still writing.    *)

LEMMA HeldKeys ==
  ASSUME IInv, NEW c \in Calls, NEW j, HasKey(tx[c], j)
  PROVE  j \in Keys /\ j # NULL
<1>1. tx[c].rows \in Seq(Rows)
  BY Start DEF Transactions
<1>2. j \in Keys
  BY <1>1, KeysOfRows DEF HasKey
<1> QED BY <1>2, TimesAreNat

(* G is what the facts are once c has published: its own, what it closes   *)
(* of the keys that it holds, nothing else.                                *)
Publishes(c, G) ==
  /\ \A f \in FactIds :
       \/ G[f] = facts[f]
       \/ f[1] = c /\ facts[f] = NoFact
       \/ f[1] # c /\ HasKey(tx[c], facts[f].key)
  /\ \A j \in Keys : HasKey(tx[c], j) \/ Grows(j, facts, G)

LEMMA OthersKeep ==
  ASSUME IInv, NEW c \in Calls, NEW G, Publishes(c, G),
         NEW d \in Calls, d # c, tx[d].pc # "done"
  PROVE  /\ OutOK(G, d, tx[d])
         /\ \A f \in FactIds : f[1] = d => G[f] = NoFact
         /\ \A j \in Keys : HasKey(tx[d], j) => Timeline(Over(G, tx[d].out), j)
<1>1. \A j : HasKey(tx[d], j) => j \in Keys /\ ~HasKey(tx[c], j)
  BY HeldKeys DEF IInv, Sound, LocksApart
<1>2. \A f \in FactIds : HasKey(tx[d], facts[f].key) => G[f] = facts[f]
  <2>1. NoFact.key = NULL
    BY DEF NoFact
  <2> QED BY <1>1, <2>1, HeldKeys DEF Publishes
<1>3. OutOK(facts, d, tx[d])
  BY DEF IInv, Sound
<1>4. ASSUME NEW o \in tx[d].out
      PROVE  OwnValue(d, tx[d], o) \/ (Closing(G, o) /\ G[o.id] = facts[o.id])
  <2>1. CASE OwnValue(d, tx[d], o)
    BY <2>1
  <2>2. CASE ~OwnValue(d, tx[d], o)
    <3>1. /\ o.id \in FactIds /\ HasKey(tx[d], o.fact.key)
          /\ facts[o.id].key = o.fact.key /\ Closing(facts, o)
      BY <2>2, OutKinds
    <3>2. G[o.id] = facts[o.id]
      BY <1>2, <3>1
    <3> QED BY <3>1, <3>2 DEF Closing
  <2> QED BY <2>1, <2>2
<1>5. OutOK(G, d, tx[d])
  BY <1>3, <1>4 DEF OutOK
<1>6. ASSUME NEW f \in FactIds, f[1] = d
      PROVE  G[f] = NoFact
  <2>1. facts[f] = NoFact /\ facts[f].key = NULL
    BY <1>6, OwnAbsent
  <2>2. ~HasKey(tx[c], facts[f].key)
    BY <2>1, HeldKeys
  <2> QED BY <1>6, <2>1, <2>2 DEF Publishes
<1>7. ASSUME NEW j \in Keys, HasKey(tx[d], j)
      PROVE  Timeline(Over(G, tx[d].out), j)
  <2> DEFINE out == tx[d].out
  <2>1. Grows(j, facts, G)
    BY <1>1, <1>7 DEF Publishes
  <2>2. (\A o \in out : o.id \in FactIds) /\ (\A o, q \in out : o.id = q.id => o = q)
    BY <1>3, OutKinds DEF OutOK
  <2> HIDE DEF out
  <2>3. Grows(j, Over(facts, out), Over(G, out))
    <3>1. SUFFICES ASSUME NEW f \in FactIds
                   PROVE  \/ Over(G, out)[f] = Over(facts, out)[f]
                          \/ /\ Over(facts, out)[f].key # j
                             /\ \/ Over(G, out)[f].key # j
                                \/ Over(G, out)[f].many /\ Over(G, out)[f].to = NULL
      BY DEF Grows
    <3>2. CASE \E o \in out : o.id = f
      BY <2>2, <3>2, OverIs
    <3>3. CASE \A o \in out : o.id # f
      <4>1. Over(facts, out)[f] = facts[f] /\ Over(G, out)[f] = G[f]
        BY <2>2, <3>3, OverIs
      <4> QED BY <2>1, <4>1 DEF Grows
    <3> QED BY <3>2, <3>3
  <2>4. Timeline(Over(facts, out), j)
    BY <1>7 DEF IInv, Sound, TimelinesOK, out
  <2>5. Timeline(Over(G, out), j)
    BY <2>3, <2>4, GrowsKeeps
  <2> QED BY <2>5 DEF out
<1> QED BY <1>5, <1>6, <1>7

(* A call that is over has nothing left to say.                            *)
LEMMA DoneKeep ==
  ASSUME NEW G, NEW d \in Calls, NEW t \in Transactions, CourseOK(t), t.pc = "done"
  PROVE  OutOK(G, d, t) /\ \A j : ~HasKey(t, j)
<1>1. t.out = {} /\ t.rows = <<>>
  BY DEF CourseOK
<1>2. \A j : ~HasKey(t, j)
  BY DEF HasKey
<1> QED BY <1>1, <1>2 DEF OutOK

FactsKept(c, G, T2) ==
  /\ \A d \in Calls : CourseOK(T2[d])
  /\ \A d \in Calls : OutOK(G, d, T2[d])
  /\ \A d \in Calls : T2[d].pc # "done" =>
       d # c /\ T2[d] = tx[d] /\ \A f \in FactIds : f[1] = d => G[f] = NoFact
  /\ LocksApart(limit, T2)
  /\ TimelinesOK(G, T2)

LEMMA PublishFacts ==
  ASSUME IInv, NEW c \in Calls, NEW G, Publishes(c, G), \A j \in Keys : Timeline(G, j),
         NEW T2, T2 = [tx EXCEPT ![c] = Ended]
  PROVE  FactsKept(c, G, T2)
<1>1. tx \in [Calls -> Transactions] /\ Sound(limit, mem, facts, prop, tx, revived)
  BY DEF IInv, Typed
<1>2. Sound(limit, mem, facts, prop, T2, revived)
  BY <1>1, EndStep
<1>3. T2[c] = Ended /\ \A d \in Calls : d # c => T2[d] = tx[d]
  BY <1>1
<1>4. (\A d \in Calls : CourseOK(T2[d])) /\ LocksApart(limit, T2)
  BY <1>2 DEF Sound
<1>5. \A d \in Calls : T2[d].pc # "done" => d # c /\ T2[d] = tx[d]
  BY <1>3, EndedIs
<1>6. \A d \in Calls : T2[d] \in Transactions
  BY <1>1, <1>3, EndedIs
<1>7. ASSUME NEW d \in Calls
      PROVE  OutOK(G, d, T2[d]) /\ \A j \in Keys : HasKey(T2[d], j) => Timeline(Over(G, T2[d].out), j)
  <2>1. CASE T2[d].pc = "done"
    BY <1>4, <1>6, <2>1, DoneKeep
  <2>2. CASE T2[d].pc # "done"
    BY <1>5, <2>2, OthersKeep
  <2> QED BY <2>1, <2>2
<1>8. \A d \in Calls : T2[d].pc # "done" => \A f \in FactIds : f[1] = d => G[f] = NoFact
  BY <1>5, OthersKeep
<1>9. TimelinesOK(G, T2)
  BY <1>7 DEF TimelinesOK
<1> QED BY <1>4, <1>5, <1>7, <1>8, <1>9 DEF FactsKept

LEMMA PublishedIs ==
  ASSUME NEW out
  PROVE  Published(out) = Over(facts, out)
BY DEF Published, Over

LEMMA ImportFactOK ==
  ASSUME IInv, NEW c \in Calls, NEW k \in Keys, NEW from \in Times, ImportFact(c, k, from)
  PROVE  IInv'
<1> DEFINE row == [key |-> k, from |-> from, to |-> NULL, many |-> TRUE, prop |-> NULL]
           one == [id |-> <<c, 1>>, fact |-> row]
           new == <<c, 1>>
<1>1. /\ tx[c].pc = "idle" /\ facts' = Over(facts, {one})
      /\ tx' = [tx EXCEPT ![c] = Ended]
      /\ UNCHANGED <<limit, clock, mem, prop, revived>>
  BY PublishedIs DEF ImportFact, End, Become, Ended
<1>2. new \in FactIds /\ new[1] = c
  <2>1. MaxRows \in Nat /\ 1 <= MaxRows
    BY MemoryWritesAssumption
  <2> QED BY <2>1 DEF FactIds
<1>3. row \in Facts /\ row.key = k /\ row.many /\ row.to = NULL /\ row.prop = NULL
      /\ row.from = from
  BY DEF Facts
<1>4. facts'[new] = row /\ \A f \in FactIds : f # new => facts'[f] = facts[f]
  <2>1. \A o \in {one} : o.id = new /\ o.fact = row
    OBVIOUS
  <2>2. /\ \A o \in {one} : o.id \in FactIds
        /\ \A o, q \in {one} : o.id = q.id => o = q
    BY <1>2, <2>1
  <2>3. /\ \A o \in {one} : Over(facts, {one})[o.id] = o.fact
        /\ \A f \in FactIds : (\A o \in {one} : o.id # f) => Over(facts, {one})[f] = facts[f]
    BY <2>2, OverIs
  <2> QED BY <1>1, <2>1, <2>3
<1>5. facts[new] = NoFact /\ facts[new].key = NULL
  BY <1>1, <1>2, OwnAbsent
<1> HIDE DEF row, new
<1>6. facts' \in [FactIds -> Facts]
  <2>1. \A f \in FactIds : facts'[f] \in Facts
    BY <1>3, <1>4 DEF IInv, Typed
  <2>2. facts' = [f \in FactIds |-> facts'[f]]
    BY <1>1 DEF Over
  <2> QED BY <2>1, <2>2
<1>7. \A j : ~HasKey(tx[c], j)
  BY <1>1 DEF HasKey
<1>8. \A j \in Keys : Grows(j, facts, facts')
  BY <1>3, <1>4, <1>5, TimesAreNat DEF Grows
<1>9. Publishes(c, facts')
  BY <1>2, <1>4, <1>5, <1>8 DEF Publishes
<1>10. \A j \in Keys : Timeline(facts', j)
  <2>1. \A j \in Keys : Timeline(facts, j)
    BY DEF IInv, Sound, TimelinesOK
  <2> QED BY <1>8, <2>1, GrowsKeeps
<1>11. FactsKept(c, facts', tx')
  <2>1. PICK G, T2 : G = facts' /\ T2 = tx'
    OBVIOUS
  <2>2. Publishes(c, G) /\ (\A j \in Keys : Timeline(G, j)) /\ T2 = [tx EXCEPT ![c] = Ended]
    BY <1>1, <1>9, <1>10, <2>1
  <2>3. FactsKept(c, G, T2)
    BY <2>2, PublishFacts
  <2> QED BY <2>1, <2>3
<1>12. tx \in [Calls -> Transactions] /\ Sound(limit, mem, facts, prop, tx, revived)
  BY DEF IInv, Typed
<1>13. Sound(limit, mem, facts, prop, tx', revived)
  BY <1>1, <1>12, EndStep
<1>14. FactsOK(facts')
  <2>1. FactsOK(facts)
    BY DEF IInv, Sound
  <2>2. k # NULL /\ NULL \notin Times
    BY TimesAreNat
  <2> QED BY <1>3, <1>4, <2>1, <2>2 DEF FactsOK
<1>15. Unborn(mem, facts', tx')
  BY <1>11, <1>12 DEF Unborn, Sound, FactsKept
<1>16. AppliedOnce(facts', prop)
  <2>1. facts[new].prop = NULL /\ facts'[new].prop = NULL
    BY <1>3, <1>4, <1>5 DEF NoFact
  <2>2. \A f \in FactIds : facts'[f].prop = facts[f].prop
    BY <1>4, <2>1
  <2> QED BY <1>12, <2>2 DEF Sound, AppliedOnce
<1>17. Sound(limit, mem, facts', prop, tx', revived)
  BY <1>11, <1>13, <1>14, <1>15, <1>16 DEF Sound, FactsKept
<1>18. tx' \in [Calls -> Transactions]
  BY <1>1, <1>12, EndedIs
<1>19. Typed'
  BY <1>1, <1>6, <1>18 DEF IInv, Typed
<1> QED BY <1>1, <1>17, <1>19 DEF IInv

-----------------------------------------------------------------------------
(* The facts of a commit.                                                  *)

PlainRow(c, o) ==
  \E i \in DOMAIN tx[c].rows :
    /\ tx[c].rows[i].many
    /\ o.id = <<c, i>>
    /\ o = [id |-> <<c, i>>,
            fact |-> [ key |-> tx[c].rows[i].key, from |-> startOf(c, i), to |-> NULL,
                       many |-> TRUE, prop |-> NULL ]]

LEMMA PlainIs ==
  ASSUME IInv, NEW c \in Calls, tx[c].pc # "done", NEW o \in plainRows(c)
  PROVE  /\ PlainRow(c, o)
         /\ o.id \in FactIds /\ o.id[1] = c /\ facts[o.id] = NoFact
         /\ facts[o.id].key = NULL /\ facts[o.id].prop = NULL
         /\ o.fact \in Facts /\ o.fact.many /\ o.fact.to = NULL /\ o.fact.prop = NULL
         /\ o.fact.key \in Keys /\ o.fact.from \in Times
<1>1. PICK i \in DOMAIN tx[c].rows :
        /\ tx[c].rows[i].many
        /\ o = [id |-> <<c, i>>,
                fact |-> [ key |-> tx[c].rows[i].key, from |-> startOf(c, i), to |-> NULL,
                           many |-> TRUE, prop |-> NULL ]]
  BY DEF plainRows
<1>2. tx[c].rows[i].key \in Keys /\ startOf(c, i) \in Times /\ <<c, i>> \in FactIds
  BY RowsTyped DEF Rows, FactIds
<1>3. o.id = <<c, i>> /\ o.id \in FactIds /\ o.id[1] = c
  BY <1>1, <1>2
<1>4. PlainRow(c, o)
  BY <1>1, <1>3 DEF PlainRow
<1>5. facts[o.id] = NoFact /\ facts[o.id].key = NULL
  BY <1>3, OwnAbsent
<1>6. facts[o.id].prop = NULL
  BY <1>5 DEF NoFact
<1>7. /\ o.fact \in Facts /\ o.fact.many /\ o.fact.to = NULL /\ o.fact.prop = NULL
      /\ o.fact.key \in Keys /\ o.fact.from \in Times
  BY <1>1, <1>2 DEF Facts
<1> QED BY <1>3, <1>4, <1>5, <1>6, <1>7

LEMMA PlainApart ==
  ASSUME IInv, NEW c \in Calls, tx[c].pc # "done",
         NEW o \in tx[c].out, NEW q \in plainRows(c)
  PROVE  o.id # q.id
<1>1. SUFFICES ASSUME o.id = q.id PROVE FALSE
  OBVIOUS
<1>2. PICK i \in DOMAIN tx[c].rows : tx[c].rows[i].many /\ q.id = <<c, i>>
  BY PlainIs DEF PlainRow
<1>3. o.id[1] = c
  BY <1>1, <1>2
<1>4. OwnValue(c, tx[c], o)
  BY <1>3, OutKinds
<1>5. PICK j \in DOMAIN tx[c].rows : o.id = <<c, j>> /\ ~tx[c].rows[j].many
  BY <1>4 DEF OwnValue
<1> QED BY <1>1, <1>2, <1>5

CommitOut(c) == tx[c].out \cup plainRows(c)

LEMMA CommitOutIs ==
  ASSUME IInv, NEW c \in Calls, tx[c].pc # "done"
  PROVE  /\ \A o \in CommitOut(c) :
              /\ o.id \in FactIds /\ o.fact \in Facts
              /\ o \in tx[c].out \/ o \in plainRows(c)
              /\ Over(facts, CommitOut(c))[o.id] = o.fact
         /\ \A f \in FactIds : (\A o \in CommitOut(c) : o.id # f) =>
              Over(facts, CommitOut(c))[f] = facts[f]
         /\ \A f \in FactIds : \A o \in tx[c].out :
              o.id = f => Over(facts, tx[c].out)[f] = o.fact
         /\ \A f \in FactIds : (\A o \in tx[c].out : o.id # f) =>
              Over(facts, tx[c].out)[f] = facts[f]
<1>1. \A o, q \in tx[c].out : o.id = q.id => o = q
  BY DEF IInv, Sound, OutOK
<1>2. \A o, q \in plainRows(c) : o.id = q.id => o = q
  <2>1. SUFFICES ASSUME NEW o \in plainRows(c), NEW q \in plainRows(c), o.id = q.id
                 PROVE  o = q
    OBVIOUS
  <2>2. PlainRow(c, o) /\ PlainRow(c, q)
    BY PlainIs
  <2> DEFINE plain(i) ==
        [id |-> <<c, i>>,
         fact |-> [ key |-> tx[c].rows[i].key, from |-> startOf(c, i), to |-> NULL,
                    many |-> TRUE, prop |-> NULL ]]
  <2>3. PICK i \in DOMAIN tx[c].rows : o.id = <<c, i>> /\ o = plain(i)
    BY <2>2 DEF PlainRow
  <2>4. PICK j \in DOMAIN tx[c].rows : q.id = <<c, j>> /\ q = plain(j)
    BY <2>2 DEF PlainRow
  <2> HIDE DEF plain
  <2>5. i = j
    <3>1. o.id[2] = i
      BY <2>3
    <3>2. q.id[2] = j
      BY <2>4
    <3> QED BY <2>1, <3>1, <3>2
  <2> QED BY <2>3, <2>4, <2>5
<1>3. \A o, q \in CommitOut(c) : o.id = q.id => o = q
  BY <1>1, <1>2, PlainApart DEF CommitOut
<1>4. \A o \in CommitOut(c) : /\ o.id \in FactIds /\ o.fact \in Facts
                              /\ o \in tx[c].out \/ o \in plainRows(c)
  BY OutKinds, PlainIs DEF CommitOut
<1>5. /\ \A o \in CommitOut(c) : Over(facts, CommitOut(c))[o.id] = o.fact
      /\ \A f \in FactIds : (\A o \in CommitOut(c) : o.id # f) =>
           Over(facts, CommitOut(c))[f] = facts[f]
  BY <1>3, <1>4, OverIs
<1>6. \A o \in tx[c].out : o.id \in FactIds
  BY OutKinds
<1>7. /\ \A o \in tx[c].out : Over(facts, tx[c].out)[o.id] = o.fact
      /\ \A f \in FactIds : (\A o \in tx[c].out : o.id # f) =>
           Over(facts, tx[c].out)[f] = facts[f]
  BY <1>1, <1>6, OverIs
<1> QED BY <1>4, <1>5, <1>7

LEMMA CommitPublishes ==
  ASSUME IInv, NEW c \in Calls, tx[c].pc = "commit"
  PROVE  Publishes(c, Over(facts, CommitOut(c)))
<1> DEFINE G == Over(facts, CommitOut(c))
<1>1. /\ \A o \in CommitOut(c) : /\ o \in tx[c].out \/ o \in plainRows(c)
                                 /\ G[o.id] = o.fact
      /\ \A f \in FactIds : (\A o \in CommitOut(c) : o.id # f) => G[f] = facts[f]
  BY CommitOutIs
<1> HIDE DEF G
<1>2. ASSUME NEW f \in FactIds, G[f] # facts[f]
      PROVE  \/ /\ f[1] = c /\ facts[f] = NoFact /\ facts[f].key = NULL
                /\ HasKey(tx[c], G[f].key) \/ (G[f].many /\ G[f].to = NULL)
             \/ f[1] # c /\ HasKey(tx[c], facts[f].key) /\ G[f].key = facts[f].key
  <2>1. PICK o \in CommitOut(c) : o.id = f /\ G[f] = o.fact
    BY <1>1, <1>2
  <2>2. CASE o \in tx[c].out
    BY <2>1, <2>2, OutKinds
  <2>3. CASE o \in plainRows(c)
    BY <2>1, <2>3, PlainIs
  <2> QED BY <1>1, <2>2, <2>3
<1>3. \A f \in FactIds : \/ G[f] = facts[f]
                         \/ f[1] = c /\ facts[f] = NoFact
                         \/ f[1] # c /\ HasKey(tx[c], facts[f].key)
  BY <1>2
<1>4. ASSUME NEW j \in Keys, ~HasKey(tx[c], j)
      PROVE  Grows(j, facts, G)
  BY <1>2, <1>4, TimesAreNat DEF Grows
<1>5. Publishes(c, G)
  BY <1>3, <1>4 DEF Publishes
<1> QED BY <1>5 DEF G

LEMMA CommitTimelines ==
  ASSUME IInv, NEW c \in Calls, tx[c].pc = "commit", NEW j \in Keys
  PROVE  Timeline(Over(facts, CommitOut(c)), j)
<1> DEFINE G == Over(facts, CommitOut(c))
           F == Over(facts, tx[c].out)
<1>1. Publishes(c, G)
  BY CommitPublishes
<1>2. CASE ~HasKey(tx[c], j)
  <2>1. Grows(j, facts, G)
    BY <1>1, <1>2 DEF Publishes
  <2>2. Timeline(facts, j)
    BY DEF IInv, Sound, TimelinesOK
  <2> QED BY <2>1, <2>2, GrowsKeeps
<1>3. CASE HasKey(tx[c], j)
  <2>1. Timeline(F, j)
    BY <1>3 DEF IInv, Sound, TimelinesOK
  <2>2. /\ \A o \in CommitOut(c) : /\ o \in tx[c].out \/ o \in plainRows(c)
                                   /\ G[o.id] = o.fact
        /\ \A f \in FactIds : (\A o \in CommitOut(c) : o.id # f) => G[f] = facts[f]
        /\ \A f \in FactIds, o \in tx[c].out : o.id = f => F[f] = o.fact
        /\ \A f \in FactIds : (\A o \in tx[c].out : o.id # f) => F[f] = facts[f]
    BY CommitOutIs
  <2> HIDE DEF F, G
  <2>3. SUFFICES ASSUME NEW f \in FactIds, G[f] # F[f]
                 PROVE  F[f].key # j /\ G[f].many /\ G[f].to = NULL
    BY <2>1, GrowsKeeps DEF Grows, F, G
  <2>4. \A o \in tx[c].out : o \in CommitOut(c)
    BY DEF CommitOut
  <2>5. \A o \in tx[c].out : o.id # f
    BY <2>2, <2>3, <2>4
  <2>6. F[f] = facts[f] /\ G[f] # facts[f]
    BY <2>2, <2>3, <2>5
  <2>7. PICK o \in plainRows(c) : o.id = f /\ G[f] = o.fact
    BY <2>2, <2>5, <2>6
  <2> QED BY <2>6, <2>7, PlainIs, TimesAreNat
<1> QED BY <1>2, <1>3

LEMMA CommitFactsOK ==
  ASSUME IInv, NEW c \in Calls, tx[c].pc = "commit"
  PROVE  /\ FactsOK(Over(facts, CommitOut(c)))
         /\ Over(facts, CommitOut(c)) \in [FactIds -> Facts]
<1> DEFINE G == Over(facts, CommitOut(c))
<1>1. /\ \A o \in CommitOut(c) : /\ o \in tx[c].out \/ o \in plainRows(c)
                                 /\ o.fact \in Facts /\ G[o.id] = o.fact
      /\ \A f \in FactIds : (\A o \in CommitOut(c) : o.id # f) => G[f] = facts[f]
  BY CommitOutIs
<1>2. G = [f \in FactIds |-> G[f]]
  BY DEF Over
<1> HIDE DEF G
<1>3. ASSUME NEW f \in FactIds
      PROVE  /\ G[f] \in Facts
             /\ G[f].key = NULL => G[f] = NoFact
             /\ G[f].key # NULL => G[f].from \in Times
             /\ G[f].to \in Times => G[f].from <= G[f].to
  <2>1. CASE \A o \in CommitOut(c) : o.id # f
    BY <1>1, <2>1 DEF IInv, Typed, Sound, FactsOK
  <2>2. CASE \E o \in CommitOut(c) : o.id = f
    <3>1. PICK o \in CommitOut(c) : o.id = f
      BY <2>2
    <3>2. G[f] = o.fact /\ o.fact \in Facts
      BY <1>1, <3>1
    <3>3. /\ o.fact.key \in Keys /\ o.fact.from \in Times
          /\ o.fact.to \in Times => o.fact.from <= o.fact.to
      <4>1. CASE o \in tx[c].out
        BY <4>1, OutKinds DEF IInv, Sound, OutOK
      <4>2. CASE o \in plainRows(c)
        BY <4>2, PlainIs, TimesAreNat
      <4> QED BY <1>1, <4>1, <4>2
    <3> QED BY <3>2, <3>3, TimesAreNat
  <2> QED BY <2>1, <2>2
<1>4. FactsOK(G)
  BY <1>3 DEF FactsOK
<1>5. G \in [FactIds -> Facts]
  BY <1>2, <1>3
<1> QED BY <1>4, <1>5 DEF G

(* A fact comes with a proposal only from the call that applies it, and    *)
(* that call brings one row.                                               *)
LEMMA CommitApplied ==
  ASSUME IInv, NEW c \in Calls, tx[c].pc = "commit", NEW Q,
         tx[c].op # "apply" => Q = prop,
         tx[c].op = "apply" =>
           /\ Q[tx[c].prop].status = "applied"
           /\ \A p \in Proposals : p # tx[c].prop => Q[p] = prop[p]
  PROVE  AppliedOnce(Over(facts, CommitOut(c)), Q)
<1> DEFINE G == Over(facts, CommitOut(c))
<1>1. /\ \A o \in CommitOut(c) : /\ o \in tx[c].out \/ o \in plainRows(c)
                                 /\ o.id \in FactIds /\ G[o.id] = o.fact
      /\ \A f \in FactIds : (\A o \in CommitOut(c) : o.id # f) => G[f] = facts[f]
  BY CommitOutIs
<1>2. /\ \A o \in tx[c].out : o \in CommitOut(c)
      /\ tx[c] \in Transactions /\ CourseOK(tx[c])
      /\ AppliedOnce(facts, prop) /\ facts \in [FactIds -> Facts]
  BY Start DEF CommitOut, IInv, Sound, Typed
<1>3. NoFact.prop = NULL /\ NULL \notin Proposals
  BY MemoryWritesAssumption DEF NoFact
<1> HIDE DEF G
<1>4. ASSUME NEW f \in FactIds, G[f].prop # facts[f].prop
      PROVE  /\ facts[f].prop = NULL /\ G[f].prop = tx[c].prop
             /\ \E i \in DOMAIN tx[c].rows : f = <<c, i>>
  <2>1. PICK o \in CommitOut(c) : o.id = f /\ G[f] = o.fact
    BY <1>1, <1>4
  <2>2. o \notin plainRows(c)
    BY <1>4, <2>1, PlainIs
  <2>3. OwnValue(c, tx[c], o) /\ facts[f] = NoFact
    BY <1>1, <1>4, <2>1, <2>2, OutKinds
  <2>4. o.fact.prop = tx[c].prop /\ \E i \in DOMAIN tx[c].rows : o.id = <<c, i>>
    BY <2>3 DEF OwnValue
  <2> QED BY <1>3, <2>1, <2>3, <2>4
<1>5. CASE tx[c].op # "apply"
  <2>1. tx[c].prop = NULL
    BY <1>2, <1>5 DEF CourseOK, CreateOK, ReviseOK
  <2>2. \A f \in FactIds : G[f].prop = facts[f].prop
    BY <1>4, <2>1
  <2>3. AppliedOnce(G, Q)
    BY <1>2, <1>5, <2>2 DEF AppliedOnce
  <2> QED BY <2>3 DEF G
<1>6. CASE tx[c].op = "apply"
  <2> DEFINE p == tx[c].prop
             own == <<c, 1>>
  <2>1. p \in Proposals /\ Len(tx[c].rows) = 1 /\ ~tx[c].rows[1].many
        /\ tx[c].left = {} /\ tx[c].rows \in Seq(Rows)
    BY <1>2, <1>6 DEF CourseOK, ApplyOK, Transactions
  <2>2. DOMAIN tx[c].rows = {1}
    BY <2>1
  <2>3. HasKey(tx[c], tx[c].rows[1].key)
    BY <2>1, <2>2 DEF HasKey, SingleKeys
  <2>4. PICK o \in tx[c].out : o.id = own
    BY <2>1, <2>2, <2>3 DEF IInv, Sound, OutOK
  <2>5. own \in FactIds /\ G[own] = o.fact
    BY <1>1, <1>2, <2>4
  <2>6. o.fact.prop = p
    <3>1. o.id[1] = c
      BY <2>4
    <3>2. OwnValue(c, tx[c], o)
      BY <3>1, OutKinds
    <3> QED BY <3>2 DEF OwnValue
  <2>7. prop[p].status = "proposed"
    BY <1>6, <2>1 DEF IInv, Sound, LocksMean, HasProposal
  <2>8. \A f \in FactIds : facts[f].prop # p
    BY <1>2, <1>3, <2>1, <2>7 DEF AppliedOnce
  <2> HIDE DEF p
  <2>9. G[own].prop = p
    BY <2>5, <2>6
  <2>10. \A f \in FactIds : f # own => G[f].prop = facts[f].prop
    BY <1>4, <2>2
  <2> HIDE DEF own
  <2>11. /\ Q[p].status = "applied"
         /\ \A q \in Proposals : q # p => Q[q] = prop[q]
    BY <1>6 DEF p
  <2>12. facts[own].prop = NULL
    BY <1>4, <2>5, <2>8, <2>9
  <2>13. ASSUME NEW f \in FactIds, G[f].prop # NULL
         PROVE  Q[G[f].prop].status = "applied"
    <3>1. CASE f = own
      BY <2>9, <2>11, <3>1
    <3>2. CASE f # own
      <4>1. facts[f].prop \in Proposals /\ facts[f].prop # p
            /\ prop[facts[f].prop].status = "applied"
        BY <1>2, <2>8, <2>10, <2>13, <3>2 DEF AppliedOnce, Facts
      <4> QED BY <2>10, <2>11, <3>2, <4>1
    <3> QED BY <3>1, <3>2
  <2>14. ASSUME NEW f \in FactIds, NEW g \in FactIds,
                G[f].prop # NULL, G[f].prop = G[g].prop
         PROVE  f = g
    <3>1. CASE f # own /\ g # own
      BY <1>2, <2>10, <2>14, <3>1 DEF AppliedOnce
    <3>2. CASE f = own \/ g = own
      BY <2>8, <2>9, <2>10, <2>14, <3>2
    <3> QED BY <3>1, <3>2
  <2>15. ASSUME NEW q \in Proposals, Q[q].status = "applied"
         PROVE  \E f \in FactIds : G[f].prop = q
    <3>1. CASE q = p
      BY <2>5, <2>9, <3>1
    <3>2. CASE q # p
      <4>1. PICK f \in FactIds : facts[f].prop = q
        BY <1>2, <2>11, <2>15, <3>2 DEF AppliedOnce
      <4>2. f # own
        BY <1>3, <2>12, <4>1
      <4> QED BY <2>10, <4>1, <4>2
    <3> QED BY <3>1, <3>2
  <2>16. AppliedOnce(G, Q)
    BY <2>13, <2>14, <2>15 DEF AppliedOnce
  <2> QED BY <2>16 DEF G
<1> QED BY <1>5, <1>6

-----------------------------------------------------------------------------
(* The memories of a commit.                                               *)

NewMemory(t) == [state |-> t.state, closed |-> FALSE, hash |-> t.hash]
MemoryAfter(c) ==
  [m \in Memories |->
     IF m = c /\ tx[c].op # "apply" THEN NewMemory(tx[c])
     ELSE IF m = tx[c].of /\ tx[c].op = "revise" THEN [mem[m] EXCEPT !.closed = TRUE]
     ELSE mem[m]]
RevivedAfter(c) ==
  IF tx[c].op = "revise" /\ (mem[tx[c].of].state = "archived" \/ tx[c].of \in revived)
  THEN revived \cup {c} ELSE revived

LEMMA MemoryAfterIs ==
  ASSUME IInv, NEW c \in Calls, tx[c].pc = "commit"
  PROVE  /\ MemoryAfter(c) \in [Memories -> MemoryRows]
         /\ c \in Memories /\ mem[c].state = "none"
         /\ tx[c].op # "apply" => MemoryAfter(c)[c] = NewMemory(tx[c])
         /\ tx[c].op = "revise" =>
              /\ tx[c].of \in Memories /\ tx[c].of # c /\ HasRow(tx[c], tx[c].of)
              /\ LiveIn(mem, tx[c].of) /\ MemoryAfter(c)[tx[c].of].closed
         /\ \A m \in Memories \ {c} :
              /\ MemoryAfter(c)[m].state = mem[m].state
              /\ MemoryAfter(c)[m].hash = mem[m].hash
              /\ MemoryAfter(c)[m] = mem[m] \/ (m = tx[c].of /\ tx[c].op = "revise")
         /\ tx[c].op = "apply" => MemoryAfter(c) = mem
<1>1. tx[c] \in Transactions /\ CourseOK(tx[c]) /\ mem \in [Memories -> MemoryRows]
  BY Start DEF IInv, Typed
<1>2. c \in Memories /\ mem[c].state = "none"
  BY DEF Memories, IInv, Sound, Unborn
<1>3. tx[c].op = "revise" =>
        /\ tx[c].of \in Memories /\ tx[c].of # c /\ HasRow(tx[c], tx[c].of)
        /\ LiveIn(mem, tx[c].of)
  <2>1. SUFFICES ASSUME tx[c].op = "revise"
                 PROVE  /\ tx[c].of \in Memories /\ tx[c].of # c /\ HasRow(tx[c], tx[c].of)
                        /\ LiveIn(mem, tx[c].of)
    OBVIOUS
  <2>2. tx[c].of \in Memories /\ HasRow(tx[c], tx[c].of)
    BY <1>1, <2>1 DEF CourseOK, ReviseOK, HasRow
  <2>3. LiveIn(mem, tx[c].of)
    BY <2>2 DEF IInv, Sound, LocksMean
  <2> QED BY <1>2, <2>2, <2>3 DEF LiveIn
<1>4. NewMemory(tx[c]) \in MemoryRows
  BY <1>1 DEF NewMemory, MemoryRows, Transactions
<1>5. \A m \in Memories : /\ [mem[m] EXCEPT !.closed = TRUE] \in MemoryRows
                          /\ [mem[m] EXCEPT !.closed = TRUE].state = mem[m].state
                          /\ [mem[m] EXCEPT !.closed = TRUE].hash = mem[m].hash
                          /\ [mem[m] EXCEPT !.closed = TRUE].closed
  BY <1>1 DEF MemoryRows
<1> DEFINE after(m) ==
      IF m = c /\ tx[c].op # "apply" THEN NewMemory(tx[c])
      ELSE IF m = tx[c].of /\ tx[c].op = "revise" THEN [mem[m] EXCEPT !.closed = TRUE]
      ELSE mem[m]
<1>6. \A m \in Memories : after(m) \in MemoryRows
  BY <1>1, <1>4, <1>5
<1>7. MemoryAfter(c) = [m \in Memories |-> after(m)]
  BY DEF MemoryAfter
<1>8. MemoryAfter(c) \in [Memories -> MemoryRows]
      /\ \A m \in Memories : MemoryAfter(c)[m] = after(m)
  BY <1>6, <1>7
<1>9. tx[c].op = "apply" => MemoryAfter(c) = mem
  <2>1. tx[c].op = "apply" => \A m \in Memories : MemoryAfter(c)[m] = mem[m]
    BY <1>8
  <2> QED BY <1>1, <1>8, <2>1
<1>10. tx[c].op # "apply" => MemoryAfter(c)[c] = NewMemory(tx[c])
  BY <1>2, <1>8
<1>11. tx[c].op = "revise" => MemoryAfter(c)[tx[c].of].closed
  BY <1>3, <1>5, <1>8
<1>12. \A m \in Memories \ {c} :
         /\ MemoryAfter(c)[m].state = mem[m].state
         /\ MemoryAfter(c)[m].hash = mem[m].hash
         /\ MemoryAfter(c)[m] = mem[m] \/ (m = tx[c].of /\ tx[c].op = "revise")
  BY <1>5, <1>8
<1> HIDE DEF after
<1> QED BY <1>2, <1>3, <1>8, <1>9, <1>10, <1>11, <1>12

LEMMA CommitQuota ==
  ASSUME IInv, NEW c \in Calls, tx[c].pc = "commit",
         NEW T2, T2 = [tx EXCEPT ![c] = Ended]
  PROVE  QuotaOK(limit, MemoryAfter(c), T2, RevivedAfter(c))
<1> DEFINE M2 == MemoryAfter(c)
           R2 == RevivedAfter(c)
           old == Counted(mem, revived)
           new == Counted(M2, R2)
<1>1. /\ tx \in [Calls -> Transactions] /\ QuotaOK(limit, mem, tx, revived)
      /\ CourseOK(tx[c])
  BY Start DEF IInv, Typed, Sound
<1>2. /\ c \in Memories /\ mem[c].state = "none"
      /\ tx[c].op # "apply" => M2[c] = NewMemory(tx[c])
      /\ tx[c].op = "revise" =>
           /\ tx[c].of \in Memories /\ tx[c].of # c
           /\ LiveIn(mem, tx[c].of) /\ M2[tx[c].of].closed
      /\ \A m \in Memories \ {c} : M2[m] = mem[m] \/ (m = tx[c].of /\ tx[c].op = "revise")
      /\ tx[c].op = "apply" => M2 = mem
  BY MemoryAfterIs
<1>3. T2[c] = Ended /\ (\A d \in Calls : d # c => T2[d] = tx[d])
      /\ \A d \in Calls : T2[d] = tx[d] \/ T2[d] = Ended
  BY <1>1
<1>4. /\ IsFiniteSet(old) /\ Cardinality(old) \in Nat /\ c \notin old
      /\ IsFiniteSet(new) /\ Cardinality(new) \in Nat
  <2>1. old \in SUBSET Memories /\ new \in SUBSET Memories
    BY DEF Counted
  <2>2. c \notin old
    BY <1>2 DEF Counted, CountsIn, LiveIn
  <2> HIDE DEF old, new
  <2> QED BY <2>1, <2>2, FiniteMemories
<1>5. new \subseteq old \cup {c}
  <2>1. SUFFICES ASSUME NEW m \in new, m # c PROVE m \in old
    OBVIOUS
  <2>2. m \in Memories \ {c} /\ CountsIn(M2, m) /\ m \notin R2
    BY <2>1 DEF Counted
  <2>3. m \notin revived
    BY <2>2 DEF RevivedAfter
  <2>4. M2[m] = mem[m]
    BY <1>2, <2>2 DEF CountsIn, LiveIn
  <2> QED BY <2>2, <2>3, <2>4 DEF Counted, CountsIn, LiveIn
<1>6. CASE limit = NULL
  BY <1>6 DEF QuotaOK
<1>7. CASE c \notin new
  <2>1. new \subseteq old
    BY <1>5, <1>7
  <2> QED BY <1>1, <1>3, <2>1, LimitTyped, FewerCounted
<1>8. CASE limit # NULL /\ c \in new /\ tx[c].op = "revise"
  <2>1. tx[c].of \in old
    <3>1. c \notin R2
      BY <1>8 DEF Counted
    <3>2. mem[tx[c].of].state # "archived" /\ tx[c].of \notin revived
      BY <1>8, <3>1 DEF RevivedAfter
    <3>3. mem[tx[c].of].state \in {"none", "active", "archived"}
      BY <1>2, <1>8 DEF IInv, Typed, MemoryRows
    <3> QED BY <1>2, <1>8, <3>2, <3>3 DEF Counted, CountsIn, LiveIn
  <2>2. tx[c].of \notin new
    BY <1>2, <1>8 DEF Counted, CountsIn, LiveIn
  <2>3. new \subseteq (old \ {tx[c].of}) \cup {c}
    BY <1>5, <2>2
  <2> HIDE DEF old, new
  <2>4. /\ IsFiniteSet(old \ {tx[c].of})
        /\ Cardinality(old \ {tx[c].of}) = Cardinality(old) - 1
    BY <1>4, <2>1, FS_RemoveElement
  <2>5. /\ IsFiniteSet((old \ {tx[c].of}) \cup {c})
        /\ Cardinality((old \ {tx[c].of}) \cup {c}) = Cardinality(old)
    <3>1. c \notin old \ {tx[c].of}
      BY <1>4
    <3>2. Cardinality((old \ {tx[c].of}) \cup {c}) = Cardinality(old \ {tx[c].of}) + 1
      BY <2>4, <3>1, FS_AddElement
    <3>3. IsFiniteSet((old \ {tx[c].of}) \cup {c})
      BY <2>4, FS_AddElement
    <3> QED BY <1>4, <2>4, <3>2, <3>3
  <2>6. Cardinality(new) <= Cardinality(old)
    BY <2>3, <2>5, FS_Subset
  <2> QED BY <1>1, <1>3, <2>6, LimitTyped, NoMoreCounted DEF old, new
<1>9. CASE limit # NULL /\ c \in new /\ tx[c].op # "revise"
  <2>1. tx[c].op = "create" /\ tx[c].state = "active"
    <3>1. CountsIn(M2, c)
      BY <1>9 DEF Counted
    <3>2. tx[c].op # "apply"
      BY <1>2, <3>1 DEF CountsIn, LiveIn
    <3>3. tx[c].state = "active"
      BY <1>2, <3>1, <3>2 DEF CountsIn, NewMemory
    <3> QED BY <1>1, <1>9, <3>2, <3>3 DEF CourseOK
  <2>2. HasQuota(limit, tx[c])
    BY <1>9, <2>1 DEF HasQuota
  <2>3. Cardinality(old) < limit /\ limit \in Nat
    BY <1>1, <1>9, <2>2, LimitIs DEF QuotaOK
  <2> HIDE DEF old, new
  <2>4. IsFiniteSet(old \cup {c}) /\ Cardinality(old \cup {c}) = Cardinality(old) + 1
    BY <1>4, FS_AddElement
  <2>5. Cardinality(new) <= Cardinality(old) + 1
    BY <1>5, <2>4, FS_Subset
  <2>6. Cardinality(new) <= limit
    BY <1>4, <2>3, <2>5
  <2>7. \A d \in Calls : ~HasQuota(limit, T2[d])
    <3>1. \A d \in Calls : d # c => ~HasQuota(limit, tx[d])
      BY <2>2 DEF IInv, Sound, LocksApart
    <3>2. ~HasQuota(limit, Ended)
      BY EndedIs DEF HasQuota
    <3> QED BY <1>3, <3>1, <3>2
  <2>8. \A d \in Calls : T2[d].pc \in {"quota", "count"} =>
          T2[d].op = "create" /\ T2[d].state = "active"
    BY <1>1, <1>3, <1>9, EndedIs DEF QuotaOK
  <2> QED BY <2>6, <2>7, <2>8 DEF QuotaOK, old, new
<1> QED BY <1>6, <1>7, <1>8, <1>9

LEMMA CommitMeans ==
  ASSUME IInv, NEW c \in Calls, tx[c].pc = "commit",
         NEW T2, T2 = [tx EXCEPT ![c] = Ended], NEW Q,
         tx[c].op # "apply" => Q = prop,
         tx[c].op = "apply" => \A p \in Proposals : p # tx[c].prop => Q[p] = prop[p]
  PROVE  /\ LocksMean(MemoryAfter(c), Q, T2)
         /\ InsertsOK(MemoryAfter(c), T2)
<1> DEFINE M2 == MemoryAfter(c)
<1>1. tx \in [Calls -> Transactions] /\ Sound(limit, mem, facts, prop, tx, revived)
  BY DEF IInv, Typed
<1>2. T2[c] = Ended /\ \A d \in Calls : d # c => T2[d] = tx[d]
  BY <1>1
<1>3. /\ c \in Memories /\ mem[c].state = "none"
      /\ tx[c].op = "revise" => tx[c].of \in Memories /\ HasRow(tx[c], tx[c].of)
      /\ \A m \in Memories \ {c} :
           /\ M2[m].state = mem[m].state /\ M2[m].hash = mem[m].hash
           /\ M2[m] = mem[m] \/ (m = tx[c].of /\ tx[c].op = "revise")
  BY MemoryAfterIs
<1> HIDE DEF M2
<1>4. ASSUME NEW d \in Calls, d # c
      PROVE  /\ \A m \in Memories : HasRow(tx[d], m) => m # c /\ M2[m] = mem[m]
             /\ \A m \in Memories : HasShare(tx[d], m) => m # c /\ M2[m] = mem[m]
             /\ \A p \in Proposals : HasProposal(tx[d], p) => Q[p] = prop[p]
             /\ tx[d].op = "revise" => M2[tx[d].of].state # "none"
  <2>1. Means(mem, prop, tx[d])
    BY <1>1 DEF Sound, LocksMean, Means
  <2>2. \A m \in Memories : HasRow(tx[d], m) => m # c /\ ~HasRow(tx[c], m)
    BY <1>1, <1>3, <1>4, <2>1 DEF Means, LiveIn, Sound, LocksApart
  <2>3. \A m \in Memories : HasShare(tx[d], m) => m # c /\ ~HasRow(tx[c], m)
    BY <1>1, <1>3, <1>4, <2>1 DEF Means, CountsIn, LiveIn, Sound, LocksApart
  <2>4. \A p \in Proposals : HasProposal(tx[d], p) => Q[p] = prop[p]
    <3>1. CASE tx[c].op # "apply"
      BY <3>1
    <3>2. CASE tx[c].op = "apply"
      <4>1. tx[c].prop \in Proposals => HasProposal(tx[c], tx[c].prop)
        BY <3>2 DEF HasProposal
      <4>2. \A p \in Proposals : HasProposal(tx[d], p) => p # tx[c].prop
        BY <1>1, <1>4, <4>1 DEF Sound, LocksApart
      <4> QED BY <3>2, <4>2
    <3> QED BY <3>1, <3>2
  <2>5. tx[d].op = "revise" => M2[tx[d].of].state # "none"
    <3>1. tx[d].op = "revise" => tx[d].of \in Memories /\ mem[tx[d].of].state # "none"
      BY <2>1, Start DEF Means, CourseOK, ReviseOK
    <3> QED BY <1>3, <3>1
  <2> QED BY <1>3, <2>2, <2>3, <2>4, <2>5
<1>5. LocksMean(M2, Q, T2)
  <2>1. SUFFICES ASSUME NEW d \in Calls PROVE Means(M2, Q, T2[d])
    BY DEF LocksMean, Means
  <2>2. CASE d = c
    BY <1>2, <2>2, EndedIs DEF Means, HasRow, HasShare, HasProposal
  <2>3. CASE d # c
    <3>1. T2[d] = tx[d] /\ Means(mem, prop, tx[d])
      BY <1>1, <1>2, <2>3 DEF Sound, LocksMean, Means
    <3>2. \A m \in Memories : HasRow(tx[d], m) => LiveIn(M2, m)
      BY <1>4, <2>3, <3>1 DEF Means, LiveIn
    <3>3. \A m \in Memories : HasShare(tx[d], m) => CountsIn(M2, m)
      BY <1>4, <2>3, <3>1 DEF Means, CountsIn, LiveIn
    <3>4. \A p \in Proposals : HasProposal(tx[d], p) => Q[p].status = "proposed"
      BY <1>4, <2>3, <3>1 DEF Means
    <3>5. tx[d].op = "revise" => M2[tx[d].of].state # "none"
      BY <1>4, <2>3
    <3> QED BY <3>1, <3>2, <3>3, <3>4, <3>5 DEF Means
  <2> QED BY <2>2, <2>3
<1>6. InsertsOK(M2, T2)
  <2>1. \A d \in Calls : T2[d].pc = "insert" => d # c /\ T2[d] = tx[d]
    BY <1>2, EndedIs
  <2>2. \A d \in Calls, m \in Memories :
          T2[d].pc = "insert" /\ HasRow(tx[d], m) => M2[m].hash = mem[m].hash
    BY <1>4, <2>1
  <2>3. InsertsOK(mem, tx)
    BY <1>1 DEF Sound
  <2>4. \A d \in Calls : T2[d].pc = "insert" => T2[d] = tx[d]
    BY <2>1
  <2>5. PICK M, T, N : M = mem /\ T = tx /\ N = M2
    OBVIOUS
  <2>6. /\ InsertsOK(M, T)
        /\ \A d \in Calls : T2[d].pc = "insert" => T2[d] = T[d]
        /\ \A d \in Calls, m \in Memories :
             T2[d].pc = "insert" /\ HasRow(T[d], m) => N[m].hash = M[m].hash
    BY <2>2, <2>3, <2>4, <2>5
  <2>7. InsertsOK(N, T2)
    BY ONLY <2>6, InsertsStay
  <2> QED BY <2>5, <2>7
<1> QED BY <1>5, <1>6 DEF M2

LEMMA CommitOK ==
  ASSUME IInv, NEW c \in Calls, Commit(c)
  PROVE  IInv'
<1>1. /\ tx[c].pc = "commit" /\ tx' = [tx EXCEPT ![c] = Ended]
      /\ mem' = MemoryAfter(c) /\ revived' = RevivedAfter(c)
      /\ UNCHANGED <<limit, clock>>
  BY DEF Commit, End, Become, Ended, MemoryAfter, RevivedAfter, NewMemory
<1>2. facts' = Over(facts, CommitOut(c))
  BY PublishedIs DEF Commit, CommitOut
<1>3. prop' = IF tx[c].op = "apply"
              THEN [prop EXCEPT ![tx[c].prop].status = "applied"] ELSE prop
  BY DEF Commit
<1>4. /\ tx \in [Calls -> Transactions] /\ Sound(limit, mem, facts, prop, tx, revived)
      /\ tx[c] \in Transactions /\ CourseOK(tx[c])
      /\ prop \in [Proposals -> ProposalRows]
  BY Start DEF IInv, Typed
<1>5. /\ prop' \in [Proposals -> ProposalRows]
      /\ tx[c].op # "apply" => prop' = prop
      /\ tx[c].op = "apply" =>
           /\ prop'[tx[c].prop].status = "applied"
           /\ \A p \in Proposals : p # tx[c].prop => prop'[p] = prop[p]
  <2>1. CASE tx[c].op # "apply"
    BY <1>3, <1>4, <2>1
  <2>2. CASE tx[c].op = "apply"
    <3>1. tx[c].prop \in Proposals
      BY <1>4, <2>2 DEF CourseOK, ApplyOK
    <3>2. PICK p : p = tx[c].prop
      OBVIOUS
    <3>3. prop' = [prop EXCEPT ![p] = [prop[p] EXCEPT !.status = "applied"]]
      BY <1>3, <2>2, <3>2
    <3>4. /\ [prop[p] EXCEPT !.status = "applied"] \in ProposalRows
          /\ [prop[p] EXCEPT !.status = "applied"].status = "applied"
      BY <1>4, <3>1, <3>2 DEF ProposalRows
    <3> QED BY <1>4, <2>2, <3>1, <3>2, <3>3, <3>4
  <2> QED BY <2>1, <2>2
<1>6. PICK G, Q, M2, T2 : G = facts' /\ Q = prop' /\ M2 = mem' /\ T2 = tx'
  OBVIOUS
<1>7. FactsKept(c, G, T2)
  <2>1. Publishes(c, G) /\ \A j \in Keys : Timeline(G, j)
    BY <1>1, <1>2, <1>6, CommitPublishes, CommitTimelines
  <2> QED BY <1>1, <1>6, <2>1, PublishFacts
<1>8. FactsOK(G) /\ G \in [FactIds -> Facts]
  BY <1>1, <1>2, <1>6, CommitFactsOK
<1>9. AppliedOnce(G, Q)
  BY <1>1, <1>2, <1>5, <1>6, CommitApplied
<1>10. LocksMean(M2, Q, T2) /\ InsertsOK(M2, T2)
  BY <1>1, <1>5, <1>6, CommitMeans
<1>11. QuotaOK(limit, M2, T2, revived')
  BY <1>1, <1>6, CommitQuota
<1>12. Unborn(M2, G, T2)
  <2>1. \A d \in Calls : d # c => d \in Memories \ {c}
    BY DEF Memories
  <2>2. \A m \in Memories \ {c} : M2[m].state = mem[m].state
    BY <1>1, <1>6, MemoryAfterIs
  <2> QED BY <1>4, <1>7, <2>1, <2>2 DEF FactsKept, Unborn, Sound
<1>13. Sound(limit, M2, G, Q, T2, revived')
  BY <1>7, <1>8, <1>9, <1>10, <1>11, <1>12 DEF Sound, FactsKept
<1>14. tx' \in [Calls -> Transactions]
  BY <1>1, <1>4, EndedIs
<1>15. mem' \in [Memories -> MemoryRows] /\ revived' \in SUBSET Memories
  <2>1. c \in Memories /\ revived \in SUBSET Memories
    BY DEF Memories, IInv, Typed
  <2> QED BY <1>1, <2>1, MemoryAfterIs DEF RevivedAfter
<1>16. facts' \in [FactIds -> Facts] /\ limit' \in Limits /\ clock' \in Times
  BY <1>1, <1>6, <1>8 DEF IInv, Typed
<1>17. Typed'
  BY <1>5, <1>14, <1>15, <1>16 DEF Typed
<1>18. Sound(limit', mem', facts', prop', tx', revived')
  BY <1>1, <1>6, <1>13
<1> QED BY <1>17, <1>18 DEF IInv

-----------------------------------------------------------------------------
(* The invariant.                                                          *)

LEMMA InitOK ==
  ASSUME Init
  PROVE  IInv
<1>1. 0 \in Times /\ <<>> \in Seq(Rows)
  BY MemoryWritesAssumption DEF Times
<1>2. Idle \in Transactions
  BY <1>1 DEF Idle, Transactions
<1>3. \A c \in Calls : tx[c] = Idle
  BY DEF Init
<1>4. NoFact \in Facts /\ NoFact.key = NULL /\ NoFact.prop = NULL /\ NoFact.to = NULL
  BY DEF NoFact, Facts
<1>5. mem \in [Memories -> MemoryRows]
  <2>1. {Absent} \cup [state : {"active", "archived"}, closed : {FALSE}, hash : Hashes]
          \subseteq MemoryRows
    <3>1. Absent \in MemoryRows
      BY DEF Absent, MemoryRows
    <3>2. [state : {"active", "archived"}, closed : {FALSE}, hash : Hashes] \subseteq MemoryRows
      BY DEF MemoryRows
    <3> QED BY <3>1, <3>2
  <2> QED BY <2>1 DEF Init
<1>6. prop \in [Proposals -> ProposalRows]
  <2>1. \A r \in OneRow : r \in Rows /\ ~r.many
    <3>1. SUFFICES ASSUME NEW s \in Serieses, Len(s) = 1, ~s[1].many
                   PROVE  s[1] \in Rows /\ ~s[1].many
      BY DEF OneRow
    <3>2. s \in Seq(Rows)
      BY MemoryWritesAssumption
    <3> QED BY <3>1, <3>2
  <2>2. \A p \in Proposals : prop[p] \in ProposalRows
    BY <2>1 DEF Init, ProposalRows
  <2> QED BY <2>2 DEF Init
<1>7. Typed
  BY <1>1, <1>2, <1>4, <1>5, <1>6 DEF Init, Typed
<1>8. Idle.pc = "idle" /\ Idle.op = "none" /\ Idle.rows = <<>> /\ Idle.left = {} /\ Idle.out = {}
  BY DEF Idle
<1>9. CourseOK(Idle)
  BY <1>8, NoRows, MemoryWritesAssumption DEF CourseOK
<1>10. /\ \A F, c : OutOK(F, c, Idle)
       /\ \A k : ~HasKey(Idle, k)
       /\ \A l : ~HasQuota(l, Idle)
       /\ \A m : ~HasRow(Idle, m) /\ ~HasShare(Idle, m)
       /\ \A p : ~HasProposal(Idle, p)
  BY <1>8 DEF OutOK, HasKey, HasQuota, HasRow, HasShare, HasProposal
<1>11. \A f \in FactIds : facts[f] = NoFact
  BY DEF Init
<1>12. FactsOK(facts)
  BY <1>4, <1>11, TimesAreNat DEF FactsOK
<1>13. Unborn(mem, facts, tx)
  <2>1. \A c \in Calls : c \in Memories /\ c \notin Standing
    BY MemoryWritesAssumption DEF Memories
  <2>2. \A c \in Calls : mem[c].state = "none"
    BY <2>1 DEF Init, Exists
  <2> QED BY <1>11, <2>2 DEF Unborn
<1>14. LocksApart(limit, tx)
  BY <1>3, <1>10 DEF LocksApart
<1>15. LocksMean(mem, prop, tx)
  BY <1>3, <1>8, <1>10 DEF LocksMean
<1>16. TimelinesOK(facts, tx)
  <2>1. \A k \in Keys, f \in FactIds : ~IsValue(facts, k, f)
    BY <1>4, <1>11, TimesAreNat DEF IsValue
  <2>2. \A k \in Keys : Timeline(facts, k)
    BY <2>1 DEF Timeline, OneOpen, Covered, Disjoint
  <2> QED BY <1>3, <1>10, <2>2 DEF TimelinesOK
<1>17. QuotaOK(limit, mem, tx, revived)
  <2>1. Counted(mem, revived) = {m \in Memories : ActiveLive(m)}
    BY DEF Init, Counted, CountsIn, LiveIn, ActiveLive, Live, Exists
  <2>2. limit # NULL => Cardinality(Counted(mem, revived)) <= limit
    BY <2>1 DEF Init
  <2> QED BY <1>3, <1>8, <1>10, <2>2 DEF QuotaOK
<1>18. AppliedOnce(facts, prop)
  BY <1>4, <1>11 DEF AppliedOnce, Init
<1>19. InsertsOK(mem, tx)
  BY <1>3, <1>8 DEF InsertsOK
<1> QED BY <1>3, <1>7, <1>9, <1>10, <1>12, <1>13, <1>14, <1>15, <1>16, <1>17, <1>18, <1>19
        DEF IInv, Sound

LEMMA StutterOK ==
  ASSUME IInv, UNCHANGED vars
  PROVE  IInv'
<1>1. UNCHANGED <<limit, clock, mem, facts, prop, tx, revived>>
  BY DEF vars
<1>2. Typed'
  BY <1>1 DEF IInv, Typed
<1> QED BY <1>1, <1>2 DEF IInv

LEMMA NextOK ==
  ASSUME IInv, [Next]_vars
  PROVE  IInv'
<1>1. ASSUME NEW c \in Calls, Starts(c) PROVE IInv'
  BY <1>1, CreateBegins, ReviseBegins, ApplyBegins, ImportFactOK DEF Starts
<1>2. ASSUME NEW c \in Calls, Steps(c) PROVE IInv'
  BY <1>2, LockQuotaOK, ProbeOK, CountLiveOK, InsertOK, ClosePredecessorOK,
     LockLiveSourceOK, ClaimOK, WriteKeyOK, CommitOK, AbortOK DEF Steps
<1>3. ASSUME NEW m \in Memories, Archive(m) PROVE IInv'
  BY <1>3, ArchiveOK
<1>4. ASSUME NEW p \in Proposals, RejectFactProposal(p) PROVE IInv'
  BY <1>4, RejectOK
<1> QED BY <1>1, <1>2, <1>3, <1>4, TickOK, StutterOK DEF Next

LEMMA Inductive == Spec => []IInv
BY InitOK, NextOK, PTL DEF Spec

-----------------------------------------------------------------------------
(* What a memory write, an accept, a reject or an import leaves behind has *)
(* its type, and no fact's window ends before it begins: what the check    *)
(* constraint facts_validity_check asks, replaceValue keeps by itself.     *)
THEOREM TypeCorrect == Spec => []TypeOK
<1>1. ASSUME IInv
      PROVE  TypeOK
  <2>1. Typed /\ FactsOK(facts)
    BY <1>1 DEF IInv, Sound
  <2>2. prop \in [Proposals -> [ status : {"proposed", "applied", "rejected"},
                                 of : Standing, row : Rows ]]
    <3>1. ProposalRows \subseteq [ status : {"proposed", "applied", "rejected"},
                                   of : Standing, row : Rows ]
      BY DEF ProposalRows
    <3> QED BY <2>1, <3>1 DEF Typed
  <2>3. \A f \in FactIds : facts[f].to \in Times => facts[f].from <= facts[f].to
    BY <2>1 DEF FactsOK
  <2> QED BY <2>1, <2>2, <2>3 DEF TypeOK, Typed, MemoryRows, Transactions
<1> QED BY <1>1, Inductive, PTL

(* Writes of a key that overlap and commit in any order leave one current  *)
(* value at most, below which no value is closed or stored that starts     *)
(* later, and the values of one call never overlap: the advisory lock of a *)
(* key and replaceValue's order are enough, whoever else publishes.        *)
THEOREM OneValueIsCurrent == Spec => []OneCurrentValue
<1>1. ASSUME IInv, NEW k \in Keys
      PROVE  /\ Cardinality(OpenOf(k) \cap Values(k)) <= 1
             /\ \A f \in Values(k) : \E g \in OpenOf(k) : facts[g].from >= facts[f].from
             /\ \A f, g \in Values(k) : f[1] = g[1] /\ f # g => ~Overlap(f, g)
  <2>1. OneOpen(facts, k) /\ Covered(facts, k) /\ Disjoint(facts, k)
    BY <1>1 DEF IInv, Sound, TimelinesOK, Timeline
  <2>2. \A f : /\ f \in OpenOf(k) <=> f \in FactIds /\ IsOpen(facts, k, f)
               /\ f \in Values(k) <=> f \in FactIds /\ IsValue(facts, k, f)
    BY DEF OpenOf, Values, IsOpen, IsValue
  <2>3. \A f, g : Overlap(f, g) <=> Meet(facts, f, g)
    BY DEF Overlap, Meet
  <2>4. Cardinality(OpenOf(k) \cap Values(k)) <= 1
    <3> DEFINE S == OpenOf(k) \cap Values(k)
    <3>1. \A f, g \in S : f = g
      BY <2>1, <2>2 DEF OneOpen
    <3> HIDE DEF S
    <3>2. CASE S = {}
      BY <3>2, FS_EmptySet DEF S
    <3>3. CASE S # {}
      <4>1. PICK f \in S : S = {f}
        BY <3>1, <3>3
      <4>2. Cardinality(S) = 1
        BY <4>1, FS_Singleton
      <4> QED BY <4>2 DEF S
    <3> QED BY <3>2, <3>3
  <2>5. \A f \in Values(k) : \E g \in OpenOf(k) : facts[g].from >= facts[f].from
    BY <2>1, <2>2 DEF Covered
  <2>6. \A f, g \in Values(k) : f[1] = g[1] /\ f # g => ~Overlap(f, g)
    BY <2>1, <2>2, <2>3 DEF Disjoint
  <2> QED BY <2>4, <2>5, <2>6
<1>2. IInv => OneCurrentValue
  BY <1>1 DEF OneCurrentValue
<1> QED BY <1>2, Inductive, PTL

(* However accepts, rejects, revises and archives race, a proposal that is *)
(* applied has become one fact and any other none; and from lockLiveSource *)
(* to its commit an accept stands on a source that is live.                *)
THEOREM DecidesOnce == Spec => []OneFactPerDecision
<1>1. ASSUME IInv, NEW p \in Proposals
      PROVE  Cardinality({f \in FactIds : facts[f].prop = p})
               = IF prop[p].status = "applied" THEN 1 ELSE 0
  <2> DEFINE S == {f \in FactIds : facts[f].prop = p}
  <2>1. p # NULL
    BY MemoryWritesAssumption
  <2>2. AppliedOnce(facts, prop)
    BY <1>1 DEF IInv, Sound
  <2>3. /\ \A f, g \in S : f = g
        /\ prop[p].status = "applied" <=> S # {}
    BY <2>1, <2>2 DEF AppliedOnce
  <2> HIDE DEF S
  <2>4. CASE S = {}
    BY <2>3, <2>4, FS_EmptySet DEF S
  <2>5. CASE S # {}
    <3>1. PICK f \in S : S = {f}
      BY <2>3, <2>5
    <3>2. Cardinality(S) = 1
      BY <3>1, FS_Singleton
    <3> QED BY <2>3, <2>5, <3>2 DEF S
  <2> QED BY <2>4, <2>5
<1>2. ASSUME IInv, NEW c \in Calls, tx[c].op = "apply", tx[c].pc \in {"claim", "keys", "commit"}
      PROVE  ActiveLive(tx[c].of)
  <2>1. tx[c].of \in Memories /\ HasShare(tx[c], tx[c].of)
    BY <1>2, Start DEF CourseOK, ApplyOK, HasShare
  <2>2. CountsIn(mem, tx[c].of)
    BY <1>2, <2>1 DEF IInv, Sound, LocksMean
  <2> QED BY <2>2 DEF CountsIn, LiveIn, ActiveLive, Live, Exists
<1>3. IInv => OneFactPerDecision
  BY <1>1, <1>2 DEF OneFactPerDecision
<1> QED BY <1>3, Inductive, PTL

(* Creations at the same time never take the tenant past maxLiveMemories:  *)
(* the lock, the count and the insert of one write leave room for it until *)
(* it commits, and only heirs of an archived memory come on top.           *)
THEOREM KeepsQuota == Spec => []QuotaHolds
<1>1. Counted(mem, revived) = {m \in Memories : ActiveLive(m) /\ m \notin revived}
  BY DEF Counted, CountsIn, LiveIn, ActiveLive, Live, Exists
<1>2. IInv => QuotaHolds
  BY <1>1 DEF IInv, Sound, QuotaOK, QuotaHolds
<1> QED BY <1>2, Inductive, PTL

-----------------------------------------------------------------------------
(* Who waits for whom.                                                     *)

LEMMA WaitsIs ==
  ASSUME NEW c, NEW d \in WaitsFor(c)
  PROVE  /\ tx[c].pc \in {"quota", "close", "insert", "source", "claim", "keys"}
         /\ d \in Calls \ {c}
         /\ tx[c].pc = "quota" => HasQuota(limit, tx[d])
         /\ tx[c].pc = "close" => HasRow(tx[d], tx[c].of) \/ HasShare(tx[d], tx[c].of)
         /\ tx[c].pc = "insert" => HasHash(mem, tx[d], tx[c].hash)
         /\ tx[c].pc = "source" => HasRow(tx[d], tx[c].of)
         /\ tx[c].pc = "claim" => HasProposal(tx[d], tx[c].prop)
         /\ tx[c].pc = "keys" => tx[c].left # {} /\ HasKey(tx[d], Min(tx[c].left))
<1>1. tx[c].pc \in {"quota", "close", "insert", "source", "claim", "keys"}
  BY DEF WaitsFor
<1>2. CASE tx[c].pc = "quota"
  <2>1. d \in {e \in Others(c) : HoldsQuota(e)}
    BY <1>2 DEF WaitsFor, liveMemoriesLock, quotaHolders
  <2> QED BY <1>2, <2>1, HoldsIs DEF Others
<1>3. CASE tx[c].pc = "close"
  <2>1. d \in {e \in Others(c) : HoldsRow(e, tx[c].of) \/ HoldsShare(e, tx[c].of)}
    BY <1>3 DEF WaitsFor
  <2> QED BY <1>3, <2>1, HoldsIs DEF Others
<1>4. CASE tx[c].pc = "insert"
  <2>1. d \in {e \in Others(c) : HoldsHash(e, tx[c].hash)}
    BY <1>4 DEF WaitsFor
  <2> QED BY <1>4, <2>1, HoldsIs DEF Others, HoldsHash, HasHash
<1>5. CASE tx[c].pc = "source"
  <2>1. d \in {e \in Others(c) : HoldsRow(e, tx[c].of)}
    BY <1>5 DEF WaitsFor, lockLiveSource
  <2> QED BY <1>5, <2>1, HoldsIs DEF Others
<1>6. CASE tx[c].pc = "claim"
  <2>1. d \in {e \in Others(c) : HoldsProposal(e, tx[c].prop)}
    BY <1>6 DEF WaitsFor
  <2> QED BY <1>6, <2>1, HoldsIs DEF Others
<1>7. CASE tx[c].pc = "keys"
  <2>1. d \in UNION {keyLock(c, k) : k \in nextKeys(c)}
    BY <1>7 DEF WaitsFor
  <2>2. PICK k \in nextKeys(c) : d \in keyLock(c, k)
    BY <2>1
  <2>3. tx[c].left # {} /\ k = Min(tx[c].left)
    BY <2>2 DEF nextKeys, inOrder
  <2>4. d \in Others(c) /\ HoldsKey(d, k)
    BY <2>2 DEF keyLock, keyHolders
  <2> QED BY <1>7, <2>3, <2>4, HoldsIs DEF Others
<1> QED BY <1>1, <1>2, <1>3, <1>4, <1>5, <1>6, <1>7

(* A call that waits for a key, in a set of calls of which none is about   *)
(* to commit, waits for one that is itself after a greater key.            *)
LEMMA KeysAscend ==
  ASSUME IInv, NEW c \in Calls, NEW d \in WaitsFor(c),
         tx[c].pc = "keys", tx[d].pc # "commit"
  PROVE  /\ tx[d].pc = "keys"
         /\ Min(tx[c].left) \in Nat /\ Min(tx[d].left) \in Nat
         /\ Min(tx[c].left) < Min(tx[d].left)
<1>1. /\ d \in Calls /\ tx[c].left # {} /\ HasKey(tx[d], Min(tx[c].left))
  BY WaitsIs
<1>2. /\ CourseOK(tx[d]) /\ tx[d] \in Transactions /\ tx[c] \in Transactions
  BY <1>1, Start
<1>3. tx[d].pc = "keys" /\ tx[d].left # {}
  BY <1>1, <1>2 DEF HasKey, CourseOK
<1>4. tx[c].left \in SUBSET Nat /\ tx[d].left \in SUBSET Nat
  BY <1>2, MemoryWritesAssumption DEF Transactions
<1>5. Min(tx[c].left) \in tx[c].left /\ Min(tx[d].left) \in tx[d].left
  BY <1>1, <1>3, <1>4, MinIsLeast
<1>6. Min(tx[c].left) < Min(tx[d].left)
  BY <1>1, <1>2, <1>5 DEF HasKey, CourseOK
<1> QED BY <1>3, <1>4, <1>5, <1>6

LEMMA LastAtItsKeys ==
  ASSUME IInv, NEW S \in SUBSET Calls, \A c \in S : tx[c].pc # "commit",
         \E c \in S : tx[c].pc = "keys"
  PROVE  \E c \in S : WaitsFor(c) \cap S = {}
<1> DEFINE K == {c \in S : tx[c].pc = "keys"}
           above(c) == {d \in K : Min(tx[c].left) < Min(tx[d].left)}
           U == {above(c) : c \in K}
<1>1. U # {} /\ U \in SUBSET FiniteSubsetsOf(Calls)
  <2>1. \A T \in SUBSET Calls : IsFiniteSet(T)
    BY FS_Subset, MemoryWritesAssumption
  <2>2. \A c \in K : above(c) \in SUBSET Calls
    OBVIOUS
  <2> QED BY <2>1, <2>2 DEF FiniteSubsetsOf
<1>2. IsWellFoundedOn(StrictSubsetOrdering(Calls), FiniteSubsetsOf(Calls))
  BY FS_StrictSubsetOrderingWellFounded
<1>3. PICK u \in U : \A v \in U : ~(<<v, u>> \in StrictSubsetOrdering(Calls))
  BY <1>1, <1>2, WFMin
<1>4. PICK c \in K : u = above(c)
  OBVIOUS
<1>5. ASSUME NEW d \in WaitsFor(c) \cap S
      PROVE  FALSE
  <2>1. d \in K /\ Min(tx[c].left) < Min(tx[d].left)
        /\ Min(tx[c].left) \in Nat /\ Min(tx[d].left) \in Nat
    BY KeysAscend
  <2>2. \A e \in above(d) : Min(tx[e].left) \in Nat
    <3>1. SUFFICES ASSUME NEW e \in K PROVE Min(tx[e].left) \in Nat
      OBVIOUS
    <3>2. e \in Calls /\ CourseOK(tx[e]) /\ tx[e] \in Transactions
      BY Start
    <3>3. tx[e].left # {} /\ tx[e].left \in SUBSET Nat
      BY <3>2, MemoryWritesAssumption DEF CourseOK, Transactions
    <3>4. Min(tx[e].left) \in tx[e].left
      BY <3>3, MinIsLeast
    <3> QED BY <3>3, <3>4
  <2>3. above(d) \subseteq above(c)
    BY <2>1, <2>2
  <2>4. d \in above(c) /\ d \notin above(d)
    BY <2>1
  <2>5. above(d) \in U /\ above(d) \in SUBSET Calls /\ above(c) \in SUBSET Calls
    BY <2>1
  <2>6. <<above(d), above(c)>> \in StrictSubsetOrdering(Calls)
    BY <2>3, <2>4, <2>5 DEF StrictSubsetOrdering
  <2> QED BY <1>3, <1>4, <2>5, <2>6
<1> QED BY <1>5

(* Quotas, rows and shares of memories, the live-hash index, proposals and *)
(* fact keys are waited for in an order that never closes a cycle, however *)
(* creations, revises and accepts of one tenant interleave: of any calls,  *)
(* one waits for none of them.                                             *)
THEOREM NoDeadlock == Spec => []NoWaitCycle
<1>1. ASSUME IInv, NEW S \in SUBSET Calls, S # {}
      PROVE  \E c \in S : WaitsFor(c) \cap S = {}
  <2>1. \A c \in S : tx[c].pc \in {"idle", "quota", "close", "probe", "count", "insert",
                                   "source", "claim", "keys", "commit", "done"}
    BY <1>1, Start DEF Transactions
  <2>2. CASE \E c \in S : tx[c].pc \in {"idle", "done", "probe", "count", "commit"}
    BY <2>2, WaitsIs
  <2>3. CASE /\ \A c \in S : tx[c].pc \notin {"idle", "done", "probe", "count", "commit"}
             /\ \E c \in S : tx[c].pc = "keys"
    BY <1>1, <2>3, LastAtItsKeys
  <2>4. CASE /\ \A c \in S : tx[c].pc \in {"quota", "close", "source", "insert", "claim"}
             /\ \E c \in S : tx[c].pc = "claim"
    BY <2>4, WaitsIs DEF HasProposal
  <2>5. CASE /\ \A c \in S : tx[c].pc \in {"quota", "close", "source", "insert"}
             /\ \E c \in S : tx[c].pc = "insert"
    <3> DEFINE I == {c \in S : tx[c].pc = "insert"}
    <3>1. I \in SUBSET {c \in Calls : tx[c].pc = "insert"} /\ I # {}
      BY <2>5
    <3>2. InsertsOK(mem, tx)
      BY <1>1 DEF IInv, Sound
    <3>3. PICK c \in I : \A d \in I \ {c} : ~HasHash(mem, tx[d], tx[c].hash)
      BY <3>1, <3>2 DEF InsertsOK
    <3>4. \A d \in WaitsFor(c) \cap S : d # c /\ HasHash(mem, tx[d], tx[c].hash)
      BY WaitsIs
    <3>5. \A d \in WaitsFor(c) \cap S : d \in I
      BY <2>5, <3>4 DEF HasHash, HasRow
    <3> QED BY <3>3, <3>4, <3>5
  <2>6. CASE \A c \in S : tx[c].pc \in {"quota", "close", "source"}
    BY <1>1, <2>6, WaitsIs DEF HasQuota, HasRow, HasShare
  <2> QED BY <2>1, <2>2, <2>3, <2>4, <2>5, <2>6
<1>2. IInv => NoWaitCycle
  BY <1>1 DEF NoWaitCycle
<1> QED BY <1>2, Inductive, PTL

==============================================================================
