----------------------------- MODULE MemoryWrites -----------------------------
(***************************************************************************)
(* What one tenant's memory writes share: the slot of a live content hash, *)
(* the quota of live memories, the timeline of each fact key, and the      *)
(* queue of fact proposals.  A write is a transaction that takes row and   *)
(* advisory locks one by one and publishes what it wrote when it commits.  *)
(*                                                                         *)
(* A call creates at most one memory, which bears its name, and facts that *)
(* bear its name and their place in the call.                              *)
(***************************************************************************)
EXTENDS Integers, Sequences, FiniteSets, FiniteSetsExt

CONSTANTS
  Calls,        \* transactions
  Standing,     \* memories that are there at the start
  Hashes,       \* content hashes
  Keys,         \* fact keys (subject, predicate), in the order of their sort
  Proposals,    \* fact proposals
  Serieses,     \* the facts that a call may bring, each a sequence of rows
  Limits,       \* what a tenant's maxLiveMemories may be: a number, or NULL
  MaxRows,      \* bound: the facts that one call brings
  MaxTime,      \* bound of the clock
  NULL

Memories == Calls \cup Standing
FactIds == Calls \X (1..MaxRows)
Times == 0..MaxTime

(* FactWrite: a row without validFrom starts at now(); a row marked `many` *)
(* takes no part in the replacement of values.                             *)
Rows == [key : Keys, from : Times \cup {NULL}, many : BOOLEAN]

ASSUME MemoryWritesAssumption ==
  /\ IsFiniteSet(Calls) /\ IsFiniteSet(Standing)
  /\ Calls \cap Standing = {}
  /\ Keys \subseteq Nat
  /\ MaxRows \in Nat \ {0}
  /\ \A s \in Serieses : s \in Seq(Rows) /\ Len(s) <= MaxRows
  /\ MaxTime \in Nat
  /\ Limits \subseteq Nat \cup {NULL}
  /\ NULL \notin Nat \cup Memories \cup Hashes \cup Proposals

VARIABLES
  limit,      \* maxLiveMemories of this tenant
  clock,      \* the database's clock
  mem,        \* memories: status, whether valid_to is set, content_hash
  facts,      \* facts: key and window, whether it coexists with other values,
              \* and the proposal that it was applied from
  prop,       \* fact_proposals: status, source, row
  tx,         \* each call's transaction
  revived     \* history: memories that revise an archived one, and their heirs

vars == <<limit, clock, mem, facts, prop, tx, revived>>

-----------------------------------------------------------------------------
Absent == [state |-> "none", closed |-> FALSE, hash |-> NULL]
NoFact ==
  [key |-> NULL, from |-> NULL, to |-> NULL, many |-> FALSE, prop |-> NULL]
Idle ==
  [ pc |-> "idle", op |-> "none", start |-> 0, of |-> NULL, hash |-> NULL,
    state |-> "none", prop |-> NULL, rows |-> <<>>, left |-> {}, out |-> {} ]

Facts ==
  [ key : Keys \cup {NULL}, from : Times \cup {NULL},
    to : Times \cup {NULL}, many : BOOLEAN,
    prop : Proposals \cup {NULL} ]

(* The shape of the rows; no window ends before it begins (the check       *)
(* constraint facts_validity_check).                                       *)
TypeOK ==
  /\ limit \in Limits
  /\ clock \in Times
  /\ mem \in [Memories -> [ state : {"none", "active", "archived"},
                            closed : BOOLEAN, hash : Hashes \cup {NULL} ]]
  /\ facts \in [FactIds -> Facts]
  /\ prop \in [Proposals -> [ status : {"proposed", "applied", "rejected"},
                              of : Standing, row : Rows ]]
  /\ tx \in [Calls ->
       [ pc : {"idle", "quota", "close", "probe", "count", "insert", "source",
               "claim", "keys", "commit", "done"},
         op : {"none", "create", "revise", "apply"}, start : Times,
         of : Memories \cup {NULL}, hash : Hashes \cup {NULL},
         state : {"none", "active", "archived"}, prop : Proposals \cup {NULL},
         rows : Seq(Rows), left : SUBSET Keys,
         out : SUBSET [id : FactIds, fact : Facts] ]]
  /\ revived \in SUBSET Memories
  /\ \A f \in FactIds :
       facts[f].to \in Times => facts[f].from <= facts[f].to

Exists(m) == mem[m].state # "none"
Live(m) == Exists(m) /\ ~mem[m].closed
ActiveLive(m) == Live(m) /\ mem[m].state = "active"

(* A proposal brings one row, of which nothing says `many`.                *)
OneRow == {s[1] : s \in {t \in Serieses : Len(t) = 1 /\ ~t[1].many}}

Init ==
  /\ limit \in Limits
  /\ clock = 0
  /\ mem \in [Memories -> {Absent} \cup
                [ state : {"active", "archived"}, closed : {FALSE},
                  hash : Hashes ]]
  /\ \A m \in Memories : Exists(m) <=> m \in Standing
  /\ \A m, n \in Standing : mem[m].hash = mem[n].hash => m = n
  /\ limit # NULL => Cardinality({m \in Memories : ActiveLive(m)}) <= limit
  /\ facts = [f \in FactIds |-> NoFact]
  /\ prop \in [Proposals ->
                [status : {"proposed"}, of : Standing, row : OneRow]]
  /\ tx = [c \in Calls |-> Idle]
  /\ revived = {}

-----------------------------------------------------------------------------
(* Transactions.                                                           *)

Become(c, t) == tx' = [tx EXCEPT ![c] = t]
Go(c, step) == Become(c, [tx[c] EXCEPT !.pc = step])
End(c) == Become(c, [Idle EXCEPT !.pc = "done"])
Waiting == UNCHANGED <<limit, clock, mem, facts, prop, revived>>

Begin(c, t) ==
  /\ tx[c].pc = "idle"
  /\ Become(c, [t EXCEPT !.start = clock])
  /\ Waiting

(* What a transaction holds until it ends.                                 *)
HoldsQuota(d) ==
  /\ limit # NULL
  /\ tx[d].op = "create" /\ tx[d].state = "active"
  /\ tx[d].pc \in {"probe", "count", "insert", "keys", "commit"}
HoldsRow(d, m) ==
  /\ tx[d].op = "revise" /\ tx[d].of = m
  /\ tx[d].pc \in {"probe", "insert", "commit"}
HoldsShare(d, m) ==
  /\ tx[d].op = "apply" /\ tx[d].of = m
  /\ tx[d].pc \in {"claim", "keys", "commit"}
HoldsProposal(d, p) ==
  /\ tx[d].op = "apply" /\ tx[d].prop = p
  /\ tx[d].pc \in {"keys", "commit"}
HoldsHash(d, h) ==
  \/ tx[d].op \in {"create", "revise"} /\ tx[d].pc \in {"keys", "commit"}
       /\ tx[d].hash = h
  \/ \E m \in Memories : HoldsRow(d, m) /\ mem[m].hash = h

SingleKeys(rows) == {rows[i].key : i \in {j \in DOMAIN rows : ~rows[j].many}}
HoldsKey(d, k) ==
  tx[d].pc \in {"keys", "commit"} /\ k \in SingleKeys(tx[d].rows) \ tx[d].left

Others(c) == Calls \ {c}

(* Whoever a call waits for before its next step.                          *)
asGiven(c) ==
  LET at == {i \in DOMAIN tx[c].rows : tx[c].rows[i].key \in tx[c].left}
  IN  IF at = {} THEN {} ELSE {tx[c].rows[Min(at)].key}
inOrder(c) == IF tx[c].left = {} THEN {} ELSE {Min(tx[c].left)}
nextKeys(c) == inOrder(c)

sharesNothing(c) == {}
lockLiveSource(c) == {d \in Others(c) : HoldsRow(d, tx[c].of)}
noneWaited(c) == {}
quotaHolders(c) == {d \in Others(c) : HoldsQuota(d)}
keyHolders(c, k) == {d \in Others(c) : HoldsKey(d, k)}
keysUnlocked(c, k) == {}
keyLock(c, k) == keyHolders(c, k)
liveMemoriesLock(c) == quotaHolders(c)

WaitsFor(c) ==
  CASE tx[c].pc = "quota" -> liveMemoriesLock(c)
    [] tx[c].pc = "close" ->
         {d \in Others(c) : HoldsRow(d, tx[c].of) \/ HoldsShare(d, tx[c].of)}
    [] tx[c].pc = "insert" -> {d \in Others(c) : HoldsHash(d, tx[c].hash)}
    [] tx[c].pc = "source" -> lockLiveSource(c)
    [] tx[c].pc = "claim" -> {d \in Others(c) : HoldsProposal(d, tx[c].prop)}
    [] tx[c].pc = "keys" -> UNION {keyLock(c, k) : k \in nextKeys(c)}
    [] OTHER -> {}
Free(c) == WaitsFor(c) = {}

-----------------------------------------------------------------------------
(* writeMemory and writeImportedMemory: the quota's lock, the live content *)
(* hash, the count, the row, then the facts.  Only an import brings a row  *)
(* that is archived; it asks for no quota then and writes no fact with it. *)
Create(c, h, state, rows) ==
  /\ state = "archived" => rows = <<>>
  /\ Begin(c, [Idle EXCEPT !.pc = IF limit # NULL /\ state = "active"
                                  THEN "quota" ELSE "probe",
                           !.op = "create", !.hash = h, !.state = state,
                           !.rows = rows, !.left = SingleKeys(rows)])

LockQuota(c) ==
  /\ tx[c].pc = "quota"
  /\ Free(c)
  /\ Go(c, "probe")
  /\ Waiting

LiveWith(c, h) ==
  \E m \in Memories : Live(m) /\ m # tx[c].of /\ mem[m].hash = h

duplicate(c) == LiveWith(c, tx[c].hash)

Probe(c) ==
  /\ tx[c].pc = "probe"
  /\ IF duplicate(c) THEN End(c)
     ELSE Go(c, IF HoldsQuota(c) THEN "count" ELSE "insert")
  /\ Waiting

CountLive(c) ==
  /\ tx[c].pc = "count"
  /\ IF Cardinality({m \in Memories : ActiveLive(m)}) >= limit
     THEN End(c) ELSE Go(c, "insert")
  /\ Waiting

(* The unique index waits for whoever holds the hash, then decides.        *)
Insert(c) ==
  /\ tx[c].pc = "insert"
  /\ Free(c)
  /\ IF LiveWith(c, tx[c].hash) THEN End(c)
     ELSE Go(c, IF tx[c].left = {} THEN "commit" ELSE "keys")
  /\ Waiting

(* reviseMemory: the predecessor is closed before the successor's insert,  *)
(* which consumes no quota.                                                *)
Revise(c, m, h) ==
  /\ Live(m)
  /\ Begin(c, [Idle EXCEPT !.pc = "close", !.op = "revise", !.of = m,
                           !.hash = h, !.state = "active"])

ClosePredecessor(c) ==
  /\ tx[c].pc = "close"
  /\ Free(c)
  /\ IF Live(tx[c].of) THEN Go(c, "probe") ELSE End(c)
  /\ Waiting

RowFree(m) == \A d \in Calls : ~HoldsRow(d, m) /\ ~HoldsShare(d, m)

(* archiveMemoryIn; archiveBlockerMemory closes the row as well.           *)
Archive(m) ==
  /\ ActiveLive(m)
  /\ RowFree(m)
  /\ \E blocker \in BOOLEAN :
       mem' = [mem EXCEPT ![m].state = "archived", ![m].closed = blocker]
  /\ UNCHANGED <<limit, clock, facts, prop, tx, revived>>

-----------------------------------------------------------------------------
(* Facts.                                                                  *)

startOf(c, i) == IF tx[c].rows[i].from = NULL THEN tx[c].start
                 ELSE tx[c].rows[i].from

(* byStart: an implicit start comes after an explicit one of that instant, *)
(* and the order of the input breaks ties.                                 *)
Follows(c, i, j) ==
  LET implicit(n) == IF tx[c].rows[n].from = NULL THEN 1 ELSE 0
      s == startOf(c, i)
      t == startOf(c, j)
  IN  \/ s < t
      \/ s = t /\ implicit(i) < implicit(j)
      \/ s = t /\ implicit(i) = implicit(j) /\ i < j

OpenOf(k) == {f \in FactIds : facts[f].key = k /\ facts[f].to = NULL}

closesAnything(from, start) == TRUE
closesBefore(from, start) == from <= start
replaces(from, start) == closesBefore(from, start)

nextInCall(c, group, i) ==
  {startOf(c, j) : j \in {n \in group : Follows(c, i, n)}}
endsBy(c, group, i) == nextInCall(c, group, i)

(* replaceValue, for every row that the call has for key k, in byStart's   *)
(* order: close what is open and started before, then insert the row, open *)
(* or up to the next value.  The statements see what is committed.         *)
writeKey(c, k) ==
  LET group == {i \in DOMAIN tx[c].rows : tx[c].rows[i].key = k
                                            /\ ~tx[c].rows[i].many}
      closing(f) ==
        {startOf(c, i) :
           i \in {n \in group : replaces(facts[f].from, startOf(c, n))}}
      ends(i) == endsBy(c, group, i)
                   \cup {facts[f].from :
                           f \in {g \in OpenOf(k) :
                                    ~replaces(facts[g].from, startOf(c, i))}}
      row(i) == [ key |-> k, from |-> startOf(c, i), many |-> FALSE,
                  prop |-> tx[c].prop,
                  to |-> IF ends(i) = {} THEN NULL ELSE Min(ends(i)) ]
  IN  {[id |-> f, fact |-> [facts[f] EXCEPT !.to = Min(closing(f))]] :
         f \in {g \in OpenOf(k) : closing(g) # {}}}
        \cup {[id |-> <<c, i>>, fact |-> row(i)] : i \in group}

WriteKey(c) ==
  /\ tx[c].pc = "keys"
  /\ Free(c)
  /\ \E k \in nextKeys(c) :
       Become(c, [tx[c] EXCEPT
                    !.left = @ \ {k}, !.out = @ \cup writeKey(c, k),
                    !.pc = IF tx[c].left = {k} THEN "commit" ELSE "keys"])
  /\ Waiting

(* insertPlain, after the single-valued rows.                              *)
plainRows(c) ==
  {[id |-> <<c, i>>,
    fact |-> [ key |-> tx[c].rows[i].key, from |-> startOf(c, i), to |-> NULL,
               many |-> TRUE, prop |-> NULL ]] :
     i \in {j \in DOMAIN tx[c].rows : tx[c].rows[j].many}}

Published(out) ==
  [f \in FactIds |-> IF \E o \in out : o.id = f
                     THEN (CHOOSE o \in out : o.id = f).fact ELSE facts[f]]

(* insertImportedFact: the window is replayed as it was exported.          *)
ImportFact(c, k, from) ==
  /\ tx[c].pc = "idle"
  /\ \E m \in Memories : Exists(m)
  /\ facts' = Published({[id |-> <<c, 1>>,
       fact |-> [key |-> k, from |-> from, to |-> NULL, many |-> TRUE,
                 prop |-> NULL]]})
  /\ End(c)
  /\ UNCHANGED <<limit, clock, mem, prop, revived>>

-----------------------------------------------------------------------------
(* Fact proposals.                                                         *)

ApplyFactProposal(c, p) ==
  Begin(c, [Idle EXCEPT !.pc = "source", !.op = "apply", !.prop = p,
                        !.of = prop[p].of, !.rows = <<prop[p].row>>,
                        !.left = SingleKeys(<<prop[p].row>>)])

LockLiveSource(c) ==
  /\ tx[c].pc = "source"
  /\ Free(c)
  /\ IF prop[tx[c].prop].status = "proposed" /\ ActiveLive(tx[c].of)
     THEN Go(c, "claim") ELSE End(c)
  /\ Waiting

takesAnyway(p) == TRUE
stillProposed(p) == prop[p].status = "proposed"
claimable(p) == stillProposed(p)

Claim(c) ==
  /\ tx[c].pc = "claim"
  /\ Free(c)
  /\ IF claimable(tx[c].prop)
     THEN Go(c, IF tx[c].left = {} THEN "commit" ELSE "keys") ELSE End(c)
  /\ Waiting

RejectFactProposal(p) ==
  /\ prop[p].status = "proposed"
  /\ \A d \in Calls : ~HoldsProposal(d, p)
  /\ prop' = [prop EXCEPT ![p].status = "rejected"]
  /\ UNCHANGED <<limit, clock, mem, facts, tx, revived>>

-----------------------------------------------------------------------------
Commit(c) ==
  LET t == tx[c]
      row == [state |-> t.state, closed |-> FALSE, hash |-> t.hash]
  IN  /\ t.pc = "commit"
      /\ mem' = [m \in Memories |->
                   IF m = c /\ t.op # "apply" THEN row
                   ELSE IF m = t.of /\ t.op = "revise"
                   THEN [mem[m] EXCEPT !.closed = TRUE]
                   ELSE mem[m]]
      /\ facts' = Published(t.out \cup plainRows(c))
      /\ prop' = IF t.op = "apply"
                 THEN [prop EXCEPT ![t.prop].status = "applied"] ELSE prop
      /\ revived' = IF t.op = "revise"
                         /\ (mem[t.of].state = "archived" \/ t.of \in revived)
                    THEN revived \cup {c} ELSE revived
      /\ End(c)
      /\ UNCHANGED <<limit, clock>>

(* An error or a crash: nothing of the transaction is there.               *)
Abort(c) ==
  /\ tx[c].pc \notin {"idle", "done"}
  /\ End(c)
  /\ Waiting

Tick ==
  /\ clock < MaxTime
  /\ clock' = clock + 1
  /\ UNCHANGED <<limit, mem, facts, prop, tx, revived>>

Starts(c) ==
  \/ \E h \in Hashes, state \in {"active", "archived"}, rows \in Serieses :
       Create(c, h, state, rows)
  \/ \E m \in Memories, h \in Hashes : Revise(c, m, h)
  \/ \E p \in Proposals : ApplyFactProposal(c, p)
  \/ \E k \in Keys, from \in Times : ImportFact(c, k, from)

Steps(c) ==
  \/ LockQuota(c)
  \/ Probe(c)
  \/ CountLive(c)
  \/ Insert(c)
  \/ ClosePredecessor(c)
  \/ LockLiveSource(c)
  \/ Claim(c)
  \/ WriteKey(c)
  \/ Commit(c)
  \/ Abort(c)

Next ==
  \/ \E c \in Calls : Starts(c)
  \/ \E c \in Calls : Steps(c)
  \/ \E m \in Memories : Archive(m)
  \/ \E p \in Proposals : RejectFactProposal(p)
  \/ Tick

Spec == Init /\ [][Next]_vars

-----------------------------------------------------------------------------
(* Properties.                                                             *)

Values(k) == {f \in FactIds : facts[f].key = k /\ ~facts[f].many}

Overlap(f, g) ==
  /\ facts[g].to = NULL \/ facts[f].from < facts[g].to
  /\ facts[f].to = NULL \/ facts[g].from < facts[f].to

(* facts-write.ts: however writes of a key overlap, and in whatever order  *)
(* they commit, one value at most is current, and a value is closed, or    *)
(* stored as history, only in favour of one that starts no earlier; "a     *)
(* series never overlaps itself", even when it lands below a newer value   *)
(* that another call commits.                                              *)
OneCurrentValue ==
  /\ \A k \in Keys :
       /\ Cardinality(OpenOf(k) \cap Values(k)) <= 1
       /\ \A f \in Values(k) :
            \E g \in OpenOf(k) : facts[g].from >= facts[f].from
  /\ \A k \in Keys : \A f, g \in Values(k) :
       f[1] = g[1] /\ f # g => ~Overlap(f, g)

(* applyFactProposal: however accepts, rejects, revises and archives race, *)
(* a proposal that is applied has become one fact and any other none, and  *)
(* until the fact is there its source is live.                             *)
OneFactPerDecision ==
  /\ \A p \in Proposals :
       Cardinality({f \in FactIds : facts[f].prop = p})
         = IF prop[p].status = "applied" THEN 1 ELSE 0
  /\ \A c \in Calls :
       tx[c].op = "apply" /\ tx[c].pc \in {"claim", "keys", "commit"}
         => ActiveLive(tx[c].of)

(* insertMemoryWithEvent: creations at the same time never take the tenant *)
(* past the quota; only revising an archived memory, which asks for none,  *)
(* adds to what the quota counts.                                          *)
QuotaHolds ==
  limit # NULL =>
    Cardinality({m \in Memories : ActiveLive(m) /\ m \notin revived}) <= limit

(* The quota's lock, rows, the live-hash index, proposals and fact keys    *)
(* are waited for in an order that never closes a cycle.                   *)
NoWaitCycle ==
  \A S \in SUBSET Calls : S # {} => \E c \in S : WaitsFor(c) \cap S = {}
=============================================================================
