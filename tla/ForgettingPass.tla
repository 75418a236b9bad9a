---------------------------- MODULE ForgettingPass ----------------------------
(***************************************************************************)
(* The forgetting pass of one tenant and the retention proposals that it   *)
(* stages: a pass reads candidates, asks a judge about them batch by batch *)
(* and stages what it answers, while people file, review, archive, revise  *)
(* and write memories, and reviewers accept and reject what is in the      *)
(* queue.                                                                  *)
(*                                                                         *)
(* All memories are of one scope and project and of one type; their order  *)
(* is the order in which they were created.  A pass stages one verdict at  *)
(* most on a memory, so its name and the memory's name the proposal.       *)
(***************************************************************************)
EXTENDS Integers, FiniteSets

CONSTANTS
  Passes,       \* runs of the pass, retries of a failed job among them
  Reviewers,    \* accepts at the same time
  Near,         \* pairs of memories whose similarity reaches the floor
  STALE_WINDOW_DAYS,
  BATCH_MAX_ITEMS,
  FirstMemories,  \* memories that are there at the start
  MaxMemory,    \* bound: memories that are ever written
  MaxTime,      \* bound of the clock, in days
  NULL

Memories == 1..MaxMemory
Times == 0..MaxTime
Verdicts == Passes \X Memories

ASSUME ForgettingPassAssumption ==
  /\ STALE_WINDOW_DAYS \in Nat
  /\ BATCH_MAX_ITEMS \in Nat \ {0}
  /\ MaxMemory \in Nat
  /\ FirstMemories \in 0..MaxMemory
  /\ MaxTime \in Nat
  /\ Near \subseteq SUBSET Memories
  /\ NULL \notin Memories \cup Verdicts

VARIABLES
  clock,      \* the database's clock
  blockers,   \* is the type of these memories `blocker`?
  mem,        \* memories: status, whether valid_to is set, freshness, and the
              \* proposal that took it out of the live set, if one did
  prop,       \* retention_proposals; `judged` is what its item was about
  pass,       \* each pass: where it stands, its candidates and verdicts, and
              \* the proposals that its first read could see
  review,     \* each review: where it stands, its proposal, what it locks
  answered    \* history: what reviewers were told of each proposal

vars == <<clock, blockers, mem, prop, pass, review, answered>>

-----------------------------------------------------------------------------
Unwritten == [status |-> "none", closed |-> FALSE, touched |-> 0, by |-> NULL]
Written(now) ==
  [status |-> "active", closed |-> FALSE, touched |-> now, by |-> NULL]
Unstaged ==
  [ status |-> "none", action |-> "keep", related |-> NULL, created |-> 0,
    judged |-> {} ]
IdlePass ==
  [ pc |-> "idle", singles |-> {}, items |-> {}, verdicts |-> {}, start |-> 0,
    live |-> {}, saw |-> {} ]
IdleReview == [pc |-> "idle", prop |-> NULL, holds |-> {}, ok |-> FALSE]

Live(m) == mem[m].status = "active" /\ ~mem[m].closed
Staged(v) == prop[v].status # "none"
Open(v) == prop[v].status = "proposed"
OpenVerdicts == {v \in Verdicts : Open(v)}
MemoryOf(v) == v[2]

Actions == {"keep", "archive", "supersede", "conflict"}
Items ==
  [ memory : Memories, with : Memories \cup {NULL}, newer : SUBSET Memories ]
Judgments ==
  [ memory : Memories, action : Actions, related : Memories \cup {NULL},
    judged : SUBSET Memories ]

MemoryRows ==
  [ status : {"none", "active", "archived"}, closed : BOOLEAN, touched : Times,
    by : Verdicts \cup {NULL} ]
ProposalRows ==
  [ status : {"none", "proposed", "applied", "rejected", "dismissed"},
    action : Actions, related : Memories \cup {NULL}, created : Times,
    judged : SUBSET Memories ]
PassStates ==
  [ pc : {"idle", "pairs", "batch", "lock", "insert", "done"},
    singles : SUBSET Memories, items : SUBSET Items,
    verdicts : SUBSET Judgments, start : Times, live : SUBSET Memories,
    saw : SUBSET Verdicts ]
ReviewStates ==
  [ pc : {"idle", "locked"}, prop : Verdicts \cup {NULL},
    holds : SUBSET Memories, ok : BOOLEAN ]

TypeOK ==
  /\ clock \in Times
  /\ blockers \in BOOLEAN
  /\ mem \in [Memories -> MemoryRows]
  /\ prop \in [Verdicts -> ProposalRows]
  /\ pass \in [Passes -> PassStates]
  /\ review \in [Reviewers -> ReviewStates]
  /\ answered \in [Verdicts -> SUBSET {"applied", "rejected"}]

Init ==
  /\ clock = 0
  /\ blockers \in BOOLEAN
  /\ mem = [m \in Memories |->
              IF m <= FirstMemories THEN Written(0) ELSE Unwritten]
  /\ prop = [v \in Verdicts |-> Unstaged]
  /\ pass = [s \in Passes |-> IdlePass]
  /\ review = [r \in Reviewers |-> IdleReview]
  /\ answered = [v \in Verdicts |-> {}]

-----------------------------------------------------------------------------
(* The candidate reads.                                                    *)

PassGoes(s, step) == pass' = [pass EXCEPT ![s].pc = step]
UserDidNothing == UNCHANGED <<clock, blockers, mem, review, answered>>
Elsewhere == UserDidNothing /\ UNCHANGED prop

Stale(m) == mem[m].touched < clock - STALE_WINDOW_DAYS

sinceTouched(v, judged) ==
  \A m \in judged : prop[v].created > mem[m].touched

forgetsOpen(m) ==
  \E v \in Verdicts : /\ Staged(v) /\ MemoryOf(v) = m
                      /\ sinceTouched(v, {m})
openOrSince(m) ==
  \E v \in Verdicts :
    \/ Open(v) /\ m \in {MemoryOf(v), prop[v].related}
    \/ Staged(v) /\ MemoryOf(v) = m /\ sinceTouched(v, {m})
judgedSinceTouched(m) == openOrSince(m)

ReadSingles(s) ==
  /\ pass[s].pc = "idle"
  /\ pass' = [pass EXCEPT ![s] =
       [@ EXCEPT !.pc = "pairs",
          !.singles = {m \in Memories : /\ Live(m) /\ Stale(m)
                                        /\ ~judgedSinceTouched(m)},
          !.saw = {v \in Verdicts : Staged(v)}]]
  /\ Elsewhere

pairSettled(a, b) ==
  \E v \in Verdicts :
    \/ Open(v) /\ {a, b} \cap {MemoryOf(v), prop[v].related} # {}
    \/ Staged(v) /\ MemoryOf(v) \in {a, b} /\ sinceTouched(v, {a, b})

conflictPairs ==
  {p \in Near :
     /\ ~blockers
     /\ \E a, b \in p : p = {a, b} /\ a < b /\ Live(a) /\ Live(b)
                          /\ ~pairSettled(a, b)}

Older(p) == CHOOSE a \in p : \A b \in p : a <= b
Newer(p) == CHOOSE b \in p : \A a \in p : a <= b

(* The pairs that buildItems keeps: in the order of the read, in which a   *)
(* pair whose older side is stale comes first, each that shares no memory  *)
(* with one that is kept.                                                  *)
Kept(found) ==
  {kept \in SUBSET found :
     /\ \A p, q \in kept : p = q \/ p \cap q = {}
     /\ \A q \in found \ kept : \E p \in kept :
          p \cap q # {} /\ (Stale(Older(q)) => Stale(Older(p)))}

(* buildItems, with the newer neighbours of each single.                   *)
ItemsOf(kept, singles) ==
  LET newer(m) == {n \in Memories : n > m /\ Live(n)}
  IN  {[memory |-> Older(p), with |-> Newer(p), newer |-> {}] : p \in kept}
      \cup {[memory |-> m, with |-> NULL, newer |-> newer(m)] :
              m \in {n \in singles \ UNION kept :
                       blockers => newer(n) # {}}}

ReadPairs(s) ==
  /\ pass[s].pc = "pairs"
  /\ \E kept \in Kept(conflictPairs) :
       pass' = [pass EXCEPT ![s] =
         [@ EXCEPT !.pc = "batch", !.singles = {},
                   !.items = ItemsOf(kept, pass[s].singles)]]
  /\ Elsewhere

-----------------------------------------------------------------------------
(* One batch: judgeBatch, verdictsFromAnswers, insertRetentionProposals.   *)

NoMoreItems(s) ==
  /\ pass[s].pc = "batch"
  /\ pass[s].items = {}
  /\ PassGoes(s, "done")
  /\ Elsewhere

(* What may be answered of an item: choices.  A verdict below its          *)
(* threshold is stored like a keep, but names what it would have named.    *)
ActionsOn(item) ==
  IF item.with # NULL THEN {"archive", "supersede", "conflict"}
  ELSE IF blockers THEN {"conflict"} ELSE {"archive", "supersede"}

Choices(item) ==
  LET against == IF item.with = NULL THEN item.newer ELSE {item.with}
      says(action, related) ==
        [ memory |-> item.memory, action |-> action, related |-> related,
          judged |-> {item.memory, item.with} \ {NULL} ]
  IN  {says("keep", n) : n \in against \cup {NULL}}
      \cup {says("archive", NULL) : a \in ActionsOn(item) \cap {"archive"}}
      \cup {says(a, n) : a \in ActionsOn(item) \ {"archive"}, n \in against}

Batches(items) ==
  {batch \in SUBSET items \ {{}} :
     /\ Cardinality(batch) <= BATCH_MAX_ITEMS
     /\ batch # items => Cardinality(batch) = BATCH_MAX_ITEMS
     /\ \A i \in batch, j \in items \ batch : i.with = NULL => j.with = NULL}

(* Pairs come before singles.  An item may be left without a verdict: it   *)
(* is judged on a later run.                                               *)
JudgeBatch(s) ==
  /\ pass[s].pc = "batch"
  /\ \E batch \in Batches(pass[s].items) :
       \E verdicts \in SUBSET UNION {Choices(i) : i \in batch} :
         /\ \A v, w \in verdicts : v.memory = w.memory => v = w
         /\ pass' = IF verdicts = {}
                    THEN [pass EXCEPT ![s].items = @ \ batch]
                    ELSE [pass EXCEPT ![s].pc = "lock", ![s].start = clock,
                                      ![s].items = @ \ batch,
                                      ![s].verdicts = verdicts]
  /\ Elsewhere

Named(v) == {v.memory, v.related} \ {NULL}
Held(m) == \E r \in Reviewers : m \in review[r].holds
Shared(m) == \E s \in Passes : pass[s].pc = "insert" /\ m \in pass[s].live
Free(m) == ~Held(m) /\ ~Shared(m)

(* The live rows are read FOR SHARE.                                       *)
LockNamed(s) ==
  LET named == UNION {Named(v) : v \in pass[s].verdicts}
  IN  /\ pass[s].pc = "lock"
      /\ \A m \in named : ~Held(m)
      /\ pass' = [pass EXCEPT ![s].pc = "insert",
                              ![s].live = {m \in named : Live(m)}]
      /\ Elsewhere

anyNamed(s) == {v \in pass[s].verdicts : v.memory \in pass[s].live}
allNamed(s) == {v \in pass[s].verdicts : Named(v) \subseteq pass[s].live}
stageable(s) == allNamed(s)

(* retention_proposals_open_idx: a verdict that is open already is skipped. *)
isOpenAlready(v) ==
  \E w \in OpenVerdicts : MemoryOf(w) = v.memory /\ prop[w].action = v.action

InsertVerdicts(s) ==
  /\ pass[s].pc = "insert"
  /\ LET inserted == {v \in stageable(s) : ~isOpenAlready(v)}
         row(v) ==
           [ status |-> IF v.action = "keep" THEN "dismissed" ELSE "proposed",
             action |-> v.action, related |-> v.related,
             created |-> pass[s].start, judged |-> v.judged ]
     IN  prop' = [p \in Verdicts |->
                    IF p[1] = s /\ \E v \in inserted : v.memory = p[2]
                    THEN row(CHOOSE v \in inserted : v.memory = p[2])
                    ELSE prop[p]]
  /\ pass' = [pass EXCEPT ![s] =
       [@ EXCEPT !.pc = "batch", !.verdicts = {}, !.start = 0, !.live = {}]]
  /\ UserDidNothing

(* The tenant has opted out, the budget or the gateway refuses, something  *)
(* throws or the worker dies: what is staged stays.                        *)
PassStops(s) ==
  /\ pass[s].pc \notin {"idle", "done"}
  /\ pass' = [pass EXCEPT ![s] =
       [IdlePass EXCEPT !.pc = "done", !.saw = pass[s].saw]]
  /\ Elsewhere

-----------------------------------------------------------------------------
(* Reviews.                                                                *)

ReviewEnds(r) == review' = [review EXCEPT ![r] = IdleReview]
BesidesReview == UNCHANGED <<clock, blockers, pass>>
Answer(v, status) ==
  /\ prop' = [prop EXCEPT ![v].status = status]
  /\ answered' = [answered EXCEPT ![v] = @ \cup {status}]

(* decideRetentionProposal: the claim by compare-and-set.                  *)
decidesStaged(v) == Staged(v)
decidesOpen(v) == Open(v)
decidable(v) == decidesOpen(v)

RejectProposal(v) ==
  /\ decidable(v)
  /\ Answer(v, "rejected")
  /\ BesidesReview /\ UNCHANGED <<mem, review>>

(* acceptRetentionProposal, a transaction: it looks for the open proposal  *)
(* and takes its locks, then makes its claim and has its effect.           *)
memoryOnly(v) == {MemoryOf(v)}
bothEnds(v) == {MemoryOf(v), prop[v].related} \ {NULL}
supersedeLocks(v) == bothEnds(v)

(* archiveMemoryIn looks at the memory without a lock first: one that is   *)
(* archived already is locked by nobody, one that is superseded refused.   *)
RowsToLock(v) ==
  CASE prop[v].action = "archive" ->
         IF mem[MemoryOf(v)].status = "archived" THEN {} ELSE {MemoryOf(v)}
    [] prop[v].action = "supersede" -> supersedeLocks(v)
    [] OTHER -> {MemoryOf(v)}

(* What the locked rows say of the verdict: judgeArchive, the check of the *)
(* older memory, the successor check of materializeEdgeIn.                 *)
Applicable(v) ==
  CASE prop[v].action = "archive" ->
         mem[MemoryOf(v)].status = "archived" \/ Live(MemoryOf(v))
    [] prop[v].action = "supersede" ->
         Live(MemoryOf(v)) /\ Live(prop[v].related)
    [] OTHER -> TRUE

LockMemories(r, v) ==
  /\ review[r].pc = "idle"
  /\ Open(v)
  /\ \A m \in RowsToLock(v) : Free(m)
  /\ review' = [review EXCEPT ![r] =
       [ pc |-> "locked", prop |-> v, holds |-> RowsToLock(v),
         ok |-> Applicable(v) ]]
  /\ BesidesReview /\ UNCHANGED <<mem, prop, answered>>

(* What is applied: archiveMemoryIn, materializeEdgeIn; the review of a    *)
(* conflict changes no memory.                                             *)
CommitAccept(r) ==
  LET v == review[r].prop
      m == MemoryOf(v)
      out == [mem[m] EXCEPT !.touched = clock, !.by = v]
  IN  /\ review[r].pc = "locked"
      /\ review[r].ok
      /\ decidable(v)
      /\ Answer(v, "applied")
      /\ mem' = CASE prop[v].action = "archive" /\ mem[m].status = "active" ->
                       [mem EXCEPT ![m] = [out EXCEPT !.status = "archived"]]
                  [] prop[v].action = "supersede" ->
                       [mem EXCEPT ![m] = [out EXCEPT !.closed = TRUE]]
                  [] OTHER -> mem
      /\ ReviewEnds(r)
      /\ BesidesReview

(* The verdict does not apply, the claim is lost, or the transaction       *)
(* fails: all of it is rolled back.                                        *)
ReviewFails(r) ==
  /\ review[r].pc = "locked"
  /\ ReviewEnds(r)
  /\ BesidesReview /\ UNCHANGED <<mem, prop, answered>>

-----------------------------------------------------------------------------
(* Everybody else.  A write of a memory is one transaction, which waits    *)
(* for the row.                                                            *)

BesidesMemories ==
  UNCHANGED <<clock, blockers, prop, pass, review, answered>>
NextMemory == Cardinality({m \in Memories : mem[m].status # "none"}) + 1

(* reaffirmMemoryIn, moveMemory.                                           *)
TouchMemory(m) ==
  /\ Live(m) /\ Free(m)
  /\ mem[m].touched < clock
  /\ mem' = [mem EXCEPT ![m].touched = clock]
  /\ BesidesMemories

ArchiveMemory(m) ==
  /\ Live(m) /\ Free(m)
  /\ mem' = [mem EXCEPT ![m].status = "archived", ![m].touched = clock]
  /\ BesidesMemories

ReviseMemory(m) ==
  /\ mem[m].status # "none" /\ ~mem[m].closed /\ Free(m)
  /\ NextMemory \in Memories
  /\ mem' = [mem EXCEPT ![m].closed = TRUE, ![m].touched = clock,
                        ![NextMemory] = Written(clock)]
  /\ BesidesMemories

Remember ==
  /\ NextMemory \in Memories
  /\ mem' = [mem EXCEPT ![NextMemory] = Written(clock)]
  /\ BesidesMemories

Tick ==
  /\ clock < MaxTime
  /\ clock' = clock + 1
  /\ UNCHANGED <<blockers, mem, prop, pass, review, answered>>

-----------------------------------------------------------------------------
PassSteps(s) ==
  \/ ReadSingles(s)
  \/ ReadPairs(s)
  \/ NoMoreItems(s)
  \/ JudgeBatch(s)
  \/ LockNamed(s)
  \/ InsertVerdicts(s)
  \/ PassStops(s)

ReviewSteps(r) ==
  \/ \E v \in Verdicts : LockMemories(r, v)
  \/ CommitAccept(r)
  \/ ReviewFails(r)

UserSteps ==
  \/ \E m \in Memories : TouchMemory(m)
  \/ \E m \in Memories : ArchiveMemory(m)
  \/ \E m \in Memories : ReviseMemory(m)
  \/ Remember

Next ==
  \/ \E s \in Passes : PassSteps(s)
  \/ \E v \in Verdicts : RejectProposal(v)
  \/ \E r \in Reviewers : ReviewSteps(r)
  \/ UserSteps
  \/ Tick

Spec == Init /\ [][Next]_vars

-----------------------------------------------------------------------------
(* Properties.                                                             *)

(* acceptRetentionProposal, decideRetentionProposal: whatever races, one   *)
(* reviewer at most has decided a proposal; what an accept says was        *)
(* applied is so, and no memory left the live set for a proposal that      *)
(* nobody accepted.                                                        *)
VerdictsHold ==
  /\ \A v \in Verdicts :
       answered[v] = {prop[v].status} \cap {"applied", "rejected"}
  /\ \A v \in Verdicts : prop[v].status = "applied" =>
       /\ prop[v].action = "archive" => mem[MemoryOf(v)].status = "archived"
       /\ prop[v].action = "supersede" => mem[MemoryOf(v)].by = v
  /\ \A m \in Memories : mem[m].by # NULL =>
       /\ prop[mem[m].by].status = "applied"
       /\ MemoryOf(mem[m].by) = m

(* insertRetentionProposals, materializeEdgeIn: a judgment may be stale by *)
(* the time it comes back, and a proposal by the time it is accepted; no   *)
(* verdict enters the queue, and no memory is superseded from it, unless   *)
(* every memory that it names is live at that very step.                   *)
NamesTheLive ==
  [][/\ \A v \in Verdicts : ~Staged(v) /\ Staged(v)' =>
          \A m \in {MemoryOf(v), prop'[v].related} \ {NULL} : Live(m)
     /\ \A m \in Memories :
          /\ mem'[m].by # mem[m].by
          /\ prop[mem'[m].by].action = "supersede"
          => Live(m) /\ Live(prop[mem'[m].by].related)]_vars

(* "A memory is judged again only after it changes, and never while it has *)
(* an OPEN proposal" (forgetting-candidates.ts): across passes that do not *)
(* overlap, through batches that fail and candidates that are judged late. *)
(* Of passes that do, one at most asks of a memory what is still open.     *)
Anew(v, judged) ==
  /\ Open(v) => judged \cap {MemoryOf(v), prop[v].related} = {}
  /\ MemoryOf(v) \in judged =>
       \E m \in judged : prop[v].created <= mem[m].touched

JudgedAnew ==
  /\ \A v, w \in Verdicts :
       Staged(w) /\ v \in pass[w[1]].saw => Anew(v, prop[w].judged)
  /\ \A v, w \in OpenVerdicts :
       MemoryOf(v) = MemoryOf(w) /\ prop[v].action = prop[w].action => v = w
=============================================================================
