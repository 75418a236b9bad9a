------------------------- MODULE ForgettingPassProofs -------------------------
(***************************************************************************)
(* What the properties of ForgettingPass rest on: a pass stages a verdict  *)
(* at most once on a memory, a row that somebody has locked stays as it    *)
(* was found, and a memory that has left the live set stays out.           *)
(***************************************************************************)
EXTENDS ForgettingPass, FiniteSetTheorems, TLAPS

Judged(item) == {item.memory, item.with} \ {NULL}
Unasked(s, m) == ~Staged(<<s, m>>)
WrittenMemories == {m \in Memories : mem[m].status # "none"}

(* Memories are written in order; one that a proposal took out of the live *)
(* set stays out of it.                                                    *)
MemoriesOK ==
  /\ \E n \in 0..MaxMemory : WrittenMemories = 1..n
  /\ \A m \in Memories : /\ mem[m].touched <= clock
                         /\ mem[m].by # NULL => mem[m].status # "none" /\ ~Live(m)

(* A supersede names another memory.                                       *)
ProposalsOK ==
  \A v \in Verdicts : prop[v].action = "supersede" => prop[v].related \in Memories

(* What a pass has in hand, it has not staged; it is about what the pass   *)
(* was right to read; and the rows that it has shared are live.            *)
FreshOK(s) ==
  /\ pass[s].pc \in {"idle", "pairs"} =>
       pass[s].items = {} /\ \A m \in Memories : Unasked(s, m)
  /\ pass[s].pc \in {"idle", "pairs", "batch"} => pass[s].verdicts = {}
  /\ \A i \in pass[s].items : Unasked(s, i.memory)
  /\ \A i, j \in pass[s].items : i.memory = j.memory => i = j
  /\ \A v \in pass[s].verdicts :
       /\ Unasked(s, v.memory)
       /\ v.action = "supersede" => v.related \in Memories
       /\ \A i \in pass[s].items : i.memory # v.memory
  /\ \A v, w \in pass[s].verdicts : v.memory = w.memory => v = w

SightOK(s) ==
  \A v \in pass[s].saw :
    /\ Staged(v)
    /\ \A m \in pass[s].singles : Anew(v, {m})
    /\ \A i \in pass[s].items : Anew(v, Judged(i))
    /\ \A w \in pass[s].verdicts : Anew(v, w.judged)

ShareOK(s) == pass[s].pc = "insert" => \A m \in pass[s].live : Live(m)

(* What a review has found holds while it has its locks.                   *)
ReviewOK(r) ==
  review[r].pc = "locked" =>
    /\ review[r].prop \in Verdicts
    /\ Staged(review[r].prop)
    /\ review[r].ok =>
         LET v == review[r].prop
         IN  /\ prop[v].action = "archive" =>
                  \/ mem[MemoryOf(v)].status = "archived"
                  \/ MemoryOf(v) \in review[r].holds /\ Live(MemoryOf(v))
             /\ prop[v].action = "supersede" =>
                  \A m \in {MemoryOf(v), prop[v].related} :
                    m \in review[r].holds /\ Live(m)

LocksOK ==
  /\ \A r, t \in Reviewers : r # t => review[r].holds \cap review[t].holds = {}
  /\ \A r \in Reviewers, s \in Passes :
       pass[s].pc = "insert" => review[r].holds \cap pass[s].live = {}

IInv ==
  /\ TypeOK
  /\ MemoriesOK
  /\ ProposalsOK
  /\ \A s \in Passes : FreshOK(s) /\ SightOK(s) /\ ShareOK(s)
  /\ \A r \in Reviewers : ReviewOK(r)
  /\ LocksOK
  /\ VerdictsHold
  /\ JudgedAnew

-----------------------------------------------------------------------------
(* What every step does: a row of the queue keeps what it says, none is    *)
(* opened again, and freshness only moves on.                              *)
Onward ==
  /\ \A v \in Verdicts : Staged(v) =>
       /\ Staged(v)'
       /\ prop'[v].action = prop[v].action
       /\ prop'[v].related = prop[v].related
       /\ prop'[v].created = prop[v].created
       /\ prop'[v].judged = prop[v].judged
       /\ Open(v)' => Open(v)
  /\ \A m \in Memories : mem[m].touched <= mem'[m].touched

(* What was judged anew of a verdict stays so.                             *)
LEMMA AnewKept ==
  ASSUME TypeOK, TypeOK', Onward, NEW v \in Verdicts, Staged(v),
         NEW J \in SUBSET Memories, Anew(v, J)
  PROVE  Anew(v, J)'
<1>1. Open(v)' => J \cap {MemoryOf(v), prop'[v].related} = {}
  BY DEF Onward, Anew
<1>2. ASSUME MemoryOf(v) \in J
      PROVE  \E m \in J : prop'[v].created <= mem'[m].touched
  <2>1. PICK m \in J : prop[v].created <= mem[m].touched
    BY <1>2 DEF Anew
  <2>2. /\ prop'[v].created = prop[v].created
        /\ mem[m].touched <= mem'[m].touched
    BY DEF Onward
  <2>3. /\ prop[v].created \in Nat
        /\ mem[m].touched \in Nat
        /\ mem'[m].touched \in Nat
    BY DEF TypeOK, MemoryRows, ProposalRows, Times
  <2> QED BY <2>1, <2>2, <2>3
<1> QED BY <1>1, <1>2 DEF Anew

(* A pass that does nothing, and of which nothing new is staged, has in    *)
(* hand what it had.                                                       *)
LEMMA PassKept ==
  ASSUME TypeOK, TypeOK', Onward, NEW s \in Passes, pass'[s] = pass[s],
         \A m \in Memories : Unasked(s, m) => Unasked(s, m)',
         FreshOK(s), SightOK(s)
  PROVE  FreshOK(s)' /\ SightOK(s)'
<1>1. /\ pass[s].singles \in SUBSET Memories
      /\ pass[s].items \in SUBSET Items
      /\ pass[s].verdicts \in SUBSET Judgments
      /\ pass[s].saw \in SUBSET Verdicts
  BY DEF TypeOK, PassStates
<1>2. FreshOK(s)'
  <2>1. \A i \in pass[s].items : i.memory \in Memories
    BY <1>1 DEF Items
  <2>2. \A v \in pass[s].verdicts : v.memory \in Memories
    BY <1>1 DEF Judgments
  <2> QED BY <2>1, <2>2 DEF FreshOK
<1>3. ASSUME NEW v \in pass[s].saw
      PROVE  /\ Staged(v)'
             /\ \A m \in pass[s].singles : Anew(v, {m})'
             /\ \A i \in pass[s].items : Anew(v, Judged(i))'
             /\ \A w \in pass[s].verdicts : Anew(v, w.judged)'
  <2>1. v \in Verdicts /\ Staged(v)
    BY <1>1, <1>3 DEF SightOK
  <2>2. Staged(v)'
    BY <2>1 DEF Onward
  <2>3. ASSUME NEW m \in pass[s].singles
        PROVE  Anew(v, {m})'
    <3>1. {m} \in SUBSET Memories /\ Anew(v, {m})
      BY <1>1, <1>3 DEF SightOK
    <3> QED BY <2>1, <3>1, AnewKept
  <2>4. ASSUME NEW i \in pass[s].items
        PROVE  Anew(v, Judged(i))'
    <3>1. Judged(i) \in SUBSET Memories
      BY <1>1 DEF Judged, Items
    <3>2. Anew(v, Judged(i))
      BY <1>3 DEF SightOK
    <3> QED BY <2>1, <3>1, <3>2, AnewKept
  <2>5. ASSUME NEW w \in pass[s].verdicts
        PROVE  Anew(v, w.judged)'
    <3>1. w.judged \in SUBSET Memories
      BY <1>1 DEF Judgments
    <3>2. Anew(v, w.judged)
      BY <1>3 DEF SightOK
    <3> QED BY <2>1, <3>1, <3>2, AnewKept
  <2> QED BY <2>2, <2>3, <2>4, <2>5
<1>4. SightOK(s)'
  BY <1>3 DEF SightOK
<1> QED BY <1>2, <1>4

(* What a review has found still holds when nobody writes a live row that  *)
(* it has locked.                                                          *)
LEMMA ReviewKept ==
  ASSUME TypeOK, Onward, NEW r \in Reviewers, review'[r] = review[r],
         ReviewOK(r),
         \A m \in review[r].holds : Live(m) => mem'[m] = mem[m],
         \A m \in Memories : mem[m].status = "archived" =>
                               mem'[m].status = "archived"
  PROVE  ReviewOK(r)'
<1> SUFFICES ASSUME review[r].pc = "locked"
             PROVE  ReviewOK(r)'
  BY DEF ReviewOK
<1> DEFINE v == review[r].prop
<1>1. v \in Verdicts /\ Staged(v) /\ MemoryOf(v) \in Memories
  BY DEF ReviewOK, Verdicts, MemoryOf
<1>2. /\ Staged(v)'
      /\ prop'[v].action = prop[v].action
      /\ prop'[v].related = prop[v].related
  BY <1>1 DEF Onward
<1>3. \A m \in review[r].holds : Live(m) => Live(m)'
  BY DEF Live
<1>4. ASSUME review[r].ok
      PROVE  /\ prop'[v].action = "archive" =>
                  \/ mem'[MemoryOf(v)].status = "archived"
                  \/ MemoryOf(v) \in review[r].holds /\ Live(MemoryOf(v))'
             /\ prop'[v].action = "supersede" =>
                  \A m \in {MemoryOf(v), prop'[v].related} :
                    m \in review[r].holds /\ Live(m)'
  BY <1>1, <1>2, <1>3, <1>4 DEF ReviewOK
<1> QED BY <1>1, <1>2, <1>4 DEF ReviewOK

(* When nothing is staged or opened, what was judged anew stays so.        *)
LEMMA JudgedKept ==
  ASSUME TypeOK, TypeOK', Onward, JudgedAnew,
         \A s \in Passes : SightOK(s) /\ pass'[s].saw = pass[s].saw,
         \A v \in Verdicts : Staged(v)' => Staged(v)
  PROVE  JudgedAnew'
<1>1. ASSUME NEW v \in Verdicts, NEW w \in Verdicts,
             Staged(w)', v \in pass'[w[1]].saw
      PROVE  Anew(v, prop[w].judged)'
  <2>1. w[1] \in Passes
    BY DEF Verdicts
  <2>2. Staged(v) /\ Anew(v, prop[w].judged)
    BY <1>1, <2>1 DEF SightOK, JudgedAnew
  <2>3. prop'[w].judged = prop[w].judged /\ prop[w].judged \in SUBSET Memories
    BY <1>1 DEF Onward, TypeOK, ProposalRows
  <2>4. \A J \in SUBSET Memories : Anew(v, J) => Anew(v, J)'
    BY <2>2, AnewKept
  <2> QED BY <2>2, <2>3, <2>4 DEF Anew
<1>2. \A v \in Verdicts : Open(v)' => Staged(v) /\ Open(v)
  BY DEF Onward, Open, Staged
<1>3. (\A v, w \in OpenVerdicts :
         MemoryOf(v) = MemoryOf(w) /\ prop[v].action = prop[w].action => v = w)'
  BY <1>2 DEF OpenVerdicts, JudgedAnew, Onward
<1> QED BY <1>1, <1>3 DEF JudgedAnew

-----------------------------------------------------------------------------
(* Types.                                                                  *)

(* The ends of a pair that the pass reads.                                 *)
LEMMA PairEnds ==
  ASSUME NEW p \in conflictPairs
  PROVE  /\ Older(p) \in Memories /\ Newer(p) \in Memories
         /\ p = {Older(p), Newer(p)}
         /\ ~pairSettled(Older(p), Newer(p))
<1>1. PICK a, b \in p : p = {a, b} /\ a < b /\ ~pairSettled(a, b)
  BY DEF conflictPairs
<1>2. a \in Memories /\ b \in Memories
  BY ForgettingPassAssumption DEF conflictPairs
<1>3. Older(p) = a /\ Newer(p) = b
  BY <1>1, <1>2 DEF Older, Newer, Memories
<1> QED BY <1>1, <1>2, <1>3

LEMMA ChoicesTyped == \A i \in Items : Choices(i) \in SUBSET Judgments
BY DEF Items, Choices, Judgments, ActionsOn, Actions

(* Which verdicts a pass stages, and the rows that it writes of them.      *)
RowOf(s, v) ==
  [ status |-> IF v.action = "keep" THEN "dismissed" ELSE "proposed",
    action |-> v.action, related |-> v.related,
    created |-> pass[s].start, judged |-> v.judged ]
Inserted(s) == {v \in stageable(s) : ~isOpenAlready(v)}

LEMMA InsertedRows ==
  ASSUME NEW s \in Passes, InsertVerdicts(s), NEW p \in Verdicts
  PROVE  \/ prop'[p] = prop[p]
         \/ /\ p[1] = s
            /\ \E v \in Inserted(s) : v.memory = p[2] /\ prop'[p] = RowOf(s, v)
<1>1. prop' = [q \in Verdicts |->
        IF q[1] = s /\ \E v \in Inserted(s) : v.memory = q[2]
        THEN RowOf(s, CHOOSE v \in Inserted(s) : v.memory = q[2])
        ELSE prop[q]]
  BY DEF InsertVerdicts, RowOf, Inserted
<1> QED BY <1>1

LEMMA InsertedTyped ==
  ASSUME TypeOK, NEW s \in Passes, InsertVerdicts(s)
  PROVE  prop' \in [Verdicts -> ProposalRows]
<1>1. pass[s].verdicts \in SUBSET Judgments /\ pass[s].start \in Times
  BY DEF TypeOK, PassStates
<1>2. \A v \in Judgments : RowOf(s, v) \in ProposalRows
  BY <1>1 DEF Judgments, RowOf, ProposalRows
<1>3. \A v \in Inserted(s) : v \in Judgments
  BY <1>1 DEF Inserted, stageable, allNamed
<1>4. \A p \in Verdicts : prop'[p] \in ProposalRows
  BY <1>2, <1>3, InsertedRows DEF TypeOK
<1>5. prop' = [p \in Verdicts |-> prop'[p]]
  BY DEF InsertVerdicts
<1> QED BY <1>4, <1>5

LEMMA PassTyped ==
  ASSUME TypeOK, NEW s \in Passes, PassSteps(s)
  PROVE  TypeOK'
<1> USE DEF Elsewhere, UserDidNothing
<1>0. /\ MaxTime \in Nat /\ clock \in Times /\ 0 \in Times
      /\ pass[s] \in PassStates
  BY ForgettingPassAssumption DEF TypeOK, Times
<1> SUFFICES pass'[s] \in PassStates /\ prop' \in [Verdicts -> ProposalRows]
             /\ pass' = [pass EXCEPT ![s] = pass'[s]]
             /\ UserDidNothing
  BY DEF TypeOK
<1>a. prop = prop' => prop' \in [Verdicts -> ProposalRows]
  BY DEF TypeOK
<1>b. ASSUME NEW p \in PassStates, pass' = [pass EXCEPT ![s] = p]
      PROVE  pass'[s] \in PassStates /\ pass' = [pass EXCEPT ![s] = pass'[s]]
  BY <1>b DEF TypeOK
<1>1. CASE ReadSingles(s)
  <2> DEFINE p == [pass[s] EXCEPT !.pc = "pairs",
          !.singles = {m \in Memories : /\ Live(m) /\ Stale(m)
                                        /\ ~judgedSinceTouched(m)},
          !.saw = {v \in Verdicts : Staged(v)}]
  <2>1. p \in PassStates
    BY <1>0 DEF PassStates
  <2> QED BY <1>1, <1>a, <1>b, <2>1 DEF ReadSingles
<1>2. CASE ReadPairs(s)
  <2>1. PICK kept \in Kept(conflictPairs) :
          pass' = [pass EXCEPT ![s] =
            [@ EXCEPT !.pc = "batch", !.singles = {},
                      !.items = ItemsOf(kept, pass[s].singles)]]
    BY <1>2 DEF ReadPairs
  <2>2. \A p \in kept : Older(p) \in Memories /\ Newer(p) \in Memories
    BY PairEnds DEF Kept
  <2>3. pass[s].singles \in SUBSET Memories
    BY <1>0 DEF PassStates
  <2>4. ItemsOf(kept, pass[s].singles) \in SUBSET Items
    BY <2>2, <2>3 DEF ItemsOf, Items
  <2>5. [pass[s] EXCEPT !.pc = "batch", !.singles = {},
                        !.items = ItemsOf(kept, pass[s].singles)] \in PassStates
    BY <1>0, <2>4 DEF PassStates
  <2> QED BY <1>2, <1>a, <1>b, <2>1, <2>5 DEF ReadPairs
<1>3. CASE NoMoreItems(s)
  <2>1. [pass[s] EXCEPT !.pc = "done"] \in PassStates
    BY <1>0 DEF PassStates
  <2> QED BY <1>3, <1>a, <1>b, <2>1 DEF NoMoreItems, PassGoes
<1>4. CASE JudgeBatch(s)
  <2>1. PICK batch \in Batches(pass[s].items) :
          \E verdicts \in SUBSET UNION {Choices(i) : i \in batch} :
            \/ pass' = [pass EXCEPT ![s].items = @ \ batch]
            \/ pass' = [pass EXCEPT ![s].pc = "lock", ![s].start = clock,
                                    ![s].items = @ \ batch,
                                    ![s].verdicts = verdicts]
    BY <1>4 DEF JudgeBatch
  <2>2. PICK verdicts \in SUBSET UNION {Choices(i) : i \in batch} :
            \/ pass' = [pass EXCEPT ![s].items = @ \ batch]
            \/ pass' = [pass EXCEPT ![s].pc = "lock", ![s].start = clock,
                                    ![s].items = @ \ batch,
                                    ![s].verdicts = verdicts]
    BY <2>1
  <2>3. batch \in SUBSET Items
    BY <1>0 DEF Batches, PassStates
  <2>4. verdicts \in SUBSET Judgments
    BY <2>3, ChoicesTyped
  <2>5. /\ [pass[s] EXCEPT !.items = @ \ batch] \in PassStates
        /\ [pass[s] EXCEPT !.pc = "lock", !.start = clock, !.items = @ \ batch,
                           !.verdicts = verdicts] \in PassStates
    BY <1>0, <2>4 DEF PassStates
  <2>6. pass' = [pass EXCEPT ![s] = [pass[s] EXCEPT !.items = @ \ batch]]
        \/ pass' = [pass EXCEPT ![s] =
                     [pass[s] EXCEPT !.pc = "lock", !.start = clock,
                                     !.items = @ \ batch,
                                     !.verdicts = verdicts]]
    BY <2>2 DEF TypeOK
  <2>7. pass'[s] \in PassStates /\ pass' = [pass EXCEPT ![s] = pass'[s]]
    BY <1>b, <2>5, <2>6
  <2> QED BY <1>4, <1>a, <2>7 DEF JudgeBatch
<1>5. CASE LockNamed(s)
  <2> DEFINE named == UNION {Named(v) : v \in pass[s].verdicts}
  <2>1. named \in SUBSET Memories
    BY <1>0 DEF Named, Judgments, PassStates
  <2>2. [pass[s] EXCEPT !.pc = "insert", !.live = {m \in named : Live(m)}]
          \in PassStates
    BY <1>0, <2>1 DEF PassStates
  <2>3. pass' = [pass EXCEPT ![s] = [pass[s] EXCEPT !.pc = "insert",
                                       !.live = {m \in named : Live(m)}]]
    BY <1>5 DEF LockNamed, TypeOK
  <2> QED BY <1>5, <1>a, <1>b, <2>2, <2>3 DEF LockNamed
<1>6. CASE InsertVerdicts(s)
  <2>1. prop' \in [Verdicts -> ProposalRows]
    BY <1>6, InsertedTyped
  <2>2. [pass[s] EXCEPT !.pc = "batch", !.verdicts = {}, !.start = 0,
                        !.live = {}] \in PassStates
    BY <1>0 DEF PassStates
  <2> QED BY <1>6, <1>b, <2>1, <2>2 DEF InsertVerdicts
<1>7. CASE PassStops(s)
  <2>1. [IdlePass EXCEPT !.pc = "done", !.saw = pass[s].saw] \in PassStates
    BY <1>0 DEF PassStates, IdlePass
  <2> QED BY <1>7, <1>a, <1>b, <2>1 DEF PassStops
<1> QED BY <1>1, <1>2, <1>3, <1>4, <1>5, <1>6, <1>7 DEF PassSteps

LEMMA OtherTyped ==
  ASSUME TypeOK, \A r \in Reviewers : ReviewOK(r),
         \/ \E v \in Verdicts : RejectProposal(v)
         \/ \E r \in Reviewers : ReviewSteps(r)
         \/ UserSteps
         \/ Tick
         \/ UNCHANGED vars
  PROVE  TypeOK'
<1>0. /\ MaxTime \in Nat /\ clock \in Times /\ NULL \notin Memories
      /\ Written(clock) \in MemoryRows
      /\ IdleReview \in ReviewStates
  BY ForgettingPassAssumption
     DEF TypeOK, Times, Written, MemoryRows, IdleReview, ReviewStates
<1>1. CASE \E v \in Verdicts : RejectProposal(v)
  <2>1. PICK v \in Verdicts : RejectProposal(v)
    BY <1>1
  <2>2. [prop[v] EXCEPT !.status = "rejected"] \in ProposalRows
    BY DEF TypeOK, ProposalRows
  <2> QED BY <2>1, <2>2 DEF RejectProposal, Answer, BesidesReview, TypeOK
<1>2. CASE \E r \in Reviewers : ReviewSteps(r)
  <2>1. PICK r \in Reviewers : ReviewSteps(r)
    BY <1>2
  <2>2. CASE \E v \in Verdicts : LockMemories(r, v)
    <3>1. PICK v \in Verdicts : LockMemories(r, v)
      BY <2>2
    <3>2. /\ prop[v] \in ProposalRows /\ MemoryOf(v) \in Memories
          /\ prop[v].related \in Memories \cup {NULL}
      BY DEF TypeOK, Verdicts, MemoryOf, ProposalRows
    <3>3. RowsToLock(v) \in SUBSET Memories
      BY <3>2 DEF RowsToLock, supersedeLocks, bothEnds
    <3>4. Applicable(v) \in BOOLEAN
      BY DEF Applicable, Live
    <3>5. [ pc |-> "locked", prop |-> v, holds |-> RowsToLock(v),
            ok |-> Applicable(v) ] \in ReviewStates
      BY <3>3, <3>4 DEF ReviewStates
    <3> QED BY <3>1, <3>5 DEF LockMemories, BesidesReview, TypeOK
  <2>3. CASE CommitAccept(r)
    <3> DEFINE v == review[r].prop
               m == MemoryOf(v)
    <3>1. v \in Verdicts /\ m \in Memories
      BY <2>3 DEF CommitAccept, ReviewOK, Verdicts, MemoryOf
    <3>2. [prop[v] EXCEPT !.status = "applied"] \in ProposalRows
      BY <3>1 DEF TypeOK, ProposalRows
    <3>3. prop' \in [Verdicts -> ProposalRows]
          /\ answered' \in [Verdicts -> SUBSET {"applied", "rejected"}]
      BY <2>3, <3>1, <3>2 DEF CommitAccept, Answer, TypeOK
    <3> DEFINE out == [mem[m] EXCEPT !.touched = clock, !.by = v]
    <3>4. /\ [out EXCEPT !.status = "archived"] \in MemoryRows
          /\ [out EXCEPT !.closed = TRUE] \in MemoryRows
      BY <1>0, <3>1 DEF TypeOK, MemoryRows
    <3>5. \/ mem' = mem
          \/ mem' = [mem EXCEPT ![m] = [out EXCEPT !.status = "archived"]]
          \/ mem' = [mem EXCEPT ![m] = [out EXCEPT !.closed = TRUE]]
      BY <2>3 DEF CommitAccept
    <3>6. mem' \in [Memories -> MemoryRows]
      BY <3>1, <3>4, <3>5 DEF TypeOK
    <3>7. review' \in [Reviewers -> ReviewStates]
      BY <1>0, <2>3 DEF CommitAccept, ReviewEnds, TypeOK
    <3> QED BY <2>3, <3>3, <3>6, <3>7 DEF CommitAccept, BesidesReview, TypeOK
  <2>4. CASE ReviewFails(r)
    BY <1>0, <2>4 DEF ReviewFails, ReviewEnds, BesidesReview, TypeOK
  <2> QED BY <2>1, <2>2, <2>3, <2>4 DEF ReviewSteps
<1>3. CASE UserSteps
  <2>1. ASSUME NEW m \in Memories, NEW row \in MemoryRows,
               mem' = [mem EXCEPT ![m] = row], BesidesMemories
        PROVE  TypeOK'
    BY <2>1 DEF BesidesMemories, TypeOK
  <2>2. CASE \E m \in Memories : TouchMemory(m)
    <3>1. PICK m \in Memories : TouchMemory(m)
      BY <2>2
    <3>2. [mem[m] EXCEPT !.touched = clock] \in MemoryRows
      BY <1>0 DEF TypeOK, MemoryRows
    <3>3. mem' = [mem EXCEPT ![m] = [mem[m] EXCEPT !.touched = clock]]
      BY <3>1 DEF TouchMemory, TypeOK
    <3> QED BY <2>1, <3>1, <3>2, <3>3 DEF TouchMemory
  <2>3. CASE \E m \in Memories : ArchiveMemory(m)
    <3>1. PICK m \in Memories : ArchiveMemory(m)
      BY <2>3
    <3>2. [mem[m] EXCEPT !.status = "archived", !.touched = clock] \in MemoryRows
      BY <1>0 DEF TypeOK, MemoryRows
    <3>3. mem' = [mem EXCEPT ![m] = [mem[m] EXCEPT !.status = "archived",
                                                   !.touched = clock]]
      BY <3>1 DEF ArchiveMemory, TypeOK
    <3> QED BY <2>1, <3>1, <3>2, <3>3 DEF ArchiveMemory
  <2>4. CASE \E m \in Memories : ReviseMemory(m)
    <3>1. PICK m \in Memories : ReviseMemory(m)
      BY <2>4
    <3>2. [mem[m] EXCEPT !.closed = TRUE, !.touched = clock] \in MemoryRows
      BY <1>0 DEF TypeOK, MemoryRows
    <3>3. mem' \in [Memories -> MemoryRows]
      BY <1>0, <3>1, <3>2 DEF ReviseMemory, TypeOK
    <3> QED BY <3>1, <3>3 DEF ReviseMemory, BesidesMemories, TypeOK
  <2>5. CASE Remember
    BY <1>0, <2>1, <2>5 DEF Remember
  <2> QED BY <1>3, <2>2, <2>3, <2>4, <2>5 DEF UserSteps
<1>4. CASE Tick
  BY <1>0, <1>4 DEF Tick, TypeOK, Times
<1>5. CASE UNCHANGED vars
  BY <1>5 DEF vars, TypeOK
<1> QED BY <1>1, <1>2, <1>3, <1>4, <1>5

-----------------------------------------------------------------------------
(* What a step does beyond the invariant: the body of NamesTheLive.        *)
NamesLive ==
  /\ \A v \in Verdicts : ~Staged(v) /\ Staged(v)' =>
       \A m \in {MemoryOf(v), prop'[v].related} \ {NULL} : Live(m)
  /\ \A m \in Memories :
       /\ mem'[m].by # mem[m].by
       /\ prop[mem'[m].by].action = "supersede"
       => Live(m) /\ Live(prop[mem'[m].by].related)

(* A step of a pass that stages nothing.                                   *)
LEMMA PassStep ==
  ASSUME IInv, TypeOK', Elsewhere, NEW s \in Passes,
         \A t \in Passes \ {s} : pass'[t] = pass[t],
         FreshOK(s)', SightOK(s)', ShareOK(s)',
         pass'[s].pc = "insert" =>
           \A r \in Reviewers : review[r].holds \cap pass'[s].live = {},
         \/ pass'[s].saw = pass[s].saw
         \/ \A m \in Memories : Unasked(s, m)
  PROVE  IInv' /\ NamesLive
<1> USE DEF Elsewhere, UserDidNothing
<1>1. Onward
  <2>1. \A m \in Memories : mem[m].touched <= mem[m].touched
    BY DEF IInv, TypeOK, MemoryRows, Times
  <2> QED BY <2>1 DEF Onward, Staged, Open
<1>2. ASSUME NEW t \in Passes
      PROVE  FreshOK(t)' /\ SightOK(t)' /\ ShareOK(t)'
  <2>1. CASE t = s
    BY <2>1
  <2>2. CASE t # s
    <3>1. pass'[t] = pass[t]
      BY <2>2
    <3>2. \A m \in Memories : Unasked(t, m) => Unasked(t, m)'
      BY DEF Unasked, Staged
    <3>3. FreshOK(t)' /\ SightOK(t)'
      BY <1>1, <3>1, <3>2, PassKept DEF IInv
    <3>4. ShareOK(t)'
      BY <3>1 DEF IInv, ShareOK, Live
    <3> QED BY <3>3, <3>4
  <2> QED BY <2>1, <2>2
<1>3. MemoriesOK' /\ ProposalsOK' /\ VerdictsHold'
  BY DEF IInv, MemoriesOK, WrittenMemories, Live, ProposalsOK, VerdictsHold
<1>4. \A r \in Reviewers : ReviewOK(r)'
  BY DEF IInv, ReviewOK, Staged, Live
<1>5. LocksOK'
  BY DEF IInv, LocksOK
<1>6. JudgedAnew'
  <2>1. ASSUME NEW v \in Verdicts, NEW w \in Verdicts,
               Staged(w), v \in pass'[w[1]].saw
        PROVE  Anew(v, prop[w].judged)
    <3>1. w[1] \in Passes /\ w[2] \in Memories /\ w = <<w[1], w[2]>>
      BY DEF Verdicts
    <3>2. w[1] = s => pass'[s].saw = pass[s].saw
      BY <2>1, <3>1 DEF Unasked
    <3>3. v \in pass[w[1]].saw
      BY <2>1, <3>1, <3>2
    <3> QED BY <2>1, <3>3 DEF IInv, JudgedAnew
  <2> QED BY <2>1 DEF IInv, JudgedAnew, Anew, Staged, Open, OpenVerdicts
<1>7. NamesLive
  BY DEF NamesLive, Staged
<1> QED BY <1>2, <1>3, <1>4, <1>5, <1>6, <1>7 DEF IInv

LEMMA ReadSinglesStep ==
  ASSUME IInv, TypeOK', NEW s \in Passes, ReadSingles(s)
  PROVE  IInv' /\ NamesLive
<1> DEFINE found == {m \in Memories : Live(m) /\ Stale(m) /\ ~judgedSinceTouched(m)}
           seen == {v \in Verdicts : Staged(v)}
<1>0. Elsewhere /\ pass[s].pc = "idle" /\ pass[s] \in PassStates
  BY DEF ReadSingles, IInv, TypeOK
<1>1. pass' = [pass EXCEPT ![s] = [pass[s] EXCEPT !.pc = "pairs",
                                     !.singles = found, !.saw = seen]]
  BY DEF ReadSingles
<1>2. /\ pass'[s].pc = "pairs"
      /\ pass'[s].singles = found
      /\ pass'[s].saw = seen
      /\ pass'[s].items = pass[s].items
      /\ pass'[s].verdicts = pass[s].verdicts
      /\ \A t \in Passes \ {s} : pass'[t] = pass[t]
  BY <1>0, <1>1 DEF IInv, TypeOK, PassStates
<1>3. \A m \in Memories : Unasked(s, m)
  BY <1>0 DEF IInv, FreshOK
<1>4. pass[s].items = {} /\ pass[s].verdicts = {}
  BY <1>0 DEF IInv, FreshOK
<1>5. FreshOK(s)'
  BY <1>0, <1>2, <1>3, <1>4
     DEF FreshOK, Unasked, Staged, Elsewhere, UserDidNothing
<1>6. ASSUME NEW v \in seen, NEW m \in found
      PROVE  Anew(v, {m})
  <2>1. /\ Open(v) => m \notin {MemoryOf(v), prop[v].related}
        /\ MemoryOf(v) = m => ~sinceTouched(v, {m})
    BY <1>6 DEF judgedSinceTouched, openOrSince
  <2>2. MemoryOf(v) = m => prop[v].created <= mem[m].touched
    BY <1>6, <2>1
       DEF sinceTouched, IInv, TypeOK, MemoryRows, ProposalRows, Times
  <2> QED BY <2>1, <2>2 DEF Anew
<1>7. SightOK(s)'
  BY <1>0, <1>2, <1>4, <1>6
     DEF SightOK, Anew, Staged, Open, Elsewhere, UserDidNothing
<1>8. ShareOK(s)'
  BY <1>2 DEF ShareOK
<1> QED BY <1>0, <1>2, <1>3, <1>5, <1>7, <1>8, PassStep

(* What a pass judges of a pair, and of a single, was not settled.         *)
LEMMA ItemsAreNew ==
  ASSUME IInv, NEW s \in Passes, NEW kept \in Kept(conflictPairs),
         NEW i \in ItemsOf(kept, pass[s].singles), NEW v \in pass[s].saw
  PROVE  Anew(v, Judged(i))
<1>0. /\ v \in Verdicts /\ Staged(v) /\ pass[s].singles \in SUBSET Memories
      /\ NULL \notin Memories
  BY ForgettingPassAssumption DEF IInv, SightOK, TypeOK, PassStates
<1>1. CASE \E p \in kept : i.memory = Older(p) /\ i.with = Newer(p)
  <2>1. PICK p \in kept : i.memory = Older(p) /\ i.with = Newer(p)
    BY <1>1
  <2> DEFINE a == Older(p)
             b == Newer(p)
  <2>2. /\ a \in Memories /\ b \in Memories
        /\ ~pairSettled(a, b)
    BY PairEnds DEF Kept
  <2>3. Judged(i) = {a, b}
    BY <1>0, <2>1, <2>2 DEF Judged
  <2>4. /\ Open(v) => {a, b} \cap {MemoryOf(v), prop[v].related} = {}
        /\ MemoryOf(v) \in {a, b} => ~sinceTouched(v, {a, b})
    BY <1>0, <2>2 DEF pairSettled
  <2> HIDE DEF a, b
  <2>5. MemoryOf(v) \in {a, b} =>
          \E m \in {a, b} : prop[v].created <= mem[m].touched
    BY <1>0, <2>2, <2>4
       DEF sinceTouched, IInv, TypeOK, MemoryRows, ProposalRows, Times
  <2> QED BY <2>3, <2>4, <2>5 DEF Anew
<1>2. CASE \E m \in pass[s].singles : i.memory = m /\ i.with = NULL
  <2>1. PICK m \in pass[s].singles : i.memory = m /\ i.with = NULL
    BY <1>2
  <2>2. Judged(i) = {m}
    BY <1>0, <2>1 DEF Judged
  <2> QED BY <2>2 DEF IInv, SightOK
<1> QED BY <1>1, <1>2 DEF ItemsOf

(* Each memory is judged at most once per run.                             *)
LEMMA ItemsAreDistinct ==
  ASSUME IInv, NEW s \in Passes, NEW kept \in Kept(conflictPairs),
         NEW i \in ItemsOf(kept, pass[s].singles),
         NEW j \in ItemsOf(kept, pass[s].singles),
         i.memory = j.memory
  PROVE  i = j
<1> DEFINE pair(p) == [memory |-> Older(p), with |-> Newer(p), newer |-> {}]
           single(m) == [ memory |-> m, with |-> NULL,
                          newer |-> {n \in Memories : n > m /\ Live(n)} ]
<1>1. \A k \in ItemsOf(kept, pass[s].singles) :
        \/ \E p \in kept : k = pair(p)
        \/ \E m \in pass[s].singles \ UNION kept : k = single(m)
  BY DEF ItemsOf
<1>2. \A p \in kept : Older(p) \in p
  BY PairEnds DEF Kept
<1>3. \A p, q \in kept : Older(p) = Older(q) => p = q
  BY <1>2 DEF Kept
<1>4. \A p \in kept : \A m \in pass[s].singles \ UNION kept : Older(p) # m
  BY <1>2
<1>5. /\ \A p \in kept : pair(p).memory = Older(p)
      /\ \A m \in pass[s].singles : single(m).memory = m
  OBVIOUS
<1>6. CASE \E p \in kept : i = pair(p)
  <2>1. PICK p \in kept : i = pair(p)
    BY <1>6
  <2> HIDE DEF pair, single
  <2>2. \A m \in pass[s].singles \ UNION kept : j # single(m)
    BY <1>4, <1>5, <2>1
  <2>3. PICK q \in kept : j = pair(q)
    BY <1>1, <2>2
  <2> QED BY <1>3, <1>5, <2>1, <2>3
<1>7. CASE \E m \in pass[s].singles \ UNION kept : i = single(m)
  <2>1. PICK m \in pass[s].singles \ UNION kept : i = single(m)
    BY <1>7
  <2> HIDE DEF pair, single
  <2>2. \A q \in kept : j # pair(q)
    BY <1>4, <1>5, <2>1
  <2>3. PICK n \in pass[s].singles \ UNION kept : j = single(n)
    BY <1>1, <2>2
  <2> QED BY <1>5, <2>1, <2>3
<1> QED BY <1>1, <1>6, <1>7

LEMMA ReadPairsStep ==
  ASSUME IInv, TypeOK', NEW s \in Passes, ReadPairs(s)
  PROVE  IInv' /\ NamesLive
<1>0. Elsewhere /\ pass[s].pc = "pairs" /\ pass[s] \in PassStates
  BY DEF ReadPairs, IInv, TypeOK
<1>1. PICK kept \in Kept(conflictPairs) :
        pass' = [pass EXCEPT ![s] =
          [@ EXCEPT !.pc = "batch", !.singles = {},
                    !.items = ItemsOf(kept, pass[s].singles)]]
  BY DEF ReadPairs
<1>2. /\ pass'[s].pc = "batch"
      /\ pass'[s].singles = {}
      /\ pass'[s].items = ItemsOf(kept, pass[s].singles)
      /\ pass'[s].saw = pass[s].saw
      /\ pass'[s].verdicts = {}
      /\ \A t \in Passes \ {s} : pass'[t] = pass[t]
  BY <1>0, <1>1 DEF IInv, TypeOK, PassStates, FreshOK
<1>3. FreshOK(s)'
  <2>1. \A i \in pass'[s].items : i.memory \in Memories
    BY DEF TypeOK, PassStates, Items
  <2>2. \A m \in Memories : Unasked(s, m)'
    BY <1>0 DEF IInv, FreshOK, Unasked, Staged, Elsewhere
  <2>3. \A i, j \in pass'[s].items : i.memory = j.memory => i = j
    BY <1>2, ItemsAreDistinct
  <2> QED BY <1>2, <2>1, <2>2, <2>3 DEF FreshOK
<1>4. SightOK(s)'
  <2>1. \A v \in pass[s].saw :
          Staged(v) /\ \A i \in pass'[s].items : Anew(v, Judged(i))
    BY <1>2, ItemsAreNew DEF IInv, SightOK
  <2> QED BY <1>0, <1>2, <2>1
          DEF SightOK, Anew, Staged, Open, Elsewhere, UserDidNothing
<1>5. ShareOK(s)'
  BY <1>2 DEF ShareOK
<1> QED BY <1>0, <1>2, <1>3, <1>4, <1>5, PassStep

(* What may be answered of an item is about what the item is about.        *)
LEMMA ChoicesAreAbout ==
  ASSUME NEW i \in Items, NEW v \in Choices(i)
  PROVE  /\ v.memory = i.memory
         /\ v.judged = Judged(i)
         /\ v.action = "supersede" => v.related \in Memories
<1>1. ASSUME i.with = NULL
      PROVE  \A n \in i.newer : n \in Memories
  BY DEF Items
<1> QED BY <1>1 DEF Items, Choices, Judged

LEMMA JudgeBatchStep ==
  ASSUME IInv, TypeOK', NEW s \in Passes, JudgeBatch(s)
  PROVE  IInv' /\ NamesLive
<1>0. Elsewhere /\ pass[s].pc = "batch" /\ pass[s] \in PassStates
  BY DEF JudgeBatch, IInv, TypeOK
<1>1. PICK batch \in Batches(pass[s].items) :
        \E verdicts \in SUBSET UNION {Choices(i) : i \in batch} :
          /\ \A v, w \in verdicts : v.memory = w.memory => v = w
          /\ pass' = IF verdicts = {}
                     THEN [pass EXCEPT ![s].items = @ \ batch]
                     ELSE [pass EXCEPT ![s].pc = "lock", ![s].start = clock,
                                       ![s].items = @ \ batch,
                                       ![s].verdicts = verdicts]
  BY DEF JudgeBatch
<1>2. PICK verdicts \in SUBSET UNION {Choices(i) : i \in batch} :
          /\ \A v, w \in verdicts : v.memory = w.memory => v = w
          /\ pass' = IF verdicts = {}
                     THEN [pass EXCEPT ![s].items = @ \ batch]
                     ELSE [pass EXCEPT ![s].pc = "lock", ![s].start = clock,
                                       ![s].items = @ \ batch,
                                       ![s].verdicts = verdicts]
  BY <1>1
<1>3. /\ pass'[s].pc = IF verdicts = {} THEN "batch" ELSE "lock"
      /\ pass'[s].singles = pass[s].singles
      /\ pass'[s].items = pass[s].items \ batch
      /\ pass'[s].verdicts = verdicts
      /\ pass'[s].saw = pass[s].saw
      /\ \A t \in Passes \ {s} : pass'[t] = pass[t]
  <2>1. CASE verdicts = {}
    <3>1. pass' = [pass EXCEPT ![s].items = @ \ batch]
      BY <1>2, <2>1
    <3>2. pass[s].verdicts = {}
      BY <1>0 DEF IInv, FreshOK
    <3> QED BY <1>0, <2>1, <3>1, <3>2 DEF IInv, TypeOK, PassStates
  <2>2. CASE verdicts # {}
    <3>1. pass' = [pass EXCEPT ![s].pc = "lock", ![s].start = clock,
                               ![s].items = @ \ batch,
                               ![s].verdicts = verdicts]
      BY <1>2, <2>2
    <3> QED BY <1>0, <2>2, <3>1 DEF IInv, TypeOK, PassStates
  <2> QED BY <2>1, <2>2
<1>4. batch \subseteq pass[s].items /\ pass[s].items \subseteq Items
  BY <1>0 DEF Batches, PassStates
<1>5. \A v \in verdicts : \E i \in batch :
        /\ v.memory = i.memory
        /\ v.judged = Judged(i)
        /\ v.action = "supersede" => v.related \in Memories
  BY <1>4, ChoicesAreAbout
<1>6. FreshOK(s)'
  <2>1. \A i \in pass[s].items : Unasked(s, i.memory)'
    BY <1>0 DEF IInv, FreshOK, Unasked, Staged, Elsewhere
  <2>2. \A i, j \in pass[s].items : i.memory = j.memory => i = j
    BY DEF IInv, FreshOK
  <2>3. \A v \in verdicts :
          /\ Unasked(s, v.memory)'
          /\ v.action = "supersede" => v.related \in Memories
          /\ \A i \in pass[s].items \ batch : i.memory # v.memory
    BY <1>4, <1>5, <2>1, <2>2
  <2>4. /\ pass'[s].pc \notin {"idle", "pairs"}
        /\ pass'[s].pc = "batch" => verdicts = {}
    BY <1>3
  <2> QED BY <1>2, <1>3, <2>1, <2>2, <2>3, <2>4 DEF FreshOK
<1>7. SightOK(s)'
  <2>1. ASSUME NEW v \in pass[s].saw
        PROVE  /\ Staged(v)
               /\ \A m \in pass'[s].singles : Anew(v, {m})
               /\ \A i \in pass'[s].items : Anew(v, Judged(i))
               /\ \A w \in pass'[s].verdicts : Anew(v, w.judged)
    <3>1. /\ Staged(v)
          /\ \A m \in pass[s].singles : Anew(v, {m})
          /\ \A i \in pass[s].items : Anew(v, Judged(i))
      BY DEF IInv, SightOK
    <3>2. \A w \in verdicts : \E i \in pass[s].items : w.judged = Judged(i)
      BY <1>4, <1>5
    <3>3. \A w \in verdicts : Anew(v, w.judged)
      BY <3>1, <3>2
    <3> QED BY <1>3, <3>1, <3>3
  <2> QED BY <1>0, <1>3, <2>1
          DEF SightOK, Anew, Staged, Open, Elsewhere, UserDidNothing
<1>8. ShareOK(s)'
  BY <1>3 DEF ShareOK
<1>9. pass'[s].pc # "insert"
  BY <1>3
<1> QED BY <1>0, <1>3, <1>6, <1>7, <1>8, <1>9, PassStep

LEMMA LockNamedStep ==
  ASSUME IInv, TypeOK', NEW s \in Passes, LockNamed(s)
  PROVE  IInv' /\ NamesLive
<1> DEFINE named == UNION {Named(v) : v \in pass[s].verdicts}
<1>0. Elsewhere /\ pass[s].pc = "lock" /\ pass[s] \in PassStates
  BY DEF LockNamed, IInv, TypeOK
<1>1. /\ \A m \in named : ~Held(m)
      /\ pass' = [pass EXCEPT ![s].pc = "insert",
                              ![s].live = {m \in named : Live(m)}]
  BY DEF LockNamed
<1>2. /\ pass'[s].pc = "insert"
      /\ pass'[s].live = {m \in named : Live(m)}
      /\ pass'[s].singles = pass[s].singles
      /\ pass'[s].items = pass[s].items
      /\ pass'[s].verdicts = pass[s].verdicts
      /\ pass'[s].saw = pass[s].saw
      /\ \A t \in Passes \ {s} : pass'[t] = pass[t]
  BY <1>0, <1>1 DEF IInv, TypeOK, PassStates
<1> HIDE DEF named
<1>3. FreshOK(s)' /\ SightOK(s)'
  BY <1>0, <1>2
     DEF IInv, FreshOK, SightOK, Unasked, Anew, Staged, Open, Elsewhere,
         UserDidNothing
<1>4. ShareOK(s)'
  BY <1>0, <1>2 DEF ShareOK, Live, Elsewhere, UserDidNothing
<1>5. \A r \in Reviewers : review[r].holds \cap pass'[s].live = {}
  BY <1>1, <1>2 DEF Held
<1> QED BY <1>0, <1>2, <1>3, <1>4, <1>5, PassStep

LEMMA PassEndsStep ==
  ASSUME IInv, TypeOK', NEW s \in Passes, NoMoreItems(s) \/ PassStops(s)
  PROVE  IInv' /\ NamesLive
<1>0. Elsewhere /\ pass[s].pc # "idle" /\ pass[s] \in PassStates
  BY DEF NoMoreItems, PassStops, IInv, TypeOK
<1>1. /\ pass'[s].pc = "done"
      /\ pass'[s].saw = pass[s].saw
      /\ pass'[s].singles \in {{}, pass[s].singles}
      /\ pass'[s].items = {}
      /\ pass'[s].verdicts = {}
      /\ \A t \in Passes \ {s} : pass'[t] = pass[t]
  <2>1. CASE NoMoreItems(s)
    BY <1>0, <2>1
       DEF NoMoreItems, PassGoes, IInv, TypeOK, PassStates, FreshOK
  <2>2. CASE PassStops(s)
    <3>1. pass' = [pass EXCEPT ![s] =
            [IdlePass EXCEPT !.pc = "done", !.saw = pass[s].saw]]
      BY <2>2 DEF PassStops
    <3> QED BY <1>0, <3>1 DEF IdlePass, IInv, TypeOK, PassStates
  <2> QED BY <2>1, <2>2
<1>2. FreshOK(s)' /\ ShareOK(s)'
  BY <1>1 DEF FreshOK, ShareOK
<1>3. SightOK(s)'
  BY <1>0, <1>1
     DEF IInv, SightOK, Anew, Staged, Open, Elsewhere, UserDidNothing
<1> QED BY <1>0, <1>1, <1>2, <1>3, PassStep

-----------------------------------------------------------------------------
(* What is staged was not: of a pass on a memory, and of a memory and an   *)
(* action that are open.                                                   *)
LEMMA InsertedAreNew ==
  ASSUME IInv, NEW s \in Passes, InsertVerdicts(s), NEW p \in Verdicts,
         prop'[p] # prop[p]
  PROVE  /\ p[1] = s /\ ~Staged(p)
         /\ \E v \in Inserted(s) :
              /\ v \in pass[s].verdicts
              /\ v.memory = p[2]
              /\ prop'[p] = RowOf(s, v)
<1>1. PICK v \in Inserted(s) : p[1] = s /\ v.memory = p[2] /\ prop'[p] = RowOf(s, v)
  BY InsertedRows
<1>2. v \in pass[s].verdicts
  BY DEF Inserted, stageable, allNamed
<1>3. p = <<s, v.memory>>
  BY <1>1 DEF Verdicts
<1>4. ~Staged(p)
  BY <1>2, <1>3 DEF IInv, FreshOK, Unasked
<1> QED BY <1>1, <1>2, <1>4

LEMMA InsertVerdictsStep ==
  ASSUME IInv, TypeOK', NEW s \in Passes, InsertVerdicts(s)
  PROVE  IInv' /\ NamesLive
<1>0. UserDidNothing /\ pass[s].pc = "insert" /\ pass[s] \in PassStates
  BY DEF InsertVerdicts, IInv, TypeOK
<1>1. /\ pass'[s].pc = "batch"
      /\ pass'[s].singles = pass[s].singles
      /\ pass'[s].items = pass[s].items
      /\ pass'[s].verdicts = {}
      /\ pass'[s].saw = pass[s].saw
      /\ \A t \in Passes \ {s} : pass'[t] = pass[t]
  <2>1. pass' = [pass EXCEPT ![s] =
          [@ EXCEPT !.pc = "batch", !.verdicts = {}, !.start = 0, !.live = {}]]
    BY DEF InsertVerdicts
  <2> QED BY <1>0, <2>1 DEF IInv, TypeOK, PassStates
<1>2. \A p \in Verdicts : Staged(p) => prop'[p] = prop[p]
  BY InsertedAreNew
<1>3. mem' = mem /\ clock' = clock /\ review' = review /\ answered' = answered
  BY <1>0 DEF UserDidNothing
<1>4. Onward
  <2>1. \A m \in Memories : mem[m].touched <= mem'[m].touched
    BY <1>3 DEF IInv, TypeOK, MemoryRows, Times
  <2> QED BY <1>2, <2>1 DEF Onward, Staged, Open
<1>5. ASSUME NEW t \in Passes \ {s}
      PROVE  FreshOK(t)' /\ SightOK(t)' /\ ShareOK(t)'
  <2>1. ASSUME NEW m \in Memories
        PROVE  prop'[<<t, m>>] = prop[<<t, m>>]
    <3>1. <<t, m>> \in Verdicts /\ <<t, m>>[1] # s
      BY <1>5 DEF Verdicts
    <3> QED BY <3>1, InsertedAreNew
  <2>2. \A m \in Memories : Unasked(t, m) => Unasked(t, m)'
    BY <2>1 DEF Unasked, Staged
  <2>3. FreshOK(t)' /\ SightOK(t)'
    BY <1>1, <1>4, <2>2, PassKept DEF IInv
  <2> QED BY <1>1, <1>3, <2>3 DEF IInv, ShareOK, Live
<1>6. FreshOK(s)'
  <2>1. ASSUME NEW i \in pass[s].items
        PROVE  Unasked(s, i.memory)'
    <3>1. <<s, i.memory>> \in Verdicts /\ ~Staged(<<s, i.memory>>)
      BY <1>0 DEF IInv, FreshOK, Unasked, Verdicts, PassStates, Items
    <3>2. \A v \in pass[s].verdicts : v.memory # <<s, i.memory>>[2]
      BY DEF IInv, FreshOK
    <3>3. prop'[<<s, i.memory>>] = prop[<<s, i.memory>>]
      BY <3>1, <3>2, InsertedAreNew
    <3> QED BY <3>1, <3>3 DEF Unasked, Staged
  <2> QED BY <1>1, <2>1 DEF IInv, FreshOK
<1>7. ASSUME NEW v \in Verdicts, Staged(v), NEW J \in SUBSET Memories, Anew(v, J)
      PROVE  Anew(v, J)'
  BY <1>4, <1>7, AnewKept DEF IInv
<1>8. SightOK(s)'
  <2>1. ASSUME NEW v \in pass[s].saw
        PROVE  /\ Staged(v)'
               /\ \A m \in pass[s].singles : Anew(v, {m})'
               /\ \A i \in pass[s].items : Anew(v, Judged(i))'
    <3>1. v \in Verdicts /\ Staged(v)
      BY <1>0 DEF IInv, SightOK, PassStates
    <3>2. \A m \in pass[s].singles : {m} \in SUBSET Memories /\ Anew(v, {m})
      BY <1>0 DEF IInv, SightOK, PassStates
    <3>3. \A i \in pass[s].items :
            Judged(i) \in SUBSET Memories /\ Anew(v, Judged(i))
      BY <1>0 DEF IInv, SightOK, PassStates, Items, Judged
    <3> QED BY <1>2, <1>7, <3>1, <3>2, <3>3 DEF Staged
  <2> QED BY <1>1, <2>1 DEF SightOK
<1>9. ShareOK(s)'
  BY <1>1 DEF ShareOK
<1>10. MemoriesOK'
  BY <1>3 DEF IInv, MemoriesOK, WrittenMemories, Live
<1>11. ProposalsOK'
  <2>1. ASSUME NEW p \in Verdicts, prop'[p] # prop[p],
               prop'[p].action = "supersede"
        PROVE  prop'[p].related \in Memories
    <3>1. PICK u \in pass[s].verdicts : prop'[p] = RowOf(s, u)
      BY <2>1, InsertedAreNew
    <3>2. u.action = "supersede" /\ prop'[p].related = u.related
      BY <2>1, <3>1 DEF RowOf
    <3> QED BY <3>2 DEF IInv, FreshOK
  <2> QED BY <2>1 DEF IInv, ProposalsOK
<1>12. \A r \in Reviewers : ReviewOK(r)'
  BY <1>3, <1>4, ReviewKept DEF IInv
<1>13. LocksOK'
  BY <1>1, <1>3 DEF IInv, LocksOK
<1>14. VerdictsHold'
  <2>1. ASSUME NEW p \in Verdicts, prop'[p] # prop[p]
        PROVE  /\ answered[p] = {}
               /\ prop'[p].status \in {"proposed", "dismissed"}
    <3>1. prop[p].status = "none"
      BY <2>1, InsertedAreNew DEF Staged
    <3>2. answered[p] = {}
      BY <3>1 DEF IInv, VerdictsHold
    <3>3. PICK u \in pass[s].verdicts : prop'[p] = RowOf(s, u)
      BY <2>1, InsertedAreNew
    <3> QED BY <3>2, <3>3 DEF RowOf
  <2>2. \A v \in Verdicts :
          answered'[v] = {prop'[v].status} \cap {"applied", "rejected"}
    BY <1>3, <2>1 DEF IInv, VerdictsHold
  <2>3. \A v \in Verdicts : prop'[v].status = "applied" =>
          /\ prop'[v].action = "archive" => mem'[MemoryOf(v)].status = "archived"
          /\ prop'[v].action = "supersede" => mem'[MemoryOf(v)].by = v
    BY <1>3, <2>1 DEF IInv, VerdictsHold
  <2>4. \A m \in Memories : mem'[m].by # NULL =>
          /\ prop'[mem'[m].by].status = "applied"
          /\ MemoryOf(mem'[m].by) = m
    <3>1. \A m \in Memories : mem[m].by # NULL => mem[m].by \in Verdicts
      BY DEF IInv, TypeOK, MemoryRows
    <3> QED BY <1>2, <1>3, <3>1 DEF IInv, VerdictsHold, Staged
  <2> QED BY <2>2, <2>3, <2>4 DEF VerdictsHold
<1>15. JudgedAnew'
  <2>1. ASSUME NEW v \in Verdicts, NEW w \in Verdicts,
               Staged(w)', v \in pass[w[1]].saw
        PROVE  Anew(v, prop[w].judged)'
    <3>1. w[1] \in Passes
      BY DEF Verdicts
    <3>2. Staged(v)
      BY <2>1, <3>1 DEF IInv, SightOK
    <3>3. Anew(v, prop'[w].judged) /\ prop'[w].judged \in SUBSET Memories
      <4>1. CASE prop'[w] = prop[w]
        BY <2>1, <4>1 DEF IInv, JudgedAnew, Staged, TypeOK, ProposalRows
      <4>2. CASE prop'[w] # prop[w]
        <5>1. PICK u \in pass[s].verdicts : prop'[w] = RowOf(s, u) /\ w[1] = s
          BY <4>2, InsertedAreNew
        <5>2. Anew(v, u.judged) /\ u.judged \in SUBSET Memories
          BY <1>0, <2>1, <5>1 DEF IInv, SightOK, PassStates, Judgments
        <5> QED BY <5>1, <5>2 DEF RowOf
      <4> QED BY <4>1, <4>2
    <3>4. \A J \in SUBSET Memories : Anew(v, J) => Anew(v, J)'
      BY <1>7, <3>2
    <3> QED BY <3>3, <3>4 DEF Anew
  <2>2. ASSUME NEW v \in Verdicts, NEW w \in Verdicts, Open(v)', Open(w)',
               MemoryOf(v) = MemoryOf(w), prop'[v].action = prop'[w].action,
               prop'[v] # prop[v]
        PROVE  v = w
    <3>1. PICK u \in Inserted(s) :
            /\ v[1] = s
            /\ u.memory = v[2]
            /\ prop'[v] = RowOf(s, u)
      BY <2>2, InsertedAreNew
    <3>2. prop'[w] # prop[w]
      <4> SUFFICES ASSUME prop'[w] = prop[w]
                   PROVE  FALSE
        OBVIOUS
      <4>1. w \in OpenVerdicts
        BY <2>2 DEF OpenVerdicts, Open
      <4>2. MemoryOf(w) = u.memory /\ prop[w].action = u.action
        BY <2>2, <3>1 DEF MemoryOf, RowOf
      <4>3. isOpenAlready(u)
        BY <4>1, <4>2 DEF isOpenAlready
      <4> QED BY <4>3 DEF Inserted
    <3>3. w[1] = s
      BY <3>2, InsertedAreNew
    <3> QED BY <2>2, <3>1, <3>3 DEF Verdicts, MemoryOf
  <2>3. ASSUME NEW v \in Verdicts, NEW w \in Verdicts, Open(v)', Open(w)',
               MemoryOf(v) = MemoryOf(w), prop'[v].action = prop'[w].action
        PROVE  v = w
    <3>1. CASE prop'[v] # prop[v]
      BY <2>2, <2>3, <3>1
    <3>2. CASE prop'[w] # prop[w]
      BY <2>2, <2>3, <3>2
    <3>3. CASE prop'[v] = prop[v] /\ prop'[w] = prop[w]
      BY <2>3, <3>3 DEF IInv, JudgedAnew, OpenVerdicts, Open
    <3> QED BY <3>1, <3>2, <3>3
  <2>4. \A t \in Passes : pass'[t].saw = pass[t].saw
    BY <1>1
  <2>5. \A w \in Verdicts : w[1] \in Passes
    BY DEF Verdicts
  <2> QED BY <2>1, <2>3, <2>4, <2>5 DEF JudgedAnew, OpenVerdicts
<1>16. NamesLive
  <2>1. ASSUME NEW p \in Verdicts, ~Staged(p), Staged(p)',
               NEW m \in {MemoryOf(p), prop'[p].related} \ {NULL}
        PROVE  Live(m)
    <3>1. prop'[p] # prop[p]
      BY <2>1 DEF Staged
    <3>2. PICK u \in Inserted(s) : u.memory = p[2] /\ prop'[p] = RowOf(s, u)
      BY <3>1, InsertedAreNew
    <3>3. m \in Named(u)
      BY <2>1, <3>2 DEF MemoryOf, RowOf, Named
    <3>4. Named(u) \subseteq pass[s].live
      BY DEF Inserted, stageable, allNamed
    <3> QED BY <1>0, <3>3, <3>4 DEF IInv, ShareOK
  <2> QED BY <1>3, <2>1 DEF NamesLive
<1> QED BY <1>5, <1>6, <1>8, <1>9, <1>10, <1>11, <1>12, <1>13, <1>14, <1>15,
           <1>16 DEF IInv

-----------------------------------------------------------------------------
(* The steps of reviewers.                                                 *)

(* A step that stages nothing, and moves no pass.                          *)
LEMMA OutsideStep ==
  ASSUME IInv, TypeOK', Onward, UNCHANGED pass,
         \A v \in Verdicts : Staged(v)' => Staged(v),
         \A s \in Passes : pass[s].pc = "insert" =>
           \A m \in pass[s].live : Live(m) => mem'[m] = mem[m]
  PROVE  JudgedAnew' /\ \A s \in Passes : FreshOK(s)' /\ SightOK(s)' /\ ShareOK(s)'
<1>1. JudgedAnew'
  BY JudgedKept DEF IInv
<1>2. ASSUME NEW s \in Passes
      PROVE  FreshOK(s)' /\ SightOK(s)' /\ ShareOK(s)'
  <2>1. \A m \in Memories : <<s, m>> \in Verdicts
    BY DEF Verdicts
  <2>2. \A m \in Memories : Unasked(s, m) => Unasked(s, m)'
    BY <2>1 DEF Unasked
  <2>3. FreshOK(s)' /\ SightOK(s)'
    BY <2>2, PassKept DEF IInv
  <2>4. ShareOK(s)'
    BY DEF IInv, ShareOK, Live
  <2> QED BY <2>3, <2>4
<1> QED BY <1>1, <1>2

LEMMA RejectStep ==
  ASSUME IInv, TypeOK', NEW v \in Verdicts, RejectProposal(v)
  PROVE  IInv' /\ NamesLive
<1>0. /\ Open(v)
      /\ prop' = [prop EXCEPT ![v].status = "rejected"]
      /\ answered' = [answered EXCEPT ![v] = @ \cup {"rejected"}]
      /\ UNCHANGED <<clock, blockers, pass, mem, review>>
  BY DEF RejectProposal, decidable, decidesOpen, Answer, BesidesReview
<1>1. /\ \A w \in Verdicts \ {v} : prop'[w] = prop[w] /\ answered'[w] = answered[w]
      /\ prop'[v] = [prop[v] EXCEPT !.status = "rejected"]
      /\ answered'[v] = answered[v] \cup {"rejected"}
  BY <1>0 DEF IInv, TypeOK
<1>2. /\ prop'[v].status = "rejected"
      /\ prop'[v].action = prop[v].action
      /\ prop'[v].related = prop[v].related
      /\ prop'[v].created = prop[v].created
      /\ prop'[v].judged = prop[v].judged
      /\ prop[v].status = "proposed"
  BY <1>0, <1>1 DEF IInv, TypeOK, ProposalRows, Open
<1>3. Onward
  <2>1. \A m \in Memories : mem[m].touched <= mem'[m].touched
    BY <1>0 DEF IInv, TypeOK, MemoryRows, Times
  <2> QED BY <1>1, <1>2, <2>1 DEF Onward, Staged, Open
<1>4. \A w \in Verdicts : Staged(w)' => Staged(w)
  BY <1>1, <1>2 DEF Staged
<1>5. JudgedAnew' /\ \A s \in Passes : FreshOK(s)' /\ SightOK(s)' /\ ShareOK(s)'
  BY <1>0, <1>3, <1>4, OutsideStep
<1>6. MemoriesOK' /\ ProposalsOK' /\ LocksOK'
  BY <1>0, <1>1, <1>2
     DEF IInv, MemoriesOK, WrittenMemories, Live, ProposalsOK, LocksOK
<1>7. \A r \in Reviewers : ReviewOK(r)'
  BY <1>0, <1>3, ReviewKept DEF IInv
<1>8. VerdictsHold'
  <2>1. answered[v] = {}
    BY <1>2 DEF IInv, VerdictsHold
  <2>2. \A w \in Verdicts :
          answered'[w] = {prop'[w].status} \cap {"applied", "rejected"}
    <3>1. answered'[v] = {"rejected"}
      BY <1>1, <2>1
    <3>2. answered'[v] = {prop'[v].status} \cap {"applied", "rejected"}
      BY <1>2, <3>1
    <3>3. \A w \in Verdicts :
            answered[w] = {prop[w].status} \cap {"applied", "rejected"}
      BY DEF IInv, VerdictsHold
    <3> QED BY <1>1, <3>2, <3>3
  <2>3. \A w \in Verdicts : prop'[w].status = "applied" =>
          /\ prop'[w].action = "archive" => mem'[MemoryOf(w)].status = "archived"
          /\ prop'[w].action = "supersede" => mem'[MemoryOf(w)].by = w
    BY <1>0, <1>1, <1>2 DEF IInv, VerdictsHold
  <2>4. \A m \in Memories : mem'[m].by # NULL =>
          /\ prop'[mem'[m].by].status = "applied"
          /\ MemoryOf(mem'[m].by) = m
    <3>1. \A m \in Memories : mem[m].by # NULL =>
            mem[m].by \in Verdicts /\ mem[m].by # v
      BY <1>2 DEF IInv, TypeOK, MemoryRows, VerdictsHold
    <3> QED BY <1>0, <1>1, <3>1 DEF IInv, VerdictsHold
  <2> QED BY <2>2, <2>3, <2>4 DEF VerdictsHold
<1>9. NamesLive
  BY <1>0, <1>4 DEF NamesLive
<1> QED BY <1>5, <1>6, <1>7, <1>8, <1>9 DEF IInv

(* A review takes or gives up its locks.                                   *)
LEMMA LocksStep ==
  ASSUME IInv, TypeOK', NEW r \in Reviewers,
         (\E v \in Verdicts : LockMemories(r, v)) \/ ReviewFails(r)
  PROVE  IInv' /\ NamesLive
<1>0. /\ UNCHANGED <<clock, blockers, pass, mem, prop, answered>>
      /\ \A t \in Reviewers \ {r} : review'[t] = review[t]
  BY DEF LockMemories, ReviewFails, ReviewEnds, BesidesReview, IInv, TypeOK
<1>1. /\ ReviewOK(r)'
      /\ \A m \in review'[r].holds : Free(m)
  <2>1. CASE ReviewFails(r)
    <3>1. review'[r] = IdleReview
      BY <2>1 DEF ReviewFails, ReviewEnds, IInv, TypeOK
    <3> QED BY <3>1 DEF IdleReview, ReviewOK
  <2>2. CASE \E v \in Verdicts : LockMemories(r, v)
    <3>1. PICK v \in Verdicts : LockMemories(r, v)
      BY <2>2
    <3>2. review'[r] = [ pc |-> "locked", prop |-> v, holds |-> RowsToLock(v),
                         ok |-> Applicable(v) ]
      BY <3>1 DEF LockMemories, IInv, TypeOK
    <3>3. Staged(v) /\ \A m \in RowsToLock(v) : Free(m)
      BY <3>1 DEF LockMemories, Open, Staged
    <3>4. NULL \notin Memories /\ MemoryOf(v) \in Memories
      BY ForgettingPassAssumption DEF Verdicts, MemoryOf
    <3>5. ASSUME prop[v].action = "archive", Applicable(v)
          PROVE  \/ mem[MemoryOf(v)].status = "archived"
                 \/ MemoryOf(v) \in RowsToLock(v) /\ Live(MemoryOf(v))
      BY <3>5 DEF Applicable, RowsToLock
    <3>6. ASSUME prop[v].action = "supersede", Applicable(v)
          PROVE  \A m \in {MemoryOf(v), prop[v].related} :
                   m \in RowsToLock(v) /\ Live(m)
      BY <3>4, <3>6
         DEF Applicable, RowsToLock, supersedeLocks, bothEnds, IInv, ProposalsOK
    <3> QED BY <1>0, <3>2, <3>3, <3>5, <3>6 DEF ReviewOK, Staged, Live
  <2> QED BY <2>1, <2>2
<1>2. ASSUME NEW t \in Reviewers PROVE ReviewOK(t)'
  <2>1. CASE t = r
    BY <1>1, <2>1
  <2>2. CASE t # r
    BY <1>0, <2>2 DEF IInv, ReviewOK, Staged, Live
  <2> QED BY <2>1, <2>2
<1>3. LocksOK'
  BY <1>0, <1>1 DEF IInv, LocksOK, Free, Held, Shared
<1>4. MemoriesOK' /\ ProposalsOK' /\ VerdictsHold'
  BY <1>0
     DEF IInv, MemoriesOK, WrittenMemories, Live, ProposalsOK, VerdictsHold
<1>5. Onward
  <2>1. \A m \in Memories : mem[m].touched <= mem'[m].touched
    BY <1>0 DEF IInv, TypeOK, MemoryRows, Times
  <2> QED BY <1>0, <2>1 DEF Onward, Staged, Open
<1>6. JudgedAnew' /\ \A s \in Passes : FreshOK(s)' /\ SightOK(s)' /\ ShareOK(s)'
  BY <1>0, <1>5, OutsideStep DEF Staged
<1>7. NamesLive
  BY <1>0 DEF NamesLive, Staged
<1> QED BY <1>2, <1>3, <1>4, <1>6, <1>7 DEF IInv

(* What an accept writes, it writes on a live row that it has locked.      *)
Silent(v) ==
  /\ mem' = mem
  /\ prop[v].action # "supersede"
  /\ prop[v].action = "archive" => mem[MemoryOf(v)].status = "archived"
Takes(r, v) ==
  LET m == MemoryOf(v)
  IN  /\ Live(m) /\ m \in review[r].holds
      /\ \A n \in Memories \ {m} : mem'[n] = mem[n]
      /\ mem'[m].by = v /\ mem'[m].touched = clock
      /\ \/ prop[v].action = "archive" /\ mem'[m].status = "archived"
         \/ /\ prop[v].action = "supersede"
            /\ Live(prop[v].related)
            /\ mem'[m].status = "active"
            /\ mem'[m].closed
Accepted(r, v) ==
  /\ v \in Verdicts /\ MemoryOf(v) \in Memories /\ Open(v)
  /\ prop' = [prop EXCEPT ![v].status = "applied"]
  /\ answered' = [answered EXCEPT ![v] = @ \cup {"applied"}]
  /\ UNCHANGED <<clock, blockers, pass>>
  /\ review' = [review EXCEPT ![r] = IdleReview]
  /\ Silent(v) \/ Takes(r, v)

LEMMA AcceptWrites ==
  ASSUME IInv, NEW r \in Reviewers, CommitAccept(r)
  PROVE  \E v : Accepted(r, v)
<1>a. PICK v : v = review[r].prop
  OBVIOUS
<1>b. PICK m : m = MemoryOf(v)
  OBVIOUS
<1>1. /\ review[r].pc = "locked" /\ review[r].ok
      /\ v \in Verdicts /\ m \in Memories /\ Open(v)
  BY <1>a, <1>b
     DEF CommitAccept, decidable, decidesOpen, IInv, ReviewOK, Verdicts, MemoryOf
<1>2. /\ prop[v].action = "archive" =>
           mem[m].status = "archived" \/ (m \in review[r].holds /\ Live(m))
      /\ prop[v].action = "supersede" =>
           m \in review[r].holds /\ Live(m) /\ Live(prop[v].related)
  <2>1. ReviewOK(r)
    BY DEF IInv
  <2>2. prop[v].action = "archive" =>
          mem[m].status = "archived" \/ (m \in review[r].holds /\ Live(m))
    BY <1>a, <1>b, <1>1, <2>1 DEF ReviewOK
  <2>3. prop[v].action = "supersede" =>
          \A n \in {m, prop[v].related} : n \in review[r].holds /\ Live(n)
    BY <1>a, <1>b, <1>1, <2>1 DEF ReviewOK
  <2> QED BY <2>2, <2>3
<1> DEFINE out == [mem[m] EXCEPT !.touched = clock, !.by = v]
<1>3. mem' = CASE prop[v].action = "archive" /\ mem[m].status = "active" ->
                    [mem EXCEPT ![m] = [out EXCEPT !.status = "archived"]]
               [] prop[v].action = "supersede" ->
                    [mem EXCEPT ![m] = [out EXCEPT !.closed = TRUE]]
               [] OTHER -> mem
  BY <1>a, <1>b DEF CommitAccept
<1>c. /\ Answer(v, "applied") /\ BesidesReview /\ ReviewEnds(r)
  BY <1>a DEF CommitAccept
<1>4. mem[m] \in MemoryRows /\ prop[v] \in ProposalRows
  BY <1>1 DEF IInv, TypeOK
<1>5. CASE prop[v].action = "archive" /\ mem[m].status = "active"
  <2>1. mem' = [mem EXCEPT ![m] = [out EXCEPT !.status = "archived"]]
    BY <1>3, <1>5
  <2>2. Live(m) /\ m \in review[r].holds
    BY <1>2, <1>5
  <2>3. /\ \A n \in Memories \ {m} : mem'[n] = mem[n]
        /\ mem'[m] = [out EXCEPT !.status = "archived"]
    BY <1>1, <2>1 DEF IInv, TypeOK
  <2>4. mem'[m].by = v /\ mem'[m].touched = clock /\ mem'[m].status = "archived"
    BY <1>4, <2>3 DEF MemoryRows
  <2>5. Takes(r, v)
    BY <1>b, <1>5, <2>2, <2>3, <2>4 DEF Takes
  <2> QED BY <1>b, <1>c, <1>1, <2>5
          DEF Accepted, Answer, BesidesReview, ReviewEnds
<1>6. CASE prop[v].action = "supersede"
  <2>1. mem' = [mem EXCEPT ![m] = [out EXCEPT !.closed = TRUE]]
    BY <1>3, <1>6
  <2>2. Live(m) /\ m \in review[r].holds /\ Live(prop[v].related)
    BY <1>2, <1>6
  <2>3. /\ \A n \in Memories \ {m} : mem'[n] = mem[n]
        /\ mem'[m] = [out EXCEPT !.closed = TRUE]
    BY <1>1, <2>1 DEF IInv, TypeOK
  <2>4. /\ mem'[m].by = v /\ mem'[m].touched = clock
        /\ mem'[m].status = "active" /\ mem'[m].closed
    BY <1>4, <2>2, <2>3 DEF MemoryRows, Live
  <2>5. Takes(r, v)
    BY <1>b, <1>6, <2>2, <2>3, <2>4 DEF Takes
  <2> QED BY <1>b, <1>c, <1>1, <2>5
          DEF Accepted, Answer, BesidesReview, ReviewEnds
<1>7. CASE /\ ~(prop[v].action = "archive" /\ mem[m].status = "active")
           /\ prop[v].action # "supersede"
  <2>1. mem' = mem
    BY <1>3, <1>7
  <2>2. prop[v].action = "archive" => mem[m].status = "archived"
    BY <1>2, <1>7 DEF Live
  <2>3. Silent(v)
    BY <1>b, <1>7, <2>1, <2>2 DEF Silent
  <2> QED BY <1>b, <1>c, <1>1, <2>3
          DEF Accepted, Answer, BesidesReview, ReviewEnds
<1> QED BY <1>5, <1>6, <1>7

LEMMA AcceptStep ==
  ASSUME IInv, TypeOK', NEW r \in Reviewers, CommitAccept(r)
  PROVE  IInv' /\ NamesLive
<1>a. PICK v : Accepted(r, v)
  BY AcceptWrites
<1>b. PICK m : m = MemoryOf(v)
  OBVIOUS
<1> DEFINE writes ==
             /\ Live(m) /\ m \in review[r].holds
             /\ \A n \in Memories \ {m} : mem'[n] = mem[n]
             /\ mem'[m].by = v /\ mem'[m].touched = clock
             /\ \/ prop[v].action = "archive" /\ mem'[m].status = "archived"
                \/ /\ prop[v].action = "supersede"
                   /\ Live(prop[v].related)
                   /\ mem'[m].status = "active"
                   /\ mem'[m].closed
<1>0. /\ v \in Verdicts /\ m \in Memories /\ Open(v)
      /\ prop' = [prop EXCEPT ![v].status = "applied"]
      /\ answered' = [answered EXCEPT ![v] = @ \cup {"applied"}]
      /\ UNCHANGED <<clock, blockers, pass>>
      /\ review' = [review EXCEPT ![r] = IdleReview]
      /\ Silent(v) \/ writes
  BY <1>a, <1>b DEF Accepted, Takes
<1>1. /\ \A w \in Verdicts \ {v} : prop'[w] = prop[w] /\ answered'[w] = answered[w]
      /\ prop'[v] = [prop[v] EXCEPT !.status = "applied"]
      /\ answered'[v] = answered[v] \cup {"applied"}
      /\ review'[r] = IdleReview
      /\ \A t \in Reviewers \ {r} : review'[t] = review[t]
  BY <1>0 DEF IInv, TypeOK
<1>2. /\ prop'[v].status = "applied"
      /\ prop'[v].action = prop[v].action
      /\ prop'[v].related = prop[v].related
      /\ prop'[v].created = prop[v].created
      /\ prop'[v].judged = prop[v].judged
      /\ prop[v].status = "proposed"
  BY <1>0, <1>1 DEF IInv, TypeOK, ProposalRows, Open
<1>3. /\ \A n \in Memories : mem'[n] = mem[n] \/ (n = m /\ writes)
      /\ \A n \in Memories : mem[n].status = "archived" =>
                               mem'[n].status = "archived"
      /\ \A n \in Memories : mem'[n].status # "none" <=> mem[n].status # "none"
  BY <1>0 DEF Live, Silent
<1>4. Onward
  <2>1. /\ \A n \in Memories : mem[n].touched \in Nat
        /\ \A n \in Memories : mem[n].touched <= clock
    BY DEF IInv, TypeOK, MemoryRows, Times, MemoriesOK
  <2>2. \A n \in Memories : mem[n].touched <= mem'[n].touched
    BY <1>3, <2>1
  <2> QED BY <1>1, <1>2, <2>2 DEF Onward, Staged, Open
<1>5. \A w \in Verdicts : Staged(w)' => Staged(w)
  BY <1>1, <1>2 DEF Staged
<1>6. \A s \in Passes : pass[s].pc = "insert" =>
        \A n \in pass[s].live : Live(n) => mem'[n] = mem[n]
  <2>1. \A s \in Passes : pass[s].live \in SUBSET Memories
    BY DEF IInv, TypeOK, PassStates
  <2> QED BY <1>3, <2>1 DEF IInv, LocksOK
<1>7. JudgedAnew' /\ \A s \in Passes : FreshOK(s)' /\ SightOK(s)' /\ ShareOK(s)'
  BY <1>0, <1>4, <1>5, <1>6, OutsideStep
<1>8. ASSUME NEW t \in Reviewers PROVE ReviewOK(t)'
  <2>1. CASE t = r
    BY <1>1, <2>1 DEF ReviewOK, IdleReview
  <2>2. CASE t # r
    <3>1. \A n \in review[t].holds : Live(n) => mem'[n] = mem[n]
      <4>1. review[t].holds \in SUBSET Memories
        BY DEF IInv, TypeOK, ReviewStates
      <4> QED BY <1>3, <2>2, <4>1 DEF IInv, LocksOK
    <3> QED BY <1>1, <1>3, <1>4, <2>2, <3>1, ReviewKept DEF IInv
  <2> QED BY <2>1, <2>2
<1>9. LocksOK'
  BY <1>0, <1>1 DEF IInv, LocksOK, IdleReview
<1>10. MemoriesOK'
  <2>1. WrittenMemories' = WrittenMemories
    BY <1>3 DEF WrittenMemories
  <2>2. clock \in Nat /\ clock' = clock
    BY <1>0 DEF IInv, TypeOK, Times
  <2>3. ASSUME NEW n \in Memories
        PROVE  /\ mem'[n].touched <= clock'
               /\ mem'[n].by # NULL => mem'[n].status # "none" /\ ~Live(n)'
    <3>1. CASE mem'[n] = mem[n]
      BY <2>2, <3>1 DEF IInv, MemoriesOK, Live
    <3>2. CASE n = m /\ writes
      BY <2>2, <3>2 DEF Live
    <3> QED BY <1>3, <3>1, <3>2
  <2> QED BY <2>1, <2>3 DEF IInv, MemoriesOK
<1>11. ProposalsOK'
  <2>1. ASSUME NEW w \in Verdicts
        PROVE  /\ prop'[w].action = prop[w].action
               /\ prop'[w].related = prop[w].related
    <3>1. CASE w = v
      BY <1>2, <3>1
    <3>2. CASE w # v
      BY <1>1, <3>2
    <3> QED BY <3>1, <3>2
  <2> QED BY <2>1 DEF IInv, ProposalsOK
<1>12. VerdictsHold'
  <2>1. answered[v] = {}
    BY <1>0, <1>2 DEF IInv, VerdictsHold
  <2>2. \A w \in Verdicts :
          answered'[w] = {prop'[w].status} \cap {"applied", "rejected"}
    <3>1. answered'[v] = {"applied"}
      BY <1>1, <2>1
    <3>2. answered'[v] = {prop'[v].status} \cap {"applied", "rejected"}
      BY <1>2, <3>1
    <3>3. \A w \in Verdicts :
            answered[w] = {prop[w].status} \cap {"applied", "rejected"}
      BY DEF IInv, VerdictsHold
    <3> QED BY <1>1, <3>2, <3>3
  <2>3. ASSUME NEW w \in Verdicts, prop'[w].status = "applied"
        PROVE  /\ prop'[w].action = "archive" => mem'[MemoryOf(w)].status = "archived"
               /\ prop'[w].action = "supersede" => mem'[MemoryOf(w)].by = w
    <3>1. CASE w = v
      BY <1>0, <1>b, <1>2, <3>1 DEF Silent
    <3>2. CASE w # v
      <4>1. /\ prop'[w] = prop[w] /\ prop[w].status = "applied"
            /\ MemoryOf(w) \in Memories
        BY <1>1, <2>3, <3>2 DEF Verdicts, MemoryOf
      <4>2. /\ prop[w].action = "archive" => mem[MemoryOf(w)].status = "archived"
            /\ prop[w].action = "supersede" => mem[MemoryOf(w)].by = w
        BY <4>1 DEF IInv, VerdictsHold
      <4>3. w # NULL
        BY ForgettingPassAssumption
      <4>4. prop[w].action = "supersede" => ~Live(MemoryOf(w))
        BY <4>1, <4>2, <4>3 DEF IInv, MemoriesOK
      <4> QED BY <1>3, <4>1, <4>2, <4>4
    <3> QED BY <3>1, <3>2
  <2>4. ASSUME NEW n \in Memories, mem'[n].by # NULL
        PROVE  prop'[mem'[n].by].status = "applied" /\ MemoryOf(mem'[n].by) = n
    <3>1. CASE mem'[n] = mem[n]
      <4>1. mem[n].by \in Verdicts /\ mem[n].by # v
        BY <1>2, <2>4, <3>1 DEF IInv, TypeOK, MemoryRows, VerdictsHold
      <4> QED BY <1>1, <2>4, <3>1, <4>1 DEF IInv, VerdictsHold
    <3>2. CASE n = m /\ writes
      BY <1>b, <1>2, <3>2
    <3> QED BY <1>3, <3>1, <3>2
  <2> QED BY <2>2, <2>3, <2>4 DEF VerdictsHold
<1>13. NamesLive
  <2>1. ASSUME NEW n \in Memories, mem'[n].by # mem[n].by,
               prop[mem'[n].by].action = "supersede"
        PROVE  Live(n) /\ Live(prop[mem'[n].by].related)
    BY <1>3, <2>1
  <2> QED BY <1>5, <2>1 DEF NamesLive
<1> QED BY <1>7, <1>8, <1>9, <1>10, <1>11, <1>12, <1>13 DEF IInv
-----------------------------------------------------------------------------
(* Everybody else.                                                         *)

(* What a write does to a row: nobody has it locked, or it was not there.  *)
Moved(m) ==
  /\ Free(m) \/ mem[m].status = "none"
  /\ mem'[m].by = mem[m].by
  /\ mem'[m].touched = clock
  /\ mem[m].status = "archived" => mem'[m].status = "archived"
  /\ mem[m].status # "none" =>
       mem'[m].status # "none" /\ (~Live(m) => ~Live(m)')

LEMMA WriteStep ==
  ASSUME IInv, TypeOK', BesidesMemories,
         \A m \in Memories : mem'[m] = mem[m] \/ Moved(m),
         \E n \in 0..MaxMemory : WrittenMemories' = 1..n
  PROVE  IInv' /\ NamesLive
<1> USE DEF BesidesMemories
<1>1. Onward
  <2>1. /\ \A m \in Memories : mem[m].touched \in Nat
        /\ \A m \in Memories : mem[m].touched <= clock
    BY DEF IInv, TypeOK, MemoryRows, Times, MemoriesOK
  <2>2. \A m \in Memories : mem[m].touched <= mem'[m].touched
    BY <2>1 DEF Moved
  <2> QED BY <2>2 DEF Onward, Staged, Open
<1>2. \A m \in Memories : ~Free(m) /\ Live(m) => mem'[m] = mem[m]
  BY DEF Moved, Live
<1>3. JudgedAnew' /\ \A s \in Passes : FreshOK(s)' /\ SightOK(s)' /\ ShareOK(s)'
  <2>1. \A s \in Passes : pass[s].live \in SUBSET Memories
    BY DEF IInv, TypeOK, PassStates
  <2>2. \A s \in Passes : pass[s].pc = "insert" =>
          \A m \in pass[s].live : Live(m) => mem'[m] = mem[m]
    BY <1>2, <2>1 DEF Free, Shared
  <2> QED BY <1>1, <2>2, OutsideStep DEF Staged
<1>4. ASSUME NEW r \in Reviewers PROVE ReviewOK(r)'
  <2>1. review[r].holds \in SUBSET Memories
    BY DEF IInv, TypeOK, ReviewStates
  <2>2. \A m \in review[r].holds : Live(m) => mem'[m] = mem[m]
    BY <1>2, <2>1 DEF Free, Held
  <2>3. \A m \in Memories : mem[m].status = "archived" =>
                              mem'[m].status = "archived"
    BY DEF Moved
  <2> QED BY <1>1, <2>2, <2>3, ReviewKept DEF IInv
<1>5. MemoriesOK'
  <2>1. ASSUME NEW m \in Memories
        PROVE  /\ mem'[m].touched <= clock
               /\ mem'[m].by # NULL => mem'[m].status # "none" /\ ~Live(m)'
    <3>1. CASE mem'[m] = mem[m]
      BY <3>1 DEF IInv, MemoriesOK, Live
    <3>2. CASE Moved(m)
      <4>1. clock \in Nat
        BY DEF IInv, TypeOK, Times
      <4> QED BY <3>2, <4>1 DEF IInv, MemoriesOK, Moved
    <3> QED BY <3>1, <3>2
  <2> QED BY <2>1 DEF MemoriesOK
<1>6. ProposalsOK' /\ LocksOK'
  BY DEF IInv, ProposalsOK, LocksOK
<1>7. \A m \in Memories : mem'[m].by = mem[m].by
  BY DEF Moved
<1>8. VerdictsHold'
  <2>1. \A v \in Verdicts : MemoryOf(v) \in Memories
    BY DEF Verdicts, MemoryOf
  <2>2. \A m \in Memories : mem[m].status = "archived" =>
                              mem'[m].status = "archived"
    BY DEF Moved
  <2> QED BY <1>7, <2>1, <2>2 DEF IInv, VerdictsHold
<1>9. NamesLive
  BY <1>7 DEF NamesLive, Staged
<1> QED BY <1>3, <1>4, <1>5, <1>6, <1>8, <1>9 DEF IInv

(* The next memory has not been written; once it is, the written ones are  *)
(* again the first.                                                        *)
LEMMA NextIsUnwritten ==
  ASSUME IInv, NextMemory \in Memories
  PROVE  /\ mem[NextMemory].status = "none"
         /\ \E n \in 0..MaxMemory :
              /\ WrittenMemories = 1..n
              /\ 1..(n + 1) = WrittenMemories \cup {NextMemory}
              /\ n + 1 \in 0..MaxMemory
<1>1. PICK n \in 0..MaxMemory : WrittenMemories = 1..n
  BY DEF IInv, MemoriesOK
<1>2. MaxMemory \in Nat /\ n \in Nat
  BY ForgettingPassAssumption
<1>3. Cardinality(1..n) = n
  BY <1>2, FS_Interval
<1>4. NextMemory = n + 1
  BY <1>1, <1>3 DEF NextMemory, WrittenMemories
<1>5. NextMemory \notin WrittenMemories
  BY <1>1, <1>2, <1>4
<1>6. 1..(n + 1) = 1..n \cup {n + 1}
  BY <1>2
<1>7. n + 1 \in 0..MaxMemory /\ 1..(n + 1) = WrittenMemories \cup {NextMemory}
  BY <1>1, <1>2, <1>4, <1>6 DEF Memories
<1>8. mem[NextMemory].status = "none"
  BY <1>5 DEF WrittenMemories
<1> QED BY <1>1, <1>7, <1>8

LEMMA UserStep ==
  ASSUME IInv, TypeOK', UserSteps
  PROVE  IInv' /\ NamesLive
<1>0. /\ mem \in [Memories -> MemoryRows]
      /\ \E n \in 0..MaxMemory : WrittenMemories = 1..n
      /\ \A m \in Memories : mem[m].status = "none" => mem[m].by = NULL
  BY DEF IInv, TypeOK, MemoriesOK
<1>1. ASSUME NEW m \in Memories, TouchMemory(m) \/ ArchiveMemory(m)
      PROVE  IInv' /\ NamesLive
  <2>1. /\ BesidesMemories
        /\ Live(m) /\ Free(m)
        /\ \A n \in Memories \ {m} : mem'[n] = mem[n]
        /\ mem'[m].by = mem[m].by /\ mem'[m].touched = clock
        /\ mem'[m].status \in {mem[m].status, "archived"}
    BY <1>0, <1>1 DEF TouchMemory, ArchiveMemory, MemoryRows
  <2>2. Moved(m)
    BY <2>1 DEF Moved, Live
  <2>3. WrittenMemories' = WrittenMemories
    BY <2>1 DEF WrittenMemories, Live
  <2> QED BY <1>0, <2>1, <2>2, <2>3, WriteStep
<1>2. ASSUME NEW m \in Memories, ReviseMemory(m)
      PROVE  IInv' /\ NamesLive
  <2> DEFINE next == NextMemory
  <2>1. /\ next \in Memories
        /\ mem[next].status = "none"
        /\ mem[m].status # "none" /\ Free(m)
    BY <1>2, NextIsUnwritten DEF ReviseMemory
  <2> HIDE DEF next
  <2>2. mem' = [mem EXCEPT ![m].closed = TRUE, ![m].touched = clock,
                           ![next] = Written(clock)]
    BY <1>2 DEF ReviseMemory, next
  <2>3. /\ \A n \in Memories \ {m, next} : mem'[n] = mem[n]
        /\ mem'[m] = [mem[m] EXCEPT !.closed = TRUE, !.touched = clock]
        /\ mem'[next] = Written(clock)
    BY <1>0, <2>1, <2>2
  <2>4. Moved(m)
    <3>1. /\ mem'[m].closed /\ mem'[m].touched = clock
          /\ mem'[m].status = mem[m].status /\ mem'[m].by = mem[m].by
      BY <1>0, <2>3 DEF MemoryRows
    <3> QED BY <2>1, <3>1 DEF Moved, Live
  <2>5. Moved(next)
    BY <1>0, <2>1, <2>3 DEF Moved, Written
  <2>6. WrittenMemories' = WrittenMemories \cup {next}
    <3>1. mem'[m].status # "none" /\ mem'[next].status # "none"
      BY <2>1, <2>3, <2>4 DEF Written, Moved
    <3> QED BY <2>1, <2>3, <3>1 DEF WrittenMemories
  <2>7. \E n \in 0..MaxMemory : WrittenMemories' = 1..n
    BY <1>2, <2>6, NextIsUnwritten DEF ReviseMemory, next
  <2>8. BesidesMemories
    BY <1>2 DEF ReviseMemory
  <2> QED BY <2>3, <2>4, <2>5, <2>7, <2>8, WriteStep
<1>3. ASSUME Remember
      PROVE  IInv' /\ NamesLive
  <2> DEFINE next == NextMemory
  <2>1. next \in Memories /\ mem[next].status = "none"
    BY <1>3, NextIsUnwritten DEF Remember
  <2> HIDE DEF next
  <2>2. /\ \A n \in Memories \ {next} : mem'[n] = mem[n]
        /\ mem'[next] = Written(clock)
    BY <1>0, <1>3, <2>1 DEF Remember, next
  <2>3. Moved(next)
    BY <1>0, <2>1, <2>2 DEF Moved, Written
  <2>4. WrittenMemories' = WrittenMemories \cup {next}
    BY <2>1, <2>2 DEF WrittenMemories, Written
  <2>5. \E n \in 0..MaxMemory : WrittenMemories' = 1..n
    BY <1>3, <2>4, NextIsUnwritten DEF Remember, next
  <2>6. BesidesMemories
    BY <1>3 DEF Remember
  <2> QED BY <2>2, <2>3, <2>5, <2>6, WriteStep
<1> QED BY <1>1, <1>2, <1>3 DEF UserSteps

(* Time passes, or nothing happens.                                        *)
LEMMA IdleStep ==
  ASSUME IInv, TypeOK', Tick \/ UNCHANGED vars
  PROVE  IInv' /\ NamesLive
<1>0. /\ UNCHANGED <<mem, prop, pass, review, answered>>
      /\ clock \in Nat /\ clock' \in Nat /\ clock <= clock'
  BY DEF Tick, vars, IInv, TypeOK, Times
<1>1. \A m \in Memories : mem[m].touched \in Nat
  BY DEF IInv, TypeOK, MemoryRows, Times
<1>2. Onward
  BY <1>0, <1>1 DEF Onward, Staged, Open
<1>3. JudgedAnew' /\ \A s \in Passes : FreshOK(s)' /\ SightOK(s)' /\ ShareOK(s)'
  BY <1>0, <1>2, OutsideStep DEF Staged
<1>4. MemoriesOK'
  BY <1>0, <1>1 DEF IInv, MemoriesOK, WrittenMemories, Live
<1>5. ProposalsOK' /\ LocksOK' /\ VerdictsHold'
  BY <1>0 DEF IInv, ProposalsOK, LocksOK, VerdictsHold
<1>6. \A r \in Reviewers : ReviewOK(r)'
  BY <1>0 DEF IInv, ReviewOK, Staged, Live
<1>7. NamesLive
  BY <1>0 DEF NamesLive, Staged
<1> QED BY <1>3, <1>4, <1>5, <1>6, <1>7 DEF IInv

-----------------------------------------------------------------------------
(* The theorems.                                                           *)

LEMMA InitOK == Init => IInv
<1> SUFFICES ASSUME Init PROVE IInv
  OBVIOUS
<1>0. /\ MaxTime \in Nat /\ MaxMemory \in Nat /\ 0 \in Times
      /\ FirstMemories \in 0..MaxMemory
      /\ NULL \notin Memories \cup Verdicts
  BY ForgettingPassAssumption DEF Times
<1>1. TypeOK
  <2>1. Written(0) \in MemoryRows /\ Unwritten \in MemoryRows
    BY <1>0 DEF Written, Unwritten, MemoryRows
  <2>2. Unstaged \in ProposalRows
    BY <1>0 DEF Unstaged, ProposalRows, Actions
  <2>3. IdlePass \in PassStates
    BY <1>0 DEF IdlePass, PassStates
  <2>4. IdleReview \in ReviewStates
    BY DEF IdleReview, ReviewStates
  <2> QED BY <1>0, <2>1, <2>2, <2>3, <2>4 DEF Init, TypeOK
<1>2. MemoriesOK
  <2>1. WrittenMemories = 1..FirstMemories
    BY <1>0 DEF Init, WrittenMemories, Memories, Written, Unwritten
  <2>2. \A m \in Memories : mem[m].touched = 0 /\ mem[m].by = NULL
    BY DEF Init, Written, Unwritten
  <2>3. clock = 0
    BY DEF Init
  <2> QED BY <1>0, <2>1, <2>2, <2>3 DEF MemoriesOK
<1>3. /\ \A v \in Verdicts :
           /\ prop[v].status = "none" /\ prop[v].action = "keep"
           /\ answered[v] = {}
      /\ \A s \in Passes : pass[s] = IdlePass
      /\ \A r \in Reviewers : review[r] = IdleReview
      /\ \A m \in Memories : mem[m].by = NULL
  BY DEF Init, Unstaged, Written, Unwritten
<1>4. ProposalsOK /\ LocksOK /\ VerdictsHold
  BY <1>3 DEF ProposalsOK, LocksOK, VerdictsHold, IdlePass, IdleReview
<1>5. \A r \in Reviewers : ReviewOK(r)
  BY <1>3 DEF ReviewOK, IdleReview
<1>6. \A s \in Passes : FreshOK(s) /\ SightOK(s) /\ ShareOK(s)
  <2>1. \A s \in Passes, m \in Memories : Unasked(s, m)
    BY <1>3 DEF Unasked, Staged, Verdicts
  <2> QED BY <1>3, <2>1 DEF FreshOK, SightOK, ShareOK, IdlePass
<1>7. JudgedAnew
  BY <1>3 DEF JudgedAnew, Staged, Open, OpenVerdicts
<1> QED BY <1>1, <1>2, <1>4, <1>5, <1>6, <1>7 DEF IInv

LEMMA NextOK == IInv /\ [Next]_vars => IInv' /\ NamesLive
<1> SUFFICES ASSUME IInv, [Next]_vars
             PROVE  IInv' /\ NamesLive
  OBVIOUS
<1>0. TypeOK /\ \A r \in Reviewers : ReviewOK(r)
  BY DEF IInv
<1>1. CASE \E s \in Passes : PassSteps(s)
  <2>1. PICK s \in Passes : PassSteps(s)
    BY <1>1
  <2>2. TypeOK'
    BY <1>0, <2>1, PassTyped
  <2>3. CASE ReadSingles(s)
    BY <2>2, <2>3, ReadSinglesStep
  <2>4. CASE ReadPairs(s)
    BY <2>2, <2>4, ReadPairsStep
  <2>5. CASE JudgeBatch(s)
    BY <2>2, <2>5, JudgeBatchStep
  <2>6. CASE LockNamed(s)
    BY <2>2, <2>6, LockNamedStep
  <2>7. CASE InsertVerdicts(s)
    BY <2>2, <2>7, InsertVerdictsStep
  <2>8. CASE NoMoreItems(s) \/ PassStops(s)
    BY <2>2, <2>8, PassEndsStep
  <2> QED BY <2>1, <2>3, <2>4, <2>5, <2>6, <2>7, <2>8 DEF PassSteps
<1>2. CASE \E v \in Verdicts : RejectProposal(v)
  BY <1>0, <1>2, OtherTyped, RejectStep
<1>3. CASE \E r \in Reviewers : ReviewSteps(r)
  <2>1. TypeOK'
    BY <1>0, <1>3, OtherTyped
  <2> QED BY <1>3, <2>1, LocksStep, AcceptStep DEF ReviewSteps
<1>4. CASE UserSteps
  BY <1>0, <1>4, OtherTyped, UserStep
<1>5. CASE Tick \/ UNCHANGED vars
  BY <1>0, <1>5, OtherTyped, IdleStep
<1> QED BY <1>1, <1>2, <1>3, <1>4, <1>5 DEF Next

LEMMA Inductive == Spec => []IInv
<1>1. IInv /\ [Next]_vars => IInv'
  BY NextOK
<1> QED BY <1>1, InitOK, PTL DEF Spec

(* However many passes and reviews overlap, every variable keeps its type: *)
(* what a pass holds between its reads and its writes is always a set of   *)
(* items or verdicts about memories of the tenant.                         *)
THEOREM TypeCorrect == Spec => []TypeOK
<1>1. IInv => TypeOK
  BY DEF IInv
<1> QED BY <1>1, Inductive, PTL

(* decideRetentionProposal, acceptRetentionProposal: one decision at most  *)
(* of a proposal, what was accepted was applied, and nothing else was.     *)
THEOREM Decisions == Spec => []VerdictsHold
<1>1. IInv => VerdictsHold
  BY DEF IInv
<1> QED BY <1>1, Inductive, PTL

(* forgetting-candidates.ts: a memory is judged again only after it        *)
(* changes, and never while it has an open proposal.                       *)
THEOREM Rejudgments == Spec => []JudgedAnew
<1>1. IInv => JudgedAnew
  BY DEF IInv
<1> QED BY <1>1, Inductive, PTL

(* insertRetentionProposals, materializeEdgeIn: nothing is staged or       *)
(* superseded by a verdict that names a memory which is not live.          *)
THEOREM OnlyLiveAreNamed == Spec => NamesTheLive
<1>1. IInv /\ [Next]_vars => [NamesLive]_vars
  BY NextOK
<1> QED BY <1>1, Inductive, PTL DEF Spec, NamesTheLive, NamesLive
=============================================================================
