---------------------------- MODULE MemoryChain ----------------------------
(***************************************************************************)
(* Memories that supersede one another and the commitments that ride them. *)
(* Every client runs READ COMMITTED transactions: an unlocked read sees    *)
(* what has committed, a locking statement waits, and what a transaction   *)
(* writes is seen by others when it commits.  A transaction is as many     *)
(* actions as it has statements that may wait or whose result goes stale;  *)
(* its writes are all in its last one.                                     *)
(*                                                                         *)
(* Content, filing, facts, due dates and session provenance are left out;  *)
(* which commitments are overdue is any set of the live ones.              *)
(***************************************************************************)
EXTENDS RowLocks, CommitmentFsm, Naturals

CONSTANTS
  Memories,                \* ids of memories
  Commitments,             \* ids of commitments
  MAX_TRANSITION_ATTEMPTS, \* tries of applyTransition's compare-and-set
  NULL

ASSUME ChainAssumption ==
  /\ MAX_TRANSITION_ATTEMPTS \in Nat \ {0}
  /\ Memories \cap Commitments = {}
  /\ NULL \notin Memories \cup Commitments

VARIABLES
  mem,       \* the memories table
  com,       \* the commitments table
  tx,        \* each client's transaction: where it is and what it has read
  trail,     \* history: the status the events of a commitment replay to
  reopened,  \* history: commitments reopened on a memory already closing
  backstop   \* history: what the database itself has had to refuse

vars == <<mem, com, held, tx, trail, reopened, backstop>>

tables == <<mem, com, trail, reopened, backstop>>

-----------------------------------------------------------------------------
Kinds == {"commitment", "other"}

(* closed: valid_to is set.  heirs: who supersedes or updates it.          *)
Memory == [ born : BOOLEAN, kind : Kinds, archived : BOOLEAN,
            closed : BOOLEAN, heirs : SUBSET Memories ]

Unborn == [ born |-> FALSE, kind |-> "other", archived |-> FALSE,
            closed |-> FALSE, heirs |-> {} ]

Commitment == [ memory : Memories \cup {NULL},
                status : CommitmentStatus \cup {"none"} ]

Idle == [ pc |-> "idle", com |-> NULL, mem |-> NULL, heir |-> NULL,
          kind |-> "other", from |-> "none", to |-> "none", tries |-> 0,
          stamped |-> FALSE, policy |-> "generic" ]

TxStates ==
  [ pc : {"idle", "begin", "update", "reread", "event", "sweep", "promote",
          "move", "resolve", "finish", "judge", "archive", "insert"},
    com : Commitments \cup {NULL}, mem : Memories \cup {NULL},
    heir : Memories \cup {NULL}, kind : Kinds,
    from : CommitmentStatus \cup {"none"}, to : CommitmentStatus \cup {"none"},
    tries : 0..MAX_TRANSITION_ATTEMPTS, stamped : BOOLEAN,
    policy : {"generic", "disposition"} ]

TypeOK ==
  /\ mem \in [Memories -> Memory]
  /\ com \in [Commitments -> Commitment]
  /\ held \in [Clients -> SUBSET ((Memories \cup Commitments) \X Modes)]
  /\ tx \in [Clients -> TxStates]
  /\ trail \in [Commitments -> CommitmentStatus \cup {"none", "broken"}]
  /\ reopened \in SUBSET Commitments
  /\ backstop \in SUBSET {"fsm", "unique"}

Init ==
  /\ mem = [m \in Memories |-> Unborn]
  /\ com = [k \in Commitments |-> [memory |-> NULL, status |-> "none"]]
  /\ held = [c \in Clients |-> {}]
  /\ tx = [c \in Clients |-> Idle]
  /\ trail = [k \in Commitments |-> "none"]
  /\ reopened = {}
  /\ backstop = {}

-----------------------------------------------------------------------------
LiveStatus(k) == com[k].status \in LIVE_COMMITMENT_STATES

Riders(m) == {k \in Commitments : com[k].memory = m}

(* A transaction under way supersedes m, should it commit.                 *)
Closing(m) ==
  \E c \in Clients : tx[c].mem = m /\ tx[c].heir # NULL

Go(c, state) == tx' = [tx EXCEPT ![c] = state]

(* COMMIT or ROLLBACK: the locks go.                                       *)
End(c) ==
  /\ Go(c, Idle)
  /\ held' = [held EXCEPT ![c] = {}]

(* A locking statement, once it is granted.                                *)
Acquire(c, locks) ==
  /\ \A l \in locks : Grantable(c, l[1], l[2])
  /\ held' = [held EXCEPT ![c] = @ \cup locks]

(* The reader of the event stream at its next event, named by the status   *)
(* TRANSITION_EVENT_KIND maps to it.                                       *)
Replay(seen, to) == IF canTransition(seen, to) THEN to ELSE "broken"

SetStatus(K, to) ==
  /\ com' = [k \in Commitments |->
               IF k \in K THEN [com[k] EXCEPT !.status = to] ELSE com[k]]
  /\ trail' = [k \in Commitments |->
                 IF k \in K THEN Replay(trail[k], to) ELSE trail[k]]

(* The FSM trigger lets an UPDATE to the same status through.              *)
TriggerAdmits(k, to) == com[k].status = to \/ canTransition(com[k].status, to)

NewCommitment(k, m) ==
  /\ com[k].status = "none"
  /\ com' = [com EXCEPT ![k] = [memory |-> m, status |-> "open"]]
  /\ trail' = [trail EXCEPT ![k] = "open"]

-----------------------------------------------------------------------------
(* writeMemory: a commitment memory gets its commitment with it.           *)
Fresh(m) == ~mem[m].born /\ \A c \in Clients : tx[c].heir # m

Remember(m, kind) ==
  /\ Fresh(m)
  /\ mem' = [mem EXCEPT ![m] = [Unborn EXCEPT !.born = TRUE, !.kind = kind]]
  /\ IF kind = "commitment"
     THEN \E k \in Commitments : NewCommitment(k, m)
     ELSE UNCHANGED <<com, trail>>
  /\ UNCHANGED <<held, tx, reopened, backstop>>

(* createCommitment: the parent is locked FOR SHARE, so that it is still   *)
(* live when the row lands.                                                *)
noLock(m) == {}
parentLock(m) == {<<m, "share">>}

CreateCheck(c, m) ==
  /\ tx[c].pc = "idle"
  /\ mem[m].born /\ mem[m].kind = "commitment" /\ ~mem[m].closed
  /\ Acquire(c, parentLock(m))
  /\ Go(c, [Idle EXCEPT !.pc = "insert", !.mem = m])
  /\ UNCHANGED tables

(* A memory has one commitment: the unique index refuses another.          *)
CreateInsert(c, k) ==
  /\ tx[c].pc = "insert"
  /\ IF Riders(tx[c].mem) = {} THEN NewCommitment(k, tx[c].mem)
     ELSE UNCHANGED <<com, trail>>
  /\ End(c)
  /\ UNCHANGED <<mem, reopened, backstop>>

-----------------------------------------------------------------------------
(* applyTransition and transitionCommitment.                               *)

(* getCommitment and canTransition.  A request the machine does not allow  *)
(* changes nothing.                                                        *)
TransitionRead(c, k, to) ==
  /\ tx[c].pc = "idle"
  /\ canTransition(com[k].status, to)
  /\ Go(c, [Idle EXCEPT !.pc = "begin", !.com = k, !.from = com[k].status,
                        !.to = to, !.tries = 1])
  /\ UNCHANGED <<tables, held>>

(* resolveForClosedRun: the same for the closer's resolve, which is        *)
(* stamped with its run and epoch.                                         *)
StampedRead(c, k) ==
  /\ tx[c].pc = "idle"
  /\ canTransition(com[k].status, "resolved")
  /\ Go(c, [Idle EXCEPT !.pc = "begin", !.com = k, !.from = com[k].status,
                        !.to = "resolved", !.tries = 1, !.stamped = TRUE])
  /\ UNCHANGED <<tables, held>>

(* The transaction's own read of memory_id: a stamped one locks the row.   *)
TransitionMemory(c) ==
  /\ tx[c].pc = "begin"
  /\ Acquire(c, IF tx[c].stamped THEN {<<tx[c].com, "update">>} ELSE {})
  /\ Go(c, [tx[c] EXCEPT !.pc = "update", !.mem = com[tx[c].com].memory])
  /\ UNCHANGED tables

(* The run came back: SessionEpochFencedError.                             *)
StampedFenced(c) ==
  /\ tx[c].pc = "update" /\ tx[c].stamped
  /\ End(c)
  /\ UNCHANGED tables

(* The UPDATE's predicate on status: the compare of the compare-and-set.   *)
matchesAny(k, from) == TRUE
matchesExpected(k, from) == com[k].status = from

TransitionUpdate(c) ==
  LET k == tx[c].com
  IN  /\ tx[c].pc = "update"
      /\ matchesExpected(k, tx[c].from)
      /\ IF TriggerAdmits(k, tx[c].to)
         THEN /\ Acquire(c, {<<k, "nokeyupdate">>})
              /\ Go(c, [tx[c] EXCEPT !.pc = "event"])
              /\ UNCHANGED backstop
         ELSE End(c) /\ backstop' = backstop \cup {"fsm"}
      /\ UNCHANGED <<mem, com, trail, reopened>>

(* Zero rows: CommitmentStateChangedError.  applyTransition reads again,   *)
(* so many times; a closer's resolve does not.                             *)
lastAttempt(tries) == tries = MAX_TRANSITION_ATTEMPTS

TransitionLost(c) ==
  /\ tx[c].pc = "update"
  /\ ~matchesExpected(tx[c].com, tx[c].from)
  /\ held' = [held EXCEPT ![c] = {}]
  /\ IF tx[c].stamped \/ lastAttempt(tx[c].tries)
     THEN Go(c, Idle)
     ELSE Go(c, [tx[c] EXCEPT !.pc = "reread"])
  /\ UNCHANGED tables

(* Decide again from the live status: already there, illegal, or retry.    *)
TransitionReread(c) ==
  LET k == tx[c].com
  IN  /\ tx[c].pc = "reread"
      /\ IF canTransition(com[k].status, tx[c].to)
         THEN Go(c, [tx[c] EXCEPT !.pc = "begin", !.from = com[k].status,
                                  !.tries = @ + 1])
         ELSE Go(c, Idle)
      /\ UNCHANGED <<tables, held>>

(* The event names the memory read before the UPDATE; its foreign key asks *)
(* for a key share on that memory.                                         *)
TransitionCommit(c) ==
  LET k == tx[c].com
      m == com[k].memory
  IN  /\ tx[c].pc = "event"
      /\ Grantable(c, tx[c].mem, "keyshare")
      /\ SetStatus({k}, tx[c].to)
      /\ reopened' = IF /\ ~LiveStatus(k)
                        /\ mem[m].closed \/ Closing(m)
                     THEN reopened \cup {k} ELSE reopened
      /\ End(c)
      /\ UNCHANGED <<mem, backstop>>

-----------------------------------------------------------------------------
(* sweepCommitments: one UPDATE over the overdue, locking them one by one, *)
(* then an event each.                                                     *)
Swept(c) == {k \in Commitments : <<k, "nokeyupdate">> \in held[c]}

SweepExpire(c, k) ==
  /\ tx[c].pc \in {"idle", "sweep"}
  /\ k \notin Swept(c)
  /\ LiveStatus(k)
  /\ Acquire(c, {<<k, "nokeyupdate">>})
  /\ Go(c, [Idle EXCEPT !.pc = "sweep"])
  /\ UNCHANGED tables

SweepCommit(c) ==
  /\ tx[c].pc = "sweep"
  /\ \A k \in Swept(c) : Grantable(c, com[k].memory, "keyshare")
  /\ SetStatus(Swept(c), "expired")
  /\ End(c)
  /\ UNCHANGED <<mem, reopened, backstop>>

-----------------------------------------------------------------------------
(* Superseding a memory: reviseMemory with carryCommitment, and            *)
(* materializeEdgeIn with carryOrResolvePredecessorCommitment.             *)

Supersede(c, m, s, kind, k, step) ==
  Go(c, [Idle EXCEPT !.pc = step, !.mem = m, !.heir = s, !.kind = kind,
                     !.com = k])

(* The UPDATE closes a predecessor still live; carryCommitment then reads  *)
(* its commitment without a lock and picks one of its four cases.          *)
validNow(m) == mem[m].born /\ ~mem[m].closed

ReviseClose(c, m, s, kind) ==
  /\ tx[c].pc = "idle"
  /\ validNow(m)
  /\ Fresh(s) /\ s # m
  /\ Acquire(c, {<<m, "nokeyupdate">>})
  /\ \/ /\ Riders(m) = {}
        /\ Supersede(c, m, s, kind, NULL,
                     IF kind = "commitment" THEN "promote" ELSE "finish")
     \/ \E k \in Riders(m) :
          Supersede(c, m, s, kind, k,
                    IF kind = "commitment" THEN "move"
                    ELSE IF LiveStatus(k) THEN "resolve" ELSE "finish")
  /\ UNCHANGED tables

(* assertNoEpisodicEndpoint locks both ends and finds the successor live;  *)
(* only a live obligation is carried, and only onto a commitment memory    *)
(* without one of its own.                                                 *)
predecessorOnly(m, s) == {<<m, "update">>}
EndLocks(m, s) == {<<m, "update">>, <<s, "update">>}

movable(s) == mem[s].kind = "commitment" /\ Riders(s) = {}

ApplyLock(c, m, s) ==
  /\ tx[c].pc = "idle"
  /\ m # s
  /\ mem[m].born /\ ~mem[m].closed
  /\ mem[s].born /\ ~mem[s].closed /\ ~mem[s].archived
  /\ Acquire(c, EndLocks(m, s))
  /\ \/ /\ \A k \in Riders(m) : ~LiveStatus(k)
        /\ Supersede(c, m, s, mem[s].kind, NULL, "finish")
     \/ \E k \in Riders(m) :
          /\ LiveStatus(k)
          /\ Supersede(c, m, s, mem[s].kind, k,
                       IF movable(s) THEN "move" ELSE "resolve")
  /\ UNCHANGED tables

(* The commit of either: the predecessor closed, the successor there, the  *)
(* edge between them.                                                      *)
CloseOld(c) ==
  LET m == tx[c].mem
      s == tx[c].heir
      heir == IF mem[s].born THEN mem[s]
              ELSE [Unborn EXCEPT !.born = TRUE, !.kind = tx[c].kind]
  IN  mem' = [mem EXCEPT ![s] = heir, ![m].closed = TRUE,
                         ![m].heirs = @ \cup {s}]

CarryFinish(c) ==
  /\ tx[c].pc = "finish"
  /\ CloseOld(c)
  /\ End(c)
  /\ UNCHANGED <<com, trail, reopened, backstop>>

(* Promoted to a commitment: a commitment of its own.                      *)
CarryPromote(c, k) ==
  /\ tx[c].pc = "promote"
  /\ CloseOld(c)
  /\ NewCommitment(k, tx[c].heir)
  /\ End(c)
  /\ UNCHANGED <<reopened, backstop>>

(* The row follows, whatever its status has become, unless the unique      *)
(* index finds one there.                                                  *)
CarryMove(c) ==
  LET s == tx[c].heir
  IN  /\ tx[c].pc = "move"
      /\ Grantable(c, tx[c].com, "update")
      /\ IF Riders(s) = {}
         THEN /\ CloseOld(c)
              /\ com' = [com EXCEPT ![tx[c].com].memory = s]
              /\ UNCHANGED backstop
         ELSE /\ backstop' = backstop \cup {"unique"}
              /\ UNCHANGED <<mem, com>>
      /\ End(c)
      /\ UNCHANGED <<trail, reopened>>

(* Resolved, unless it has reached a terminal status meanwhile.            *)
stillLiveUnchecked(k) == TRUE
stillLive(k) == LiveStatus(k)

CarryResolve(c) ==
  LET k == tx[c].com
  IN  /\ tx[c].pc = "resolve"
      /\ \/ /\ stillLive(k) /\ TriggerAdmits(k, "resolved")
            /\ Grantable(c, k, "nokeyupdate")
            /\ SetStatus({k}, "resolved") /\ CloseOld(c)
            /\ UNCHANGED backstop
         \/ /\ stillLive(k) /\ ~TriggerAdmits(k, "resolved")
            /\ backstop' = backstop \cup {"fsm"}
            /\ UNCHANGED <<mem, com, trail>>
         \/ /\ ~stillLive(k)
            /\ CloseOld(c)
            /\ UNCHANGED <<com, trail, backstop>>
      /\ End(c)
      /\ UNCHANGED reopened

-----------------------------------------------------------------------------
(* archiveMemoryIn: the memory FOR UPDATE, then its commitment FOR SHARE.  *)
ArchiveLock(c, m, policy) ==
  /\ tx[c].pc = "idle"
  /\ mem[m].born /\ ~mem[m].archived /\ ~mem[m].closed
  /\ Acquire(c, {<<m, "update">>})
  /\ Go(c, [Idle EXCEPT !.pc = IF policy = "disposition" THEN "judge"
                               ELSE "archive",
                        !.mem = m, !.policy = policy])
  /\ UNCHANGED tables

judgeUnlocked(m) == {}
judgeLocks(m) == {<<k, "share">> : k \in Riders(m)}

(* judgeArchive on the locked row: a live obligation rejects.              *)
ArchiveJudge(c) ==
  LET m == tx[c].mem
  IN  /\ tx[c].pc = "judge"
      /\ \A l \in judgeLocks(m) : Grantable(c, l[1], l[2])
      /\ IF \E k \in Riders(m) : LiveStatus(k)
         THEN End(c)
         ELSE /\ Acquire(c, judgeLocks(m))
              /\ Go(c, [tx[c] EXCEPT !.pc = "archive"])
      /\ UNCHANGED tables

ArchiveWrite(c) ==
  /\ tx[c].pc = "archive"
  /\ mem' = [mem EXCEPT ![tx[c].mem].archived = TRUE]
  /\ End(c)
  /\ UNCHANGED <<com, trail, reopened, backstop>>

(* Any statement fails: a constraint, a lost connection, a deadlock.       *)
Rollback(c) ==
  /\ tx[c].pc # "idle"
  /\ End(c)
  /\ UNCHANGED tables

-----------------------------------------------------------------------------
Creates(c) ==
  \/ \E m \in Memories : CreateCheck(c, m)
  \/ \E k \in Commitments : CreateInsert(c, k)

Transitions(c) ==
  \/ \E k \in Commitments, to \in CommitmentStatus : TransitionRead(c, k, to)
  \/ \E k \in Commitments : StampedRead(c, k)
  \/ TransitionMemory(c)
  \/ StampedFenced(c)
  \/ TransitionUpdate(c)
  \/ TransitionLost(c)
  \/ TransitionReread(c)
  \/ TransitionCommit(c)

Sweeps(c) ==
  \/ \E k \in Commitments : SweepExpire(c, k)
  \/ SweepCommit(c)

Supersedes(c) ==
  \/ \E m, s \in Memories, kind \in Kinds : ReviseClose(c, m, s, kind)
  \/ \E m, s \in Memories : ApplyLock(c, m, s)
  \/ CarryFinish(c)
  \/ \E k \in Commitments : CarryPromote(c, k)
  \/ CarryMove(c)
  \/ CarryResolve(c)

Archives(c) ==
  \/ \E m \in Memories, policy \in {"generic", "disposition"} :
       ArchiveLock(c, m, policy)
  \/ ArchiveJudge(c)
  \/ ArchiveWrite(c)

Next ==
  \/ \E m \in Memories, kind \in Kinds : Remember(m, kind)
  \/ \E c \in Clients : Creates(c)
  \/ \E c \in Clients : Transitions(c)
  \/ \E c \in Clients : Sweeps(c)
  \/ \E c \in Clients : Supersedes(c)
  \/ \E c \in Clients : Archives(c)
  \/ \E c \in Clients : Rollback(c)

Spec == Init /\ [][Next]_vars

-----------------------------------------------------------------------------
(* Properties.                                                             *)

(* commitments.ts: every status change goes along COMMITMENT_TRANSITIONS   *)
(* and the events replay to it, one event a change, however the callers'   *)
(* reads interleave with the sweep, the carries and one another.           *)
Audit == INSTANCE CommitmentAudit
           WITH status <- [k \in Commitments |-> com[k].status]

AuditTrail == Audit!AuditSpec

(* carryCommitment's TOCTOU guard: no transition that core or the write    *)
(* path has let through is left to the FSM trigger to refuse, which would  *)
(* take the whole revise or apply down with it.                            *)
FsmBackstopNeverFires == "fsm" \notin backstop

(* carryOrResolvePredecessorCommitment, branch 2: a carry never lands on a *)
(* memory that has a commitment, live or terminal, so no supersede fails   *)
(* on commitments_memory_idx.                                              *)
CarryNeverCollides == "unique" \notin backstop

(* Neither kind of refusal takes a revise or an apply down with it.        *)
NoWriteIsRefused == FsmBackstopNeverFires /\ CarryNeverCollides

(* createCommitment's FOR SHARE and the carries: the only way to a live    *)
(* obligation on a closed memory, where the briefing does not look, is     *)
(* that somebody reopened it there.                                        *)
NoSilentStrand ==
  \A k \in Commitments :
    LiveStatus(k) /\ mem[com[k].memory].closed => k \in reopened

(* assertNoEpisodicEndpoint locks both ends: however revises and applies   *)
(* interleave, from every closed memory some chain of heirs leads to one   *)
(* that is not closed.                                                     *)
EveryChainHasAHead ==
  \A K \in SUBSET {m \in Memories : mem[m].closed} :
    K # {} => \E m \in K : ~(mem[m].heirs \subseteq K)

(* A memory is closed once: its close and its one edge are one transaction *)
(* that nobody else's can overlap.                                         *)
OneHeir ==
  \A m \in Memories :
    IF mem[m].closed THEN \E s \in Memories : mem[m].heirs = {s}
    ELSE mem[m].heirs = {}

(* archiveMemoryIn under the disposition policy: an unresolve cannot       *)
(* reopen the obligation between judgeArchive's locked read and the write  *)
(* that archives its memory.                                               *)
ArchiveSpares(c) ==
  LET m == tx[c].mem
  IN  /\ tx[c].policy = "disposition"
      /\ m # NULL
      /\ mem'[m] # mem[m] /\ mem'[m].archived
      => \A k \in Riders(m) : ~LiveStatus(k)

ArchiveSparesLiveObligation ==
  [][\A c \in Clients : ArchiveSpares(c)]_vars
=============================================================================
