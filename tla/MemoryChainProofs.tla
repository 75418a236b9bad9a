------------------------- MODULE MemoryChainProofs -------------------------
(***************************************************************************)
(* Theorems about MemoryChain.                                             *)
(*                                                                         *)
(* The inductive invariant IInv ties what a transaction has read to the    *)
(* lock that keeps it true: LocksExclude says that no two clients hold     *)
(* locks that conflict, TxOK says for each program counter which rows are  *)
(* held and what is known of them.  A step of one client is summed up by   *)
(* Effect, what it leaves alone for everybody else; that the others'       *)
(* TxOK survives any such step is proved once (Bystanders).                *)
(***************************************************************************)
EXTENDS MemoryChain, TLAPS

Rows == Memories \cup Commitments

(* No two clients hold locks that conflict.                                *)
LocksExclude ==
  \A c, d \in Clients : c # d =>
    \A x \in Rows, a, b \in Modes :
      <<x, a>> \in held[c] /\ <<x, b>> \in held[d] => ~Conflict(a, b)

Writes(c, x) == <<x, "nokeyupdate">> \in held[c] \/ <<x, "update">> \in held[c]

Pins(c, x) == <<x, "share">> \in held[c] \/ Writes(c, x)

(* The successor c is about to insert.                                     *)
Reserves(c, m) == tx[c].heir = m /\ ~mem[m].born

Closers == {"finish", "promote", "move", "resolve"}

QuietOK(c) ==
  /\ tx[c].pc \in {"idle", "reread"} => held[c] = {}
  /\ tx[c].pc \notin Closers => tx[c].heir = NULL
  /\ tx[c].policy = "disposition" => tx[c].pc \in {"judge", "archive"}

CreateOK(c) ==
  tx[c].pc = "insert" =>
    /\ tx[c].mem \in Memories
    /\ <<tx[c].mem, "share">> \in held[c]
    /\ mem[tx[c].mem].born /\ ~mem[tx[c].mem].closed

TransitionOK(c) ==
  /\ tx[c].pc \in {"begin", "update", "event", "reread"} =>
       tx[c].com \in Commitments /\ com[tx[c].com].status # "none"
  /\ tx[c].pc \in {"begin", "update"} => canTransition(tx[c].from, tx[c].to)
  /\ tx[c].pc = "reread" => tx[c].tries < MAX_TRANSITION_ATTEMPTS
  /\ tx[c].pc = "event" =>
       /\ <<tx[c].com, "nokeyupdate">> \in held[c]
       /\ canTransition(com[tx[c].com].status, tx[c].to)

SweepOK(c) ==
  tx[c].pc = "sweep" => \A k \in Swept(c) : LiveStatus(k)

CloserOK(c) ==
  LET m == tx[c].mem
      s == tx[c].heir
  IN  tx[c].pc \in Closers =>
        /\ m \in Memories /\ s \in Memories /\ m # s
        /\ Writes(c, m) /\ mem[m].born /\ ~mem[m].closed
        /\ mem[s].born => <<s, "update">> \in held[c] /\ ~mem[s].closed
        /\ ~mem[s].born => \A d \in Clients \ {c} : tx[d].heir # s

CarryOK(c) ==
  LET m == tx[c].mem
      k == tx[c].com
  IN  /\ tx[c].pc = "finish" =>
           \A j \in Riders(m) : LiveStatus(j) => j \in reopened
      /\ tx[c].pc = "promote" => Riders(m) = {} /\ ~mem[tx[c].heir].born
      /\ tx[c].pc \in {"move", "resolve"} => k \in Riders(m)
      /\ tx[c].pc = "move" => Riders(tx[c].heir) = {}

ArchiveOK(c) ==
  LET m == tx[c].mem
  IN  /\ tx[c].pc \in {"judge", "archive"} =>
           m \in Memories /\ <<m, "update">> \in held[c] /\ mem[m].born
      /\ tx[c].pc = "archive" /\ tx[c].policy = "disposition" =>
           \A k \in Riders(m) : ~LiveStatus(k) /\ <<k, "share">> \in held[c]

TxOK(c) ==
  /\ QuietOK(c)
  /\ CreateOK(c)
  /\ TransitionOK(c)
  /\ SweepOK(c)
  /\ CloserOK(c)
  /\ CarryOK(c)
  /\ ArchiveOK(c)

(* A commitment there is rides a memory there is, alone; the events replay *)
(* to its status.                                                          *)
RidersOK ==
  \A k \in Commitments :
    /\ com[k].status = "none" => com[k].memory = NULL
    /\ com[k].status # "none" =>
         /\ com[k].memory \in Memories /\ mem[com[k].memory].born
         /\ \A j \in Commitments : com[j].memory = com[k].memory => j = k
    /\ trail[k] = com[k].status

ClosedIsBorn == \A m \in Memories : mem[m].closed => mem[m].born

Safe ==
  /\ FsmBackstopNeverFires
  /\ CarryNeverCollides
  /\ NoSilentStrand
  /\ EveryChainHasAHead
  /\ OneHeir

IInv ==
  /\ TypeOK
  /\ LocksExclude
  /\ \A c \in Clients : TxOK(c)
  /\ RidersOK
  /\ ClosedIsBorn
  /\ Safe

-----------------------------------------------------------------------------
(* What a step leaves alone for the clients of C, who do not take it.      *)
Effect(C) ==
  /\ \A c \in C : tx'[c] = tx[c] /\ held'[c] = held[c]
  /\ \A c \in C, m \in Memories :
       mem[m].born /\ Pins(c, m) => mem'[m] = mem[m]
  /\ \A c \in C, m \in Memories :
       Reserves(c, m) => ~mem'[m].born
  /\ \A c \in C, m \in Memories :
       (mem[m].born /\ Writes(c, m)) \/ Reserves(c, m) => Riders(m)' = Riders(m)
  /\ \A c \in C, k \in Commitments :
       com[k].status # "none" /\ Pins(c, k) => com'[k].status = com[k].status
  /\ \A k \in Commitments : com[k].status # "none" => com'[k].status # "none"
  /\ \A c \in C, k \in Commitments :
       tx[c].pc \in Closers /\ com[k].memory = tx[c].mem
         => (LiveStatus(k)' => LiveStatus(k) \/ k \in reopened')
  /\ reopened \subseteq reopened'
  /\ \A c \in C, d \in Clients, m \in Memories :
       c # d /\ Reserves(c, m) /\ tx'[d].heir = m => tx[d].heir = m

(* The modes exclude one another as the proofs below need it.              *)
LEMMA Exclusive ==
  ASSUME LocksExclude, NEW c \in Clients, NEW d \in Clients, c # d,
         NEW x \in Rows, Writes(d, x)
  PROVE  ~Pins(c, x)
  BY DEF LocksExclude, Writes, Pins, Modes, Conflict

(* A lock for writing is granted on what nobody else pins.                 *)
LEMMA GrantedUnpinned ==
  ASSUME NEW c \in Clients, NEW d \in Clients, c # d, NEW x,
         NEW a \in {"nokeyupdate", "update"}, Grantable(d, x, a)
  PROVE  ~Pins(c, x)
  BY DEF Grantable, Obstructs, Writes, Pins, Modes, Conflict

(* What a statement acquires conflicts with nobody else's locks.           *)
LEMMA AcquireExcludes ==
  ASSUME LocksExclude, held \in [Clients -> SUBSET (Rows \X Modes)],
         NEW c \in Clients, NEW locks \in SUBSET (Rows \X Modes),
         Acquire(c, locks)
  PROVE  /\ LocksExclude'
         /\ held' \in [Clients -> SUBSET (Rows \X Modes)]
         /\ held' = [held EXCEPT ![c] = held[c] \cup locks]
  <1>1. /\ held' = [held EXCEPT ![c] = held[c] \cup locks]
        /\ held' \in [Clients -> SUBSET (Rows \X Modes)]
    BY DEF Acquire
  <1>2. \A d \in Clients \ {c}, x \in Rows, a, b \in Modes :
          <<x, a>> \in locks /\ <<x, b>> \in held[d] => ~Conflict(b, a)
    BY DEF Acquire, Grantable, Obstructs
  <1>3. \A a, b \in Modes : Conflict(a, b) <=> Conflict(b, a)
    BY DEF Conflict
  <1>4. ASSUME NEW e \in Clients, NEW d \in Clients, e # d, NEW x \in Rows,
               NEW a \in Modes, NEW b \in Modes,
               <<x, a>> \in held'[e], <<x, b>> \in held'[d]
        PROVE  ~Conflict(a, b)
    <2>1. <<x, a>> \in held[e] \/ (e = c /\ <<x, a>> \in locks)
      BY <1>1, <1>4
    <2>2. <<x, b>> \in held[d] \/ (d = c /\ <<x, b>> \in locks)
      BY <1>1, <1>4
    <2> QED BY <2>1, <2>2, <1>2, <1>3, <1>4 DEF LocksExclude
  <1> QED BY <1>1, <1>4 DEF LocksExclude

(* Letting go conflicts with nobody.                                       *)
LEMMA ReleaseExcludes ==
  ASSUME LocksExclude, held \in [Clients -> SUBSET (Rows \X Modes)],
         NEW c \in Clients, held' = [held EXCEPT ![c] = {}]
  PROVE  /\ LocksExclude'
         /\ held' \in [Clients -> SUBSET (Rows \X Modes)]
  BY DEF LocksExclude

(* The statuses a commitment moves between are statuses.                   *)
LEMMA Transitions1 ==
  \A from, to : canTransition(from, to) =>
    from \in CommitmentStatus /\ to \in CommitmentStatus /\ to # "none"
  BY DEF canTransition, COMMITMENT_TRANSITIONS, CommitmentStatus

(* Everybody else's transaction survives such a step.                      *)
LEMMA Bystanders ==
  ASSUME IInv, NEW C \in SUBSET Clients, Effect(C), NEW c \in C
  PROVE  TxOK(c)'
  <1>1. /\ c \in Clients /\ tx'[c] = tx[c] /\ held'[c] = held[c] /\ TxOK(c)
        /\ TypeOK /\ RidersOK
    BY DEF Effect, IInv
  <1>2. /\ \A m \in Memories : mem[m].born /\ Pins(c, m) => mem'[m] = mem[m]
        /\ \A m \in Memories :
             mem[m].born /\ Writes(c, m) => Riders(m)' = Riders(m)
        /\ \A m \in Memories :
             Reserves(c, m) => Riders(m)' = Riders(m) /\ ~mem'[m].born
        /\ \A k \in Commitments :
             com[k].status # "none" /\ Pins(c, k) => com'[k].status = com[k].status
        /\ \A k \in Commitments : com[k].status # "none" => com'[k].status # "none"
    BY DEF Effect
  <1>3. QuietOK(c)'
    BY <1>1 DEF TxOK, QuietOK
  <1>4. CreateOK(c)'
    BY <1>1, <1>2 DEF TxOK, CreateOK, Pins
  <1>5. TransitionOK(c)'
    BY <1>1, <1>2 DEF TxOK, TransitionOK, Pins, Writes
  <1>6. SweepOK(c)'
    BY <1>1, <1>2
    DEF TxOK, SweepOK, Swept, LiveStatus, LIVE_COMMITMENT_STATES, Pins, Writes
  <1>7. CloserOK(c)'
    <2>1. ASSUME tx[c].pc \in Closers
          PROVE  mem'[tx[c].mem] = mem[tx[c].mem]
                 /\ (mem[tx[c].heir].born => mem'[tx[c].heir] = mem[tx[c].heir])
                 /\ (~mem[tx[c].heir].born => ~mem'[tx[c].heir].born)
      BY <1>1, <1>2, <2>1 DEF TxOK, CloserOK, Pins, Writes, Reserves
    <2>2. ASSUME tx[c].pc \in Closers, ~mem[tx[c].heir].born,
                 NEW d \in Clients \ {c}
          PROVE  tx'[d].heir # tx[c].heir
      BY <1>1, <2>2 DEF TxOK, CloserOK, Effect, Reserves
    <2> QED BY <1>1, <2>1, <2>2 DEF TxOK, CloserOK, Writes
  <1>8. CarryOK(c)'
    <2>1. ASSUME tx[c].pc \in Closers
          PROVE  /\ Riders(tx[c].mem)' = Riders(tx[c].mem)
                 /\ Riders(tx[c].heir)' = Riders(tx[c].heir)
                 /\ ~mem[tx[c].heir].born => ~mem'[tx[c].heir].born
      BY <1>1, <1>2, <2>1 DEF TxOK, CloserOK, Pins, Writes, Reserves, Riders
    <2>2. ASSUME tx[c].pc = "finish", NEW j \in Riders(tx[c].mem), LiveStatus(j)'
          PROVE  j \in reopened'
      <3>1. LiveStatus(j) \/ j \in reopened'
        BY <2>2 DEF Effect, Closers, Riders
      <3> QED BY <1>1, <2>2, <3>1 DEF Effect, TxOK, CarryOK
    <2>3. tx[c].pc \in {"finish", "promote", "move", "resolve"} => tx[c].pc \in Closers
      BY DEF Closers
    <2> QED BY <1>1, <2>1, <2>2, <2>3 DEF TxOK, CarryOK
  <1>9. ArchiveOK(c)'
    <2>1. ASSUME tx[c].pc \in {"judge", "archive"}
          PROVE  /\ Riders(tx[c].mem)' = Riders(tx[c].mem)
                 /\ mem'[tx[c].mem] = mem[tx[c].mem]
      BY <1>1, <1>2, <2>1 DEF TxOK, ArchiveOK, Pins, Writes
    <2>2. ASSUME tx[c].pc = "archive", tx[c].policy = "disposition",
                 NEW k \in Riders(tx[c].mem)
          PROVE  /\ LiveStatus(k)' = LiveStatus(k)
                 /\ ~LiveStatus(k) /\ <<k, "share">> \in held[c]
      <3>1. /\ ~LiveStatus(k) /\ <<k, "share">> \in held[c]
            /\ tx[c].mem \in Memories
        BY <1>1, <2>2 DEF TxOK, ArchiveOK
      <3>2. k \in Commitments /\ com[k].status # "none"
        BY <1>1, <3>1, ChainAssumption DEF Riders, RidersOK
      <3> QED BY <1>2, <3>1, <3>2 DEF Pins, LiveStatus
    <2> QED BY <1>1, <2>1, <2>2 DEF TxOK, ArchiveOK
  <1> QED BY <1>3, <1>4, <1>5, <1>6, <1>7, <1>8, <1>9 DEF TxOK

-----------------------------------------------------------------------------
(* What every step also does: the audit trail's step or a stutter, and no  *)
(* archive of a live obligation.                                           *)
Promised ==
  /\ [Audit!AuditNext]_(Audit!auditVars)
  /\ \A c \in Clients : ArchiveSpares(c)

(* A step of d, from what it does to the tables and leaves to the others.  *)
LEMMA StepOf ==
  ASSUME IInv, NEW d \in Clients, Effect(Clients \ {d}), TypeOK', LocksExclude',
         TxOK(d)', RidersOK', ClosedIsBorn', Safe'
  PROVE  IInv'
  <1>1. \A c \in Clients \ {d} : TxOK(c)'
    BY Bystanders
  <1> QED BY <1>1 DEF IInv

(* A step that writes nothing: it is enough to look at its own client.     *)
LEMMA ReadStep ==
  ASSUME IInv, NEW d \in Clients, UNCHANGED tables,
         NEW t \in TxStates, tx' = [tx EXCEPT ![d] = t],
         held' \in [Clients -> SUBSET (Rows \X Modes)],
         \A c \in Clients \ {d} : held'[c] = held[c],
         LocksExclude', TxOK(d)',
         t.heir = NULL \/ (t.heir \in Memories /\ (Fresh(t.heir) \/ mem[t.heir].born))
  PROVE  IInv' /\ Promised
  <1>1. TypeOK'
    BY DEF IInv, TypeOK, tables, Rows
  <1>2. \A c \in Clients \ {d} : tx'[c] = tx[c]
    BY DEF IInv, TypeOK
  <1>3. \A c \in Clients \ {d}, e \in Clients, m \in Memories :
          c # e /\ Reserves(c, m) /\ tx'[e].heir = m => tx[e].heir = m
    BY ChainAssumption DEF Reserves, Fresh, IInv, TypeOK
  <1>4. Effect(Clients \ {d})
    BY <1>2, <1>3 DEF Effect, tables, Riders, Reserves, LiveStatus
  <1>5. RidersOK' /\ ClosedIsBorn' /\ Safe'
    BY DEF IInv, RidersOK, ClosedIsBorn, Safe, tables, FsmBackstopNeverFires,
       CarryNeverCollides, NoSilentStrand, EveryChainHasAHead, OneHeir, LiveStatus
  <1>6. Promised
    BY DEF Promised, tables, Audit!auditVars, ArchiveSpares
  <1> QED BY <1>1, <1>4, <1>5, <1>6, StepOf

LEMMA IdleTyped == Idle \in TxStates
  BY ChainAssumption DEF Idle, TxStates, Kinds

(* A statement that only locks and reads.                                  *)
LEMMA LockStep ==
  ASSUME IInv, NEW d \in Clients, UNCHANGED tables,
         NEW t \in TxStates, Go(d, t),
         NEW locks \in SUBSET (Rows \X Modes), Acquire(d, locks),
         held' = [held EXCEPT ![d] = held[d] \cup locks] => TxOK(d)',
         t.heir = NULL \/ (t.heir \in Memories /\ (Fresh(t.heir) \/ mem[t.heir].born))
  PROVE  IInv' /\ Promised
  <1>1. LocksExclude /\ held \in [Clients -> SUBSET (Rows \X Modes)]
    BY DEF IInv, TypeOK, Rows
  <1>2. /\ LocksExclude'
        /\ held' \in [Clients -> SUBSET (Rows \X Modes)]
        /\ held' = [held EXCEPT ![d] = held[d] \cup locks]
    BY <1>1, AcquireExcludes
  <1>3. /\ \A c \in Clients \ {d} : held'[c] = held[c]
        /\ tx' = [tx EXCEPT ![d] = t]
    BY <1>1, <1>2 DEF Go
  <1> QED BY <1>2, <1>3, ReadStep

(* A read outside of a transaction.                                        *)
LEMMA LookStep ==
  ASSUME IInv, NEW d \in Clients, UNCHANGED tables,
         NEW t \in TxStates, Go(d, t), t.heir = NULL,
         held' = held, TxOK(d)'
  PROVE  IInv' /\ Promised
  <1>1. /\ LocksExclude /\ held \in [Clients -> SUBSET (Rows \X Modes)]
    BY DEF IInv, TypeOK, Rows
  <1>2. LocksExclude'
    BY <1>1 DEF LocksExclude
  <1> QED BY <1>1, <1>2, ReadStep DEF Go

(* An idle client owes nothing.                                            *)
LEMMA IdleOK ==
  ASSUME NEW d \in Clients, TypeOK, End(d)
  PROVE  TxOK(d)'
  <1>1. tx'[d] = Idle /\ held'[d] = {}
    BY DEF TypeOK, End, Go
  <1> QED
    BY <1>1 DEF TxOK, QuietOK, CreateOK, TransitionOK, SweepOK, CloserOK, CarryOK,
                ArchiveOK, Idle, Closers

(* A transaction that ends without having written.                         *)
LEMMA EndStep ==
  ASSUME IInv, NEW d \in Clients, UNCHANGED tables, End(d)
  PROVE  IInv' /\ Promised
  <1>1. /\ LocksExclude /\ held \in [Clients -> SUBSET (Rows \X Modes)] /\ TypeOK
    BY DEF IInv, TypeOK, Rows
  <1>2. /\ held' = [held EXCEPT ![d] = {}]
        /\ tx' = [tx EXCEPT ![d] = Idle]
    BY DEF End, Go
  <1>3. LocksExclude' /\ held' \in [Clients -> SUBSET (Rows \X Modes)]
    BY <1>1, <1>2, ReleaseExcludes
  <1>4. \A c \in Clients \ {d} : held'[c] = held[c]
    BY <1>1, <1>2
  <1>5. TxOK(d)' /\ Idle.heir = NULL
    BY <1>1, IdleOK DEF Idle
  <1> QED BY <1>2, <1>3, <1>4, <1>5, IdleTyped, ReadStep

LEMMA StepCreateCheck ==
  ASSUME IInv, NEW c \in Clients, NEW m \in Memories, CreateCheck(c, m)
  PROVE  IInv' /\ Promised
  <1> DEFINE t == [Idle EXCEPT !.pc = "insert", !.mem = m]
  <1>1. /\ UNCHANGED tables /\ Go(c, t) /\ t.heir = NULL
        /\ Acquire(c, parentLock(m))
    BY DEF CreateCheck, Idle
  <1>2. t \in TxStates
    BY IdleTyped DEF TxStates
  <1>3. parentLock(m) \in SUBSET (Rows \X Modes)
    BY DEF parentLock, Rows, Modes
  <1>4. ASSUME held' = [held EXCEPT ![c] = held[c] \cup parentLock(m)]
        PROVE  TxOK(c)'
    <2>1. tx'[c] = t /\ <<m, "share">> \in held'[c]
      BY <1>1, <1>4 DEF IInv, TypeOK, Go, parentLock
    <2>2. mem'[m].born /\ ~mem'[m].closed
      BY DEF CreateCheck, tables
    <2> QED
      BY <2>1, <2>2 DEF TxOK, QuietOK, CreateOK, TransitionOK, SweepOK, CloserOK,
                        CarryOK, ArchiveOK, Idle, Closers
  <1> QED BY <1>1, <1>2, <1>3, <1>4, LockStep

LEMMA StepRead ==
  ASSUME IInv, NEW c \in Clients, NEW k \in Commitments, NEW to,
         canTransition(com[k].status, to),
         NEW t \in TxStates, Go(c, t), t.pc = "begin", t.com = k,
         t.from = com[k].status, t.to = to, t.heir = NULL, t.policy = "generic",
         UNCHANGED tables, held' = held
  PROVE  IInv' /\ Promised
  <1>1. com[k].status # "none"
    BY DEF canTransition, COMMITMENT_TRANSITIONS, CommitmentStatus
  <1>2. tx'[c] = t /\ com' = com
    BY DEF IInv, TypeOK, Go, tables
  <1>3. TxOK(c)'
    BY <1>1, <1>2 DEF TxOK, QuietOK, CreateOK, TransitionOK, SweepOK, CloserOK,
                      CarryOK, ArchiveOK, Closers
  <1> QED BY <1>3, LookStep

LEMMA StepTransitionRead ==
  ASSUME IInv, NEW c \in Clients, NEW k \in Commitments, NEW to,
         TransitionRead(c, k, to)
  PROVE  IInv' /\ Promised
  <1> DEFINE t == [Idle EXCEPT !.pc = "begin", !.com = k, !.from = com[k].status,
                               !.to = to, !.tries = 1]
  <1>1. /\ canTransition(com[k].status, to) /\ Go(c, t)
        /\ UNCHANGED tables /\ held' = held
    BY DEF TransitionRead
  <1>2. /\ com[k].status \in CommitmentStatus /\ to \in CommitmentStatus
        /\ 1 \in 0..MAX_TRANSITION_ATTEMPTS
    BY <1>1, Transitions1, ChainAssumption
  <1>3. t \in TxStates
    BY <1>2, IdleTyped DEF TxStates
  <1>4. /\ t.pc = "begin" /\ t.com = k /\ t.from = com[k].status /\ t.to = to
        /\ t.heir = NULL /\ t.policy = "generic"
    BY DEF Idle
  <1> HIDE DEF t
  <1> QED BY <1>1, <1>3, <1>4, StepRead

LEMMA StepStampedRead ==
  ASSUME IInv, NEW c \in Clients, NEW k \in Commitments, StampedRead(c, k)
  PROVE  IInv' /\ Promised
  <1> DEFINE to == "resolved"
             t == [Idle EXCEPT !.pc = "begin", !.com = k, !.from = com[k].status,
                               !.to = to, !.tries = 1, !.stamped = TRUE]
  <1>1. /\ canTransition(com[k].status, to) /\ Go(c, t)
        /\ UNCHANGED tables /\ held' = held
    BY DEF StampedRead
  <1>2. /\ com[k].status \in CommitmentStatus /\ to \in CommitmentStatus
        /\ 1 \in 0..MAX_TRANSITION_ATTEMPTS
    BY <1>1, Transitions1, ChainAssumption
  <1>3. t \in TxStates
    BY <1>2, IdleTyped DEF TxStates
  <1>4. /\ t.pc = "begin" /\ t.com = k /\ t.from = com[k].status /\ t.to = to
        /\ t.heir = NULL /\ t.policy = "generic"
    BY DEF Idle
  <1> HIDE DEF t, to
  <1> QED BY <1>1, <1>3, <1>4, StepRead

LEMMA StepTransitionMemory ==
  ASSUME IInv, NEW c \in Clients, TransitionMemory(c)
  PROVE  IInv' /\ Promised
  <1> DEFINE k == tx[c].com
             t == [tx[c] EXCEPT !.pc = "update", !.mem = com[k].memory]
             locks == IF tx[c].stamped THEN {<<k, "update">>} ELSE {}
  <1>1. /\ TxOK(c) /\ TypeOK
        /\ tx[c].pc = "begin" /\ tx[c] \in TxStates
        /\ UNCHANGED tables /\ Go(c, t) /\ Acquire(c, locks)
    BY DEF IInv, TypeOK, TransitionMemory
  <1>2. /\ k \in Commitments /\ com[k].status # "none"
        /\ canTransition(tx[c].from, tx[c].to)
        /\ tx[c].heir = NULL /\ tx[c].policy # "disposition"
    BY <1>1 DEF TxOK, TransitionOK, QuietOK, Closers
  <1>3. t \in TxStates /\ t.heir = NULL
    <2>1. com[k].memory \in Memories \cup {NULL}
      BY <1>1, <1>2 DEF TypeOK, Commitment
    <2>2. t \in TxStates
      BY <1>1, <2>1 DEF TxStates
    <2> QED BY <1>1, <1>2, <2>2 DEF TxStates
  <1>4. locks \in SUBSET (Rows \X Modes)
    BY <1>2 DEF Rows, Modes
  <1>5. TxOK(c)'
    <2>1. /\ tx'[c] = t /\ com' = com
          /\ t.pc = "update" /\ t.com = k /\ t.from = tx[c].from /\ t.to = tx[c].to
          /\ t.heir = NULL /\ t.policy = tx[c].policy
      BY <1>1, <1>2 DEF TypeOK, TxStates, Go, tables
    <2> QED
      BY <1>2, <2>1 DEF TxOK, QuietOK, CreateOK, TransitionOK, SweepOK, CloserOK,
                        CarryOK, ArchiveOK, Closers
  <1> HIDE DEF t, locks
  <1> QED BY <1>1, <1>3, <1>4, <1>5, LockStep

LEMMA StepTransitionUpdate ==
  ASSUME IInv, NEW c \in Clients, TransitionUpdate(c)
  PROVE  IInv' /\ Promised
  <1> DEFINE k == tx[c].com
             t == [tx[c] EXCEPT !.pc = "event"]
             locks == {<<k, "nokeyupdate">>}
  <1>1. /\ TxOK(c) /\ TypeOK
        /\ tx[c].pc = "update" /\ tx[c] \in TxStates
    BY DEF IInv, TypeOK, TransitionUpdate
  <1>2. /\ k \in Commitments /\ com[k].status # "none"
        /\ canTransition(tx[c].from, tx[c].to)
        /\ tx[c].heir = NULL /\ tx[c].policy # "disposition"
    BY <1>1 DEF TxOK, TransitionOK, QuietOK, Closers
  <1>3. canTransition(com[k].status, tx[c].to)
    BY <1>2 DEF TransitionUpdate, matchesExpected
  <1>4. UNCHANGED tables /\ Go(c, t) /\ Acquire(c, locks)
    BY <1>3 DEF TransitionUpdate, TriggerAdmits, tables
  <1>5. t \in TxStates /\ t.heir = NULL
    BY <1>1, <1>2 DEF TxStates
  <1>6. locks \in SUBSET (Rows \X Modes)
    BY <1>2 DEF Rows, Modes
  <1>7. ASSUME held' = [held EXCEPT ![c] = held[c] \cup locks]
        PROVE  TxOK(c)'
    <2>1. /\ tx'[c] = t /\ com' = com /\ <<k, "nokeyupdate">> \in held'[c]
          /\ t.pc = "event" /\ t.com = k /\ t.to = tx[c].to
          /\ t.heir = NULL /\ t.policy = tx[c].policy
      BY <1>1, <1>2, <1>4, <1>7 DEF TypeOK, TxStates, Go, tables
    <2> QED
      BY <1>2, <1>3, <2>1 DEF TxOK, QuietOK, CreateOK, TransitionOK, SweepOK,
                              CloserOK, CarryOK, ArchiveOK, Closers
  <1> HIDE DEF t, locks
  <1> QED BY <1>4, <1>5, <1>6, <1>7, LockStep

LEMMA StepTransitionLost ==
  ASSUME IInv, NEW c \in Clients, TransitionLost(c)
  PROVE  IInv' /\ Promised
  <1> DEFINE t == [tx[c] EXCEPT !.pc = "reread"]
  <1>1. /\ TxOK(c) /\ TypeOK /\ UNCHANGED tables
        /\ tx[c].pc = "update" /\ tx[c] \in TxStates
        /\ LocksExclude /\ held \in [Clients -> SUBSET (Rows \X Modes)]
        /\ held' = [held EXCEPT ![c] = {}]
    BY DEF IInv, TypeOK, TransitionLost, Rows
  <1>2. CASE Go(c, Idle)
    BY <1>1, <1>2, EndStep DEF End
  <1>3. CASE ~lastAttempt(tx[c].tries) /\ Go(c, t)
    <2>1. /\ tx[c].com \in Commitments /\ com[tx[c].com].status # "none"
          /\ tx[c].heir = NULL /\ tx[c].policy # "disposition"
      BY <1>1 DEF TxOK, TransitionOK, QuietOK, Closers
    <2>2. tx[c].tries < MAX_TRANSITION_ATTEMPTS
      BY <1>1, <1>3, ChainAssumption DEF lastAttempt, TxStates
    <2>3. t \in TxStates /\ t.heir = NULL
      BY <1>1, <2>1 DEF TxStates
    <2>4. TxOK(c)'
      <3>1. /\ tx'[c] = t /\ com' = com /\ held'[c] = {}
            /\ t.pc = "reread" /\ t.com = tx[c].com /\ t.tries = tx[c].tries
            /\ t.heir = NULL /\ t.policy = tx[c].policy
        BY <1>1, <1>3, <2>1 DEF TypeOK, TxStates, Go, tables
      <3> QED
        BY <2>1, <2>2, <3>1 DEF TxOK, QuietOK, CreateOK, TransitionOK, SweepOK,
                                CloserOK, CarryOK, ArchiveOK, Closers
    <2>5. LocksExclude' /\ held' \in [Clients -> SUBSET (Rows \X Modes)]
      BY <1>1, ReleaseExcludes
    <2>6. \A d \in Clients \ {c} : held'[d] = held[d]
      BY <1>1
    <2> HIDE DEF t
    <2> QED BY <1>1, <1>3, <2>3, <2>4, <2>5, <2>6, ReadStep DEF Go
  <1> QED BY <1>2, <1>3 DEF TransitionLost

LEMMA StepTransitionReread ==
  ASSUME IInv, NEW c \in Clients, TransitionReread(c)
  PROVE  IInv' /\ Promised
  <1> DEFINE k == tx[c].com
             t == [tx[c] EXCEPT !.pc = "begin", !.from = com[k].status,
                                !.tries = tx[c].tries + 1]
  <1>1. /\ TxOK(c) /\ TypeOK /\ UNCHANGED tables /\ held' = held
        /\ tx[c].pc = "reread" /\ tx[c] \in TxStates
    BY DEF IInv, TypeOK, TransitionReread
  <1>2. /\ k \in Commitments /\ com[k].status # "none"
        /\ tx[c].tries < MAX_TRANSITION_ATTEMPTS
        /\ tx[c].heir = NULL /\ tx[c].policy # "disposition"
    BY <1>1 DEF TxOK, TransitionOK, QuietOK, Closers
  <1>3. CASE canTransition(com[k].status, tx[c].to) /\ Go(c, t)
    <2>1. tx[c].tries + 1 \in 0..MAX_TRANSITION_ATTEMPTS
      BY <1>1, <1>2, ChainAssumption DEF TxStates
    <2>2. com[k].status \in CommitmentStatus
      BY <1>3 DEF canTransition
    <2>3. t \in TxStates
      BY <1>1, <2>1, <2>2 DEF TxStates
    <2>4. /\ t.pc = "begin" /\ t.com = k /\ t.from = com[k].status /\ t.to = tx[c].to
          /\ t.heir = NULL /\ t.policy = tx[c].policy
      BY <1>1, <1>2 DEF TxStates
    <2>5. TxOK(c)'
      <3>1. tx'[c] = t /\ com' = com
        BY <1>1, <1>3 DEF TypeOK, Go, tables
      <3> HIDE DEF t
      <3> QED
        BY <1>2, <1>3, <2>4, <3>1 DEF TxOK, QuietOK, CreateOK, TransitionOK, SweepOK,
                                CloserOK, CarryOK, ArchiveOK, Closers
    <2> HIDE DEF t
    <2> QED BY <1>1, <1>3, <2>3, <2>4, <2>5, LookStep
  <1>4. CASE Go(c, Idle)
    <2>1. held' = [held EXCEPT ![c] = {}]
      BY <1>1 DEF TxOK, QuietOK, TypeOK
    <2> QED BY <1>1, <1>4, <2>1, EndStep DEF End
  <1> QED BY <1>1, <1>3, <1>4 DEF TransitionReread

LEMMA StepSweepExpire ==
  ASSUME IInv, NEW c \in Clients, NEW k \in Commitments, SweepExpire(c, k)
  PROVE  IInv' /\ Promised
  <1> DEFINE t == [Idle EXCEPT !.pc = "sweep"]
             locks == {<<k, "nokeyupdate">>}
  <1>1. /\ TxOK(c) /\ TypeOK /\ UNCHANGED tables /\ Go(c, t) /\ Acquire(c, locks)
        /\ tx[c].pc \in {"idle", "sweep"} /\ LiveStatus(k)
    BY DEF IInv, SweepExpire
  <1>2. t \in TxStates /\ t.pc = "sweep" /\ t.heir = NULL /\ t.policy = "generic"
    <2>1. t \in TxStates
      BY IdleTyped DEF TxStates
    <2> QED BY <2>1 DEF Idle
  <1>3. locks \in SUBSET (Rows \X Modes)
    BY DEF Rows, Modes
  <1>4. \A j \in Swept(c) : LiveStatus(j)
    BY <1>1 DEF TxOK, QuietOK, SweepOK, Swept
  <1>5. ASSUME held' = [held EXCEPT ![c] = held[c] \cup locks]
        PROVE  TxOK(c)'
    <2>1. tx'[c] = t /\ com' = com
      BY <1>1 DEF TypeOK, Go, tables
    <2>2. \A j \in Swept(c)' : LiveStatus(j)'
      BY <1>1, <1>4, <1>5, <2>1 DEF Swept, LiveStatus, TypeOK
    <2> HIDE DEF t
    <2> QED
      BY <1>2, <2>1, <2>2 DEF TxOK, QuietOK, CreateOK, TransitionOK, SweepOK,
                              CloserOK, CarryOK, ArchiveOK, Closers
  <1> HIDE DEF t, locks
  <1> QED BY <1>1, <1>2, <1>3, <1>5, LockStep

(* Superseding: what has to be known of the commitment, by the step taken. *)
LEMMA SupersedeStep ==
  ASSUME IInv, NEW c \in Clients, NEW m \in Memories, NEW s \in Memories, m # s,
         NEW kind \in Kinds, NEW k \in Commitments \cup {NULL}, NEW step \in Closers,
         UNCHANGED tables, Supersede(c, m, s, kind, k, step),
         NEW locks \in SUBSET (Rows \X Modes), Acquire(c, locks),
         <<m, "nokeyupdate">> \in locks \/ <<m, "update">> \in locks,
         mem[m].born, ~mem[m].closed,
         \/ Fresh(s)
         \/ mem[s].born /\ ~mem[s].closed /\ <<s, "update">> \in locks,
         step = "finish" => \A j \in Riders(m) : ~LiveStatus(j),
         step = "promote" => Riders(m) = {} /\ Fresh(s),
         step \in {"move", "resolve"} => k \in Riders(m),
         step = "move" => Riders(s) = {}
  PROVE  IInv' /\ Promised
  <1> DEFINE t == [Idle EXCEPT !.pc = step, !.mem = m, !.heir = s, !.kind = kind,
                               !.com = k]
  <1>1. /\ t \in TxStates
        /\ t.pc = step /\ t.mem = m /\ t.heir = s /\ t.com = k
        /\ t.policy = "generic"
    <2>1. t \in TxStates
      BY IdleTyped DEF TxStates, Closers
    <2>2. /\ t.pc = step /\ t.mem = m /\ t.heir = s /\ t.com = k
          /\ t.policy = "generic"
      BY DEF Idle
    <2> QED BY <2>1, <2>2
  <1>2. Go(c, t) /\ TypeOK
    BY DEF Supersede, IInv
  <1>3. ASSUME held' = [held EXCEPT ![c] = held[c] \cup locks]
        PROVE  TxOK(c)'
    <2>1. /\ tx'[c] = t /\ com' = com /\ mem' = mem /\ reopened' = reopened
          /\ locks \subseteq held'[c]
          /\ \A d \in Clients \ {c} : tx'[d] = tx[d]
      BY <1>2, <1>3 DEF TypeOK, Go, tables
    <2> HIDE DEF t
    <2>2. /\ Riders(m)' = Riders(m) /\ Riders(s)' = Riders(s)
          /\ \A j : LiveStatus(j)' = LiveStatus(j)
      BY <2>1 DEF Riders, LiveStatus
    <2>3. CloserOK(c)'
      BY <1>1, <2>1 DEF CloserOK, Writes, Fresh
    <2>4. CarryOK(c)'
      BY <1>1, <2>1, <2>2 DEF CarryOK, Fresh, Riders, LiveStatus
    <2> QED
      BY <1>1, <2>1, <2>3, <2>4, ChainAssumption
      DEF TxOK, QuietOK, CreateOK, TransitionOK, SweepOK, ArchiveOK, Closers
  <1> HIDE DEF t
  <1> QED BY <1>1, <1>2, <1>3, LockStep

(* A memory has one rider at most, and none before it is born.             *)
LEMMA OnlyRider ==
  ASSUME RidersOK, NEW m \in Memories, NEW k \in Riders(m)
  PROVE  /\ k \in Commitments /\ com[k].status # "none"
         /\ \A j \in Riders(m) : j = k
  BY ChainAssumption DEF RidersOK, Riders

LEMMA UnbornHasNoRider ==
  ASSUME RidersOK, NEW m \in Memories, ~mem[m].born
  PROVE  Riders(m) = {}
  BY ChainAssumption DEF RidersOK, Riders

LEMMA StepReviseClose ==
  ASSUME IInv, NEW c \in Clients, NEW m \in Memories, NEW s \in Memories,
         NEW kind \in Kinds, ReviseClose(c, m, s, kind)
  PROVE  IInv' /\ Promised
  <1> DEFINE locks == {<<m, "nokeyupdate">>}
  <1>1. /\ UNCHANGED tables /\ Acquire(c, locks)
        /\ mem[m].born /\ ~mem[m].closed /\ Fresh(s) /\ m # s
    BY DEF ReviseClose, validNow
  <1>2. locks \in SUBSET (Rows \X Modes) /\ <<m, "nokeyupdate">> \in locks
    BY DEF Rows, Modes
  <1>3. CASE /\ Riders(m) = {}
             /\ Supersede(c, m, s, kind, NULL,
                          IF kind = "commitment" THEN "promote" ELSE "finish")
    <2> DEFINE step == IF kind = "commitment" THEN "promote" ELSE "finish"
    <2>1. step \in {"promote", "finish"} /\ step \in Closers
      BY DEF Closers
    <2> HIDE DEF step, locks
    <2> QED BY <1>1, <1>2, <1>3, <2>1, SupersedeStep DEF step
  <1>4. ASSUME NEW k \in Riders(m),
               Supersede(c, m, s, kind, k,
                         IF kind = "commitment" THEN "move"
                         ELSE IF LiveStatus(k) THEN "resolve" ELSE "finish")
        PROVE  IInv' /\ Promised
    <2> DEFINE step == IF kind = "commitment" THEN "move"
                       ELSE IF LiveStatus(k) THEN "resolve" ELSE "finish"
    <2>1. step \in {"move", "resolve", "finish"} /\ step \in Closers
      BY DEF Closers
    <2>2. k \in Commitments /\ \A j \in Riders(m) : j = k
      BY <1>4, OnlyRider DEF IInv
    <2>3. step = "finish" => \A j \in Riders(m) : ~LiveStatus(j)
      BY <2>2
    <2>4. Riders(s) = {}
      BY <1>1, UnbornHasNoRider DEF IInv, Fresh
    <2> HIDE DEF step, locks
    <2> QED BY <1>1, <1>2, <1>4, <2>1, <2>2, <2>3, <2>4, SupersedeStep DEF step
  <1> QED BY <1>1, <1>3, <1>4 DEF ReviseClose

LEMMA StepApplyLock ==
  ASSUME IInv, NEW c \in Clients, NEW m \in Memories, NEW s \in Memories,
         ApplyLock(c, m, s)
  PROVE  IInv' /\ Promised
  <1> DEFINE locks == EndLocks(m, s)
             kind == mem[s].kind
  <1>1. /\ UNCHANGED tables /\ Acquire(c, locks) /\ m # s
        /\ mem[m].born /\ ~mem[m].closed /\ mem[s].born /\ ~mem[s].closed
    BY DEF ApplyLock
  <1>2. /\ locks \in SUBSET (Rows \X Modes)
        /\ <<m, "update">> \in locks /\ <<s, "update">> \in locks
    BY DEF EndLocks, Rows, Modes
  <1>3. kind \in Kinds
    BY DEF IInv, TypeOK, Memory
  <1>4. CASE /\ \A k \in Riders(m) : ~LiveStatus(k)
             /\ Supersede(c, m, s, kind, NULL, "finish")
    <2> DEFINE step == "finish"
    <2>1. step \in Closers /\ step \notin {"promote", "move", "resolve"}
      BY DEF Closers
    <2>2. Supersede(c, m, s, kind, NULL, step)
      BY <1>4
    <2> HIDE DEF step, locks, kind
    <2> QED BY <1>1, <1>2, <1>3, <1>4, <2>1, <2>2, SupersedeStep
  <1>5. ASSUME NEW k \in Riders(m),
               Supersede(c, m, s, kind, k, IF movable(s) THEN "move" ELSE "resolve")
        PROVE  IInv' /\ Promised
    <2> DEFINE step == IF movable(s) THEN "move" ELSE "resolve"
    <2>1. step \in {"move", "resolve"} /\ step \in Closers
      BY DEF Closers
    <2>2. step = "move" => Riders(s) = {}
      BY DEF movable
    <2>3. k \in Commitments
      BY DEF Riders
    <2> HIDE DEF step, locks, kind
    <2> QED BY <1>1, <1>2, <1>3, <1>5, <2>1, <2>2, <2>3, SupersedeStep DEF step
  <1> QED BY <1>4, <1>5 DEF ApplyLock

LEMMA StepArchiveLock ==
  ASSUME IInv, NEW c \in Clients, NEW m \in Memories,
         NEW policy \in {"generic", "disposition"}, ArchiveLock(c, m, policy)
  PROVE  IInv' /\ Promised
  <1> DEFINE step == IF policy = "disposition" THEN "judge" ELSE "archive"
             t == [Idle EXCEPT !.pc = step, !.mem = m, !.policy = policy]
             locks == {<<m, "update">>}
  <1>1. /\ UNCHANGED tables /\ Acquire(c, locks) /\ Go(c, t) /\ mem[m].born
        /\ TypeOK
    BY DEF ArchiveLock, IInv
  <1>2. locks \in SUBSET (Rows \X Modes)
    BY DEF Rows, Modes
  <1>3. /\ t \in TxStates
        /\ t.pc = step /\ t.mem = m /\ t.heir = NULL /\ t.policy = policy
    <2>1. t \in TxStates
      BY IdleTyped DEF TxStates
    <2> QED BY <2>1 DEF Idle
  <1>4. ASSUME held' = [held EXCEPT ![c] = held[c] \cup locks]
        PROVE  TxOK(c)'
    <2>1. tx'[c] = t /\ mem' = mem /\ <<m, "update">> \in held'[c]
      BY <1>1, <1>4 DEF TypeOK, Go, tables
    <2> HIDE DEF t
    <2> QED
      BY <1>1, <1>3, <2>1 DEF TxOK, QuietOK, CreateOK, TransitionOK, SweepOK,
                              CloserOK, CarryOK, ArchiveOK, Closers
  <1> HIDE DEF t, locks
  <1> QED BY <1>1, <1>2, <1>3, <1>4, LockStep

LEMMA StepArchiveJudge ==
  ASSUME IInv, NEW c \in Clients, ArchiveJudge(c)
  PROVE  IInv' /\ Promised
  <1> DEFINE m == tx[c].mem
             t == [tx[c] EXCEPT !.pc = "archive"]
             locks == judgeLocks(m)
  <1>1. /\ TxOK(c) /\ TypeOK /\ UNCHANGED tables
        /\ tx[c].pc = "judge" /\ tx[c] \in TxStates
    BY DEF IInv, TypeOK, ArchiveJudge
  <1>2. /\ m \in Memories /\ <<m, "update">> \in held[c] /\ mem[m].born
        /\ tx[c].heir = NULL
    BY <1>1 DEF TxOK, ArchiveOK, QuietOK, Closers
  <1>3. CASE End(c)
    BY <1>1, <1>3, EndStep
  <1>4. CASE /\ ~ \E k \in Riders(m) : LiveStatus(k)
             /\ Acquire(c, locks) /\ Go(c, t)
    <2>1. locks \in SUBSET (Rows \X Modes)
      BY DEF judgeLocks, Riders, Rows, Modes
    <2>2. /\ t \in TxStates
          /\ t.pc = "archive" /\ t.mem = m /\ t.heir = NULL
          /\ t.policy = tx[c].policy
      BY <1>1, <1>2 DEF TxStates
    <2>3. ASSUME held' = [held EXCEPT ![c] = held[c] \cup locks]
          PROVE  TxOK(c)'
      <3>1. /\ tx'[c] = t /\ mem' = mem /\ com' = com
            /\ <<m, "update">> \in held'[c] /\ locks \subseteq held'[c]
        BY <1>1, <1>2, <1>4, <2>3 DEF TypeOK, Go, tables
      <3>2. \A k \in Riders(m)' : ~LiveStatus(k)' /\ <<k, "share">> \in held'[c]
        BY <1>4, <3>1 DEF Riders, LiveStatus, judgeLocks
      <3> HIDE DEF t, locks
      <3>3. Riders(tx[c].mem)' = Riders(m)'
        BY <2>2, <3>1 DEF Riders
      <3> QED
        BY <1>2, <2>2, <3>1, <3>2, <3>3
        DEF TxOK, QuietOK, CreateOK, TransitionOK, SweepOK, CloserOK, CarryOK,
            ArchiveOK, Closers
    <2> HIDE DEF t, locks
    <2> QED BY <1>1, <1>4, <2>1, <2>2, <2>3, LockStep
  <1> QED BY <1>3, <1>4 DEF ArchiveJudge

-----------------------------------------------------------------------------
(* Steps that write.  What the end of a transaction does to the rest of    *)
(* the state is the same for all of them.                                  *)
LEMMA Ended ==
  ASSUME IInv, NEW d \in Clients, End(d)
  PROVE  /\ LocksExclude' /\ TxOK(d)'
         /\ held' \in [Clients -> SUBSET (Rows \X Modes)]
         /\ tx' \in [Clients -> TxStates]
         /\ \A c \in Clients \ {d} : tx'[c] = tx[c] /\ held'[c] = held[c]
         /\ \A c \in Clients \ {d}, e \in Clients, m \in Memories :
              c # e /\ Reserves(c, m) /\ tx'[e].heir = m => tx[e].heir = m
  <1>1. /\ LocksExclude /\ held \in [Clients -> SUBSET (Rows \X Modes)] /\ TypeOK
        /\ tx \in [Clients -> TxStates]
    BY DEF IInv, TypeOK, Rows
  <1>2. /\ held' = [held EXCEPT ![d] = {}]
        /\ tx' = [tx EXCEPT ![d] = Idle]
    BY DEF End, Go
  <1>3. LocksExclude' /\ held' \in [Clients -> SUBSET (Rows \X Modes)]
    BY <1>1, <1>2, ReleaseExcludes
  <1>4. TxOK(d)'
    BY <1>1, IdleOK
  <1>5. /\ tx' \in [Clients -> TxStates]
        /\ \A c \in Clients \ {d} : tx'[c] = tx[c] /\ held'[c] = held[c]
        /\ tx'[d] = Idle
    BY <1>1, <1>2, IdleTyped
  <1>6. Idle.heir \notin Memories
    BY ChainAssumption DEF Idle
  <1> QED BY <1>3, <1>4, <1>5, <1>6

(* Who pins a row that d writes is d.                                      *)
LEMMA NobodyElse ==
  ASSUME IInv, NEW c \in Clients, NEW d \in Clients, c # d,
         NEW x \in Rows, Writes(d, x)
  PROVE  ~Pins(c, x)
  BY Exclusive DEF IInv

(* CloseOld, from what CloserOK knows: the predecessor is closed, the      *)
(* successor there and valid, and nobody else was looking at either.       *)
LEMMA Closed ==
  ASSUME IInv, NEW d \in Clients, tx[d].pc \in Closers, CloseOld(d)
  PROVE  LET m == tx[d].mem
             s == tx[d].heir
         IN  /\ m \in Memories /\ s \in Memories /\ m # s
             /\ mem' \in [Memories -> Memory]
             /\ \A x \in Memories \ {m, s} : mem'[x] = mem[x]
             /\ mem'[m].born /\ mem'[m].closed /\ mem'[m].heirs = {s}
             /\ mem'[s].born /\ ~mem'[s].closed /\ mem'[s].heirs = {}
             /\ mem[s].born => mem'[s] = mem[s]
  <1> DEFINE m == tx[d].mem
             s == tx[d].heir
  <1>1. /\ m \in Memories /\ s \in Memories /\ m # s
        /\ mem[m].born /\ ~mem[m].closed /\ (mem[s].born => ~mem[s].closed)
    BY DEF IInv, TxOK, CloserOK
  <1>2. mem \in [Memories -> Memory] /\ tx[d].kind \in Kinds
    BY DEF IInv, TypeOK, TxStates
  <1>3. mem[m].heirs = {} /\ (mem[s].born => mem[s].heirs = {})
    BY <1>1 DEF IInv, Safe, OneHeir
  <1> DEFINE born == [Unborn EXCEPT !.born = TRUE, !.kind = tx[d].kind]
             heir == IF mem[s].born THEN mem[s] ELSE born
  <1>4. /\ born \in Memory
        /\ born.born /\ ~born.closed /\ born.heirs = {}
    BY <1>2 DEF Unborn, Memory, Kinds
  <1>5. heir \in Memory /\ heir.born /\ ~heir.closed /\ heir.heirs = {}
    BY <1>1, <1>2, <1>3, <1>4
  <1>6. mem' = [mem EXCEPT ![s] = heir, ![m].closed = TRUE,
                           ![m].heirs = mem[m].heirs \cup {s}]
    BY <1>1, <1>2 DEF CloseOld
  <1> HIDE DEF heir, born
  <1>7. /\ mem'[s] = heir
        /\ mem'[m] = [mem[m] EXCEPT !.closed = TRUE, !.heirs = mem[m].heirs \cup {s}]
        /\ \A x \in Memories \ {m, s} : mem'[x] = mem[x]
        /\ DOMAIN mem' = Memories /\ mem' = [x \in Memories |-> mem'[x]]
    BY <1>1, <1>2, <1>6
  <1>8. /\ mem'[m] \in Memory
        /\ mem'[m].born /\ mem'[m].closed /\ mem'[m].heirs = {s}
    <2> DEFINE r == mem[m]
               q == [r EXCEPT !.closed = TRUE, !.heirs = r.heirs \cup {s}]
    <2>1. r \in Memory /\ r.born /\ r.heirs = {} /\ r.heirs \cup {s} \in SUBSET Memories
      BY <1>1, <1>2, <1>3
    <2>2. mem'[m] = q
      BY <1>7
    <2> HIDE DEF r
    <2>3. q \in Memory
      BY <2>1 DEF Memory
    <2>4. q.born /\ q.closed /\ q.heirs = {s}
      BY <2>1 DEF Memory
    <2> QED BY <2>2, <2>3, <2>4
  <1>9. mem' \in [Memories -> Memory]
    BY <1>1, <1>2, <1>5, <1>7, <1>8
  <1> QED BY <1>1, <1>5, <1>7, <1>8, <1>9 DEF heir

LEMMA ClosedKeepsChains ==
  ASSUME IInv, NEW d \in Clients, tx[d].pc \in Closers, CloseOld(d)
  PROVE  EveryChainHasAHead' /\ OneHeir' /\ ClosedIsBorn'
  <1> DEFINE m == tx[d].mem
             s == tx[d].heir
  <1>1. /\ m \in Memories /\ s \in Memories /\ m # s
        /\ \A x \in Memories \ {m, s} : mem'[x] = mem[x]
        /\ mem'[m].born /\ mem'[m].closed /\ mem'[m].heirs = {s}
        /\ mem'[s].born /\ ~mem'[s].closed /\ mem'[s].heirs = {}
    BY Closed
  <1>2. EveryChainHasAHead /\ OneHeir /\ ClosedIsBorn
    BY DEF IInv, Safe
  <1> HIDE DEF m, s
  <1>3. ASSUME NEW K \in SUBSET {x \in Memories : mem'[x].closed}, K # {}
        PROVE  \E x \in K : ~(mem'[x].heirs \subseteq K)
    <2>1. s \notin K
      BY <1>1
    <2>2. CASE m \in K
      BY <1>1, <2>1, <2>2
    <2>3. CASE m \notin K
      <3>1. \A x \in K : x \in Memories /\ mem'[x] = mem[x]
        BY <1>1, <2>1, <2>3
      <3>2. K \in SUBSET {x \in Memories : mem[x].closed}
        BY <1>3, <3>1
      <3> QED BY <1>2, <1>3, <3>1, <3>2 DEF EveryChainHasAHead
    <2> QED BY <2>2, <2>3
  <1>4. OneHeir'
    BY <1>1, <1>2 DEF OneHeir
  <1>5. ClosedIsBorn'
    BY <1>1, <1>2 DEF ClosedIsBorn
  <1> QED BY <1>3, <1>4, <1>5 DEF EveryChainHasAHead

LEMMA ClosedUnseen ==
  ASSUME IInv, NEW d \in Clients, tx[d].pc \in Closers, CloseOld(d)
  PROVE  /\ \A c \in Clients \ {d}, x \in Memories :
              mem[x].born /\ Pins(c, x) => mem'[x] = mem[x]
         /\ \A c \in Clients \ {d}, x \in Memories :
              Reserves(c, x) => ~mem'[x].born
         /\ \A x \in Memories : mem[x].born => mem'[x].born
         /\ \A c \in Clients : ArchiveSpares(c)
  <1> DEFINE m == tx[d].mem
             s == tx[d].heir
  <1>1. /\ m \in Memories /\ s \in Memories /\ m # s
        /\ \A x \in Memories \ {m, s} : mem'[x] = mem[x]
        /\ mem'[m].born /\ mem'[s].born
        /\ mem[s].born => mem'[s] = mem[s]
    BY Closed
  <1>2. /\ Writes(d, m) /\ mem[m].born
        /\ ~mem[s].born => \A c \in Clients \ {d} : tx[c].heir # s
    BY DEF IInv, TxOK, CloserOK
  <1>3. \A c \in Clients \ {d} : ~Pins(c, m)
    BY <1>1, <1>2, NobodyElse DEF Rows
  <1>4. ASSUME NEW c \in Clients, tx[c].policy = "disposition"
        PROVE  /\ c # d /\ tx[c].mem \in Memories /\ mem[tx[c].mem].born
               /\ Pins(c, tx[c].mem)
    BY <1>4 DEF IInv, TxOK, QuietOK, ArchiveOK, Closers, Pins, Writes
  <1> HIDE DEF m, s
  <1>5. \A c \in Clients \ {d}, x \in Memories :
          mem[x].born /\ Pins(c, x) => mem'[x] = mem[x]
    BY <1>1, <1>2, <1>3
  <1>6. \A c \in Clients \ {d}, x \in Memories : Reserves(c, x) => ~mem'[x].born
    BY <1>1, <1>2 DEF Reserves
  <1>7. \A x \in Memories : mem[x].born => mem'[x].born
    BY <1>1
  <1>8. \A c \in Clients : ArchiveSpares(c)
    BY <1>4, <1>5 DEF ArchiveSpares
  <1> QED BY <1>5, <1>6, <1>7, <1>8

(* The predecessor closed, with no live obligation left to carry.           *)
LEMMA CloseStep ==
  ASSUME IInv, NEW c \in Clients, tx[c].pc \in Closers, CloseOld(c), End(c),
         UNCHANGED <<com, trail, reopened, backstop>>,
         \A j \in Riders(tx[c].mem) : LiveStatus(j) => j \in reopened
  PROVE  IInv' /\ Promised
  <1> DEFINE m == tx[c].mem
  <1>1. /\ tx[c].pc \in Closers /\ CloseOld(c) /\ End(c)
        /\ UNCHANGED <<com, trail, reopened, backstop>>
        /\ TypeOK /\ TxOK(c) /\ RidersOK /\ Safe
    BY DEF IInv
  <1>2. TypeOK'
    BY <1>1, Ended, Closed DEF TypeOK, Rows
  <1>3. Effect(Clients \ {c})
    BY <1>1, Ended, ClosedUnseen DEF Effect, Riders, LiveStatus
  <1>4. RidersOK'
    BY <1>1, ClosedUnseen DEF RidersOK
  <1>5. NoSilentStrand'
    <2>1. ASSUME NEW k \in Commitments, LiveStatus(k), mem'[com[k].memory].closed
          PROVE  k \in reopened
      <3>1. com[k].memory \in Memories
        BY <1>1, <2>1 DEF RidersOK, LiveStatus, LIVE_COMMITMENT_STATES
      <3>2. CASE com[k].memory = m
        BY <2>1, <3>2 DEF Riders
      <3>3. CASE com[k].memory # m
        <4>1. mem[com[k].memory].closed
          BY <1>1, <2>1, <3>1, <3>3, Closed
        <4> QED BY <1>1, <2>1, <4>1 DEF Safe, NoSilentStrand
      <3> QED BY <3>2, <3>3
    <2> QED BY <1>1, <2>1 DEF NoSilentStrand, LiveStatus
  <1>6. Safe'
    BY <1>1, <1>5, ClosedKeepsChains
    DEF Safe, FsmBackstopNeverFires, CarryNeverCollides
  <1>7. Promised
    BY <1>1, ClosedUnseen DEF Promised, Audit!auditVars
  <1> QED BY <1>1, <1>2, <1>3, <1>4, <1>6, <1>7, Ended, ClosedKeepsChains, StepOf

LEMMA StepCarryFinish ==
  ASSUME IInv, NEW c \in Clients, CarryFinish(c)
  PROVE  IInv' /\ Promised
  <1>1. /\ tx[c].pc = "finish" /\ tx[c].pc \in Closers /\ CloseOld(c) /\ End(c)
        /\ UNCHANGED <<com, trail, reopened, backstop>> /\ TxOK(c)
    BY DEF CarryFinish, Closers, IInv
  <1>2. \A j \in Riders(tx[c].mem) : LiveStatus(j) => j \in reopened
    BY <1>1 DEF TxOK, CarryOK
  <1> QED BY <1>1, <1>2, CloseStep

(* A new commitment, on a memory that is there and has none.               *)
LEMMA Begun ==
  ASSUME IInv, NEW k \in Commitments, NEW m \in Memories, NewCommitment(k, m),
         Riders(m) = {}, mem'[m].born,
         \A x \in Memories : mem[x].born => mem'[x].born
  PROVE  /\ com' \in [Commitments -> Commitment]
         /\ trail' \in [Commitments -> CommitmentStatus \cup {"none", "broken"}]
         /\ RidersOK'
         /\ com[k].status = "none"
         /\ com'[k].memory = m /\ com'[k].status = "open"
         /\ \A j \in Commitments \ {k} : com'[j] = com[j]
         /\ \A x \in Memories \ {m} : Riders(x)' = Riders(x)
         /\ Audit!Begin(k)
  <1>1. /\ com \in [Commitments -> Commitment] /\ RidersOK
        /\ trail \in [Commitments -> CommitmentStatus \cup {"none", "broken"}]
    BY DEF IInv, TypeOK
  <1>2. /\ com[k].status = "none"
        /\ com' = [com EXCEPT ![k] = [memory |-> m, status |-> "open"]]
        /\ trail' = [trail EXCEPT ![k] = "open"]
    BY DEF NewCommitment
  <1>3. com[k].memory = NULL /\ trail[k] = "none"
    BY <1>1, <1>2 DEF RidersOK
  <1>4. /\ com'[k].memory = m /\ com'[k].status = "open" /\ trail'[k] = "open"
        /\ \A j \in Commitments \ {k} : com'[j] = com[j] /\ trail'[j] = trail[j]
    BY <1>1, <1>2
  <1>5. /\ com' \in [Commitments -> Commitment]
        /\ trail' \in [Commitments -> CommitmentStatus \cup {"none", "broken"}]
    BY <1>1, <1>2 DEF Commitment, CommitmentStatus
  <1>6. \A j \in Commitments : com[j].memory # m
    BY DEF Riders
  <1>7. RidersOK'
    <2>1. ASSUME NEW j \in Commitments, com'[j].status = "none"
          PROVE  com'[j].memory = NULL
      BY <1>1, <1>4, <2>1 DEF RidersOK
    <2>2. ASSUME NEW j \in Commitments, com'[j].status # "none"
          PROVE  /\ com'[j].memory \in Memories /\ mem'[com'[j].memory].born
                 /\ \A i \in Commitments : com'[i].memory = com'[j].memory => i = j
      BY <1>1, <1>4, <1>6, <2>2 DEF RidersOK
    <2>3. \A j \in Commitments : trail'[j] = com'[j].status
      BY <1>1, <1>4 DEF RidersOK
    <2> QED BY <2>1, <2>2, <2>3 DEF RidersOK
  <1>8. \A x \in Memories \ {m} : Riders(x)' = Riders(x)
    BY <1>3, <1>4, ChainAssumption DEF Riders
  <1>9. Audit!Begin(k)
    <2>1. [j \in Commitments |-> com'[j].status]
            = [[j \in Commitments |-> com[j].status] EXCEPT ![k] = "open"]
      BY <1>4
    <2> QED BY <1>2, <2>1 DEF Audit!Begin
  <1> QED BY <1>2, <1>4, <1>5, <1>7, <1>8, <1>9

LEMMA StepCarryPromote ==
  ASSUME IInv, NEW c \in Clients, NEW k \in Commitments, CarryPromote(c, k)
  PROVE  IInv' /\ Promised
  <1> DEFINE m == tx[c].mem
             s == tx[c].heir
  <1>1. /\ tx[c].pc = "promote" /\ tx[c].pc \in Closers /\ CloseOld(c) /\ End(c)
        /\ NewCommitment(k, s) /\ UNCHANGED <<reopened, backstop>>
        /\ TypeOK /\ TxOK(c) /\ RidersOK /\ Safe
    BY DEF CarryPromote, Closers, IInv
  <1>2. /\ m \in Memories /\ s \in Memories /\ mem'[s].born /\ ~mem'[s].closed
        /\ \A x \in Memories \ {m} : mem'[x].closed => mem[x].closed
    BY <1>1, Closed
  <1>3. Riders(m) = {} /\ ~mem[s].born
    BY <1>1 DEF TxOK, CarryOK
  <1>4. Riders(s) = {}
    BY <1>1, <1>2, <1>3, UnbornHasNoRider
  <1>5. \A x \in Memories : mem[x].born => mem'[x].born
    BY <1>1, ClosedUnseen
  <1>6. /\ com' \in [Commitments -> Commitment]
        /\ trail' \in [Commitments -> CommitmentStatus \cup {"none", "broken"}]
        /\ RidersOK'
        /\ com[k].status = "none"
        /\ com'[k].memory = s /\ com'[k].status = "open"
        /\ \A j \in Commitments \ {k} : com'[j] = com[j]
        /\ \A x \in Memories \ {s} : Riders(x)' = Riders(x)
        /\ Audit!Begin(k)
    BY <1>1, <1>2, <1>4, <1>5, Begun
  <1>7. TypeOK'
    BY <1>1, <1>6, Ended, Closed DEF TypeOK, Rows
  <1>8. Effect(Clients \ {c})
    <2>1. ASSUME NEW d \in Clients \ {c}
          PROVE  ~Reserves(d, s)
      BY <1>1, <1>3 DEF TxOK, CloserOK, Reserves
    <2>2. \A d \in Clients \ {c}, x \in Memories :
            (mem[x].born /\ Writes(d, x)) \/ Reserves(d, x) => Riders(x)' = Riders(x)
      BY <1>3, <1>6, <2>1
    <2>3. /\ \A j \in Commitments : com[j].status # "none" => com'[j] = com[j]
          /\ reopened \subseteq reopened'
      BY <1>1, <1>6
    <2>4. \A d \in Clients \ {c}, j \in Commitments :
            tx[d].pc \in Closers /\ com[j].memory = tx[d].mem
              => (LiveStatus(j)' => LiveStatus(j) \/ j \in reopened')
      <3>1. ASSUME NEW d \in Clients \ {c}, tx[d].pc \in Closers
            PROVE  tx[d].mem \in Memories
        BY <3>1 DEF IInv, TxOK, CloserOK
      <3>2. com[k].memory = NULL
        BY <1>1, <1>6 DEF RidersOK
      <3> QED BY <1>6, <3>1, <3>2, ChainAssumption DEF LiveStatus
    <2> QED BY <1>1, <2>2, <2>3, <2>4, Ended, ClosedUnseen DEF Effect
  <1>9. NoSilentStrand'
    <2>1. ASSUME NEW j \in Commitments, LiveStatus(j)', mem'[com'[j].memory].closed
          PROVE  j \in reopened
      <3>1. j # k
        BY <1>2, <1>6, <2>1
      <3>2. com'[j] = com[j] /\ LiveStatus(j) /\ com[j].memory \in Memories
        BY <1>1, <1>6, <2>1, <3>1 DEF RidersOK, LiveStatus, LIVE_COMMITMENT_STATES
      <3>3. com[j].memory # m
        BY <1>3 DEF Riders
      <3> QED BY <1>1, <1>2, <2>1, <3>2, <3>3 DEF Safe, NoSilentStrand
    <2> QED BY <1>1, <2>1 DEF NoSilentStrand
  <1>10. Safe'
    BY <1>1, <1>9, ClosedKeepsChains
    DEF Safe, FsmBackstopNeverFires, CarryNeverCollides
  <1>11. Promised
    BY <1>1, <1>6, ClosedUnseen DEF Promised, Audit!AuditNext
  <1> QED BY <1>1, <1>6, <1>7, <1>8, <1>10, <1>11, Ended, ClosedKeepsChains, StepOf

LEMMA StepCarryMove ==
  ASSUME IInv, NEW c \in Clients, CarryMove(c)
  PROVE  IInv' /\ Promised
  <1> DEFINE m == tx[c].mem
             s == tx[c].heir
             k == tx[c].com
  <1>1. /\ tx[c].pc = "move" /\ tx[c].pc \in Closers /\ End(c)
        /\ UNCHANGED <<trail, reopened>>
        /\ TypeOK /\ TxOK(c) /\ RidersOK /\ Safe
    BY DEF CarryMove, Closers, IInv
  <1>2. k \in Riders(m) /\ Riders(s) = {}
    BY <1>1 DEF TxOK, CarryOK
  <1>3. /\ CloseOld(c) /\ UNCHANGED backstop
        /\ com' = [com EXCEPT ![k].memory = s]
    BY <1>2 DEF CarryMove
  <1>4. /\ m \in Memories /\ s \in Memories /\ m # s
        /\ mem'[s].born /\ ~mem'[s].closed
        /\ \A x \in Memories \ {m} : mem'[x].closed => mem[x].closed
    BY <1>1, <1>3, Closed
  <1>5. /\ Writes(c, m) /\ mem[m].born
        /\ mem[s].born => Writes(c, s)
        /\ ~mem[s].born => \A d \in Clients \ {c} : tx[d].heir # s
    BY <1>1 DEF TxOK, CloserOK, Writes
  <1>6. /\ k \in Commitments /\ com[k].memory = m
        /\ com'[k].memory = s /\ com'[k].status = com[k].status
        /\ \A j \in Commitments \ {k} : com'[j] = com[j]
        /\ com' \in [Commitments -> Commitment]
    BY <1>1, <1>2, <1>3, <1>4 DEF TypeOK, Riders, Commitment
  <1>7. \A x \in Memories : mem[x].born => mem'[x].born
    BY <1>1, <1>3, ClosedUnseen
  <1>8. \A j \in Commitments : com[j].memory # s
    BY <1>2 DEF Riders
  <1>9. RidersOK'
    <2>1. ASSUME NEW j \in Commitments, com'[j].status = "none"
          PROVE  com'[j].memory = NULL
      BY <1>1, <1>4, <1>6, <2>1, ChainAssumption DEF RidersOK
    <2>2. ASSUME NEW j \in Commitments, com'[j].status # "none"
          PROVE  /\ com'[j].memory \in Memories /\ mem'[com'[j].memory].born
                 /\ \A i \in Commitments : com'[i].memory = com'[j].memory => i = j
      BY <1>1, <1>4, <1>6, <1>7, <1>8, <2>2 DEF RidersOK
    <2>3. \A j \in Commitments : trail'[j] = com'[j].status
      BY <1>1, <1>6 DEF RidersOK
    <2> QED BY <2>1, <2>2, <2>3 DEF RidersOK
  <1>10. TypeOK'
    BY <1>1, <1>3, <1>6, Ended, Closed DEF TypeOK, Rows
  <1>11. Effect(Clients \ {c})
    <2>1. \A x \in Memories \ {m, s} : Riders(x)' = Riders(x)
      BY <1>6 DEF Riders
    <2>2. \A d \in Clients \ {c} : ~Pins(d, m) /\ (mem[s].born => ~Pins(d, s))
      BY <1>4, <1>5, NobodyElse DEF Rows
    <2>3. \A d \in Clients \ {c} : ~Reserves(d, m) /\ ~Reserves(d, s)
      BY <1>5 DEF Reserves
    <2>4. \A d \in Clients \ {c}, x \in Memories :
            (mem[x].born /\ Writes(d, x)) \/ Reserves(d, x) => Riders(x)' = Riders(x)
      BY <2>1, <2>2, <2>3 DEF Pins
    <2>5. \A j \in Commitments : com'[j].status = com[j].status
      BY <1>6
    <2> QED
      BY <1>1, <1>3, <2>4, <2>5, Ended, ClosedUnseen DEF Effect, LiveStatus
  <1>12. NoSilentStrand'
    <2>1. ASSUME NEW j \in Commitments, LiveStatus(j)', mem'[com'[j].memory].closed
          PROVE  j \in reopened
      <3>1. j # k
        BY <1>4, <1>6, <2>1
      <3>2. com'[j] = com[j] /\ LiveStatus(j) /\ com[j].memory \in Memories
        BY <1>1, <1>6, <2>1, <3>1 DEF RidersOK, LiveStatus, LIVE_COMMITMENT_STATES
      <3>3. com[j].memory # m
        BY <1>1, <1>2, <1>4, <3>1, OnlyRider DEF Riders
      <3> QED BY <1>1, <1>4, <2>1, <3>2, <3>3 DEF Safe, NoSilentStrand
    <2> QED BY <1>1, <2>1 DEF NoSilentStrand
  <1>13. Safe'
    BY <1>1, <1>3, <1>12, ClosedKeepsChains
    DEF Safe, FsmBackstopNeverFires, CarryNeverCollides
  <1>14. Promised
    <2>1. [j \in Commitments |-> com'[j].status] = [j \in Commitments |-> com[j].status]
      BY <1>6
    <2> QED BY <1>1, <1>3, <2>1, ClosedUnseen DEF Promised, Audit!auditVars
  <1> QED BY <1>1, <1>3, <1>9, <1>10, <1>11, <1>13, <1>14, Ended, ClosedKeepsChains,
             StepOf

(* Commitments moved along the machine, one event each.                    *)
LEMMA Moved ==
  ASSUME IInv, NEW K \in SUBSET Commitments, NEW to, SetStatus(K, to),
         \A k \in K : canTransition(com[k].status, to),
         \A x \in Memories : mem[x].born => mem'[x].born
  PROVE  /\ com' \in [Commitments -> Commitment]
         /\ trail' \in [Commitments -> CommitmentStatus \cup {"none", "broken"}]
         /\ RidersOK'
         /\ \A k \in K : com[k].status # "none" /\ com'[k].status = to
         /\ \A k \in Commitments : com'[k].memory = com[k].memory
         /\ \A k \in Commitments \ K : com'[k] = com[k]
         /\ \A k \in Commitments : com[k].status # "none" => com'[k].status # "none"
         /\ \A x \in Memories : Riders(x)' = Riders(x)
         /\ [Audit!AuditNext]_(Audit!auditVars)
  <1>1. /\ com \in [Commitments -> Commitment] /\ RidersOK
        /\ trail \in [Commitments -> CommitmentStatus \cup {"none", "broken"}]
    BY DEF IInv, TypeOK
  <1>2. \A k \in K : /\ com[k].status \in CommitmentStatus /\ to \in CommitmentStatus
                     /\ com[k].status # "none" /\ to # "none"
    BY Transitions1 DEF CommitmentStatus
  <1>3. \A k \in K : trail[k] = com[k].status
    BY <1>1 DEF RidersOK
  <1>4. /\ \A k \in K : /\ com'[k] = [com[k] EXCEPT !.status = to]
                        /\ trail'[k] = to
        /\ \A k \in Commitments \ K : com'[k] = com[k] /\ trail'[k] = trail[k]
        /\ com' = [k \in Commitments |-> com'[k]]
        /\ trail' = [k \in Commitments |-> trail'[k]]
    BY <1>3 DEF SetStatus, Replay
  <1>5. /\ \A k \in K : com'[k].status = to /\ com'[k] \in Commitment
        /\ \A k \in Commitments : com'[k].memory = com[k].memory
    <2>1. ASSUME NEW k \in K
          PROVE  /\ com'[k].status = to /\ com'[k] \in Commitment
                 /\ com'[k].memory = com[k].memory
      <3>1. com[k] \in Commitment /\ to \in CommitmentStatus
        BY <1>1, <1>2
      <3>2. com'[k] = [com[k] EXCEPT !.status = to]
        BY <1>4
      <3> QED BY <3>1, <3>2 DEF Commitment
    <2> QED BY <1>4, <2>1
  <1>6. /\ com' \in [Commitments -> Commitment]
        /\ trail' \in [Commitments -> CommitmentStatus \cup {"none", "broken"}]
    BY <1>1, <1>2, <1>4, <1>5
  <1>7. \A k \in Commitments : com[k].status # "none" <=> com'[k].status # "none"
    BY <1>2, <1>4, <1>5
  <1>8. RidersOK'
    <2>1. \A k \in Commitments : trail'[k] = com'[k].status
      BY <1>1, <1>4, <1>5 DEF RidersOK
    <2>2. ASSUME NEW k \in Commitments, com'[k].status # "none"
          PROVE  /\ com'[k].memory \in Memories /\ mem'[com'[k].memory].born
                 /\ \A j \in Commitments : com'[j].memory = com'[k].memory => j = k
      BY <1>1, <1>5, <1>7, <2>2 DEF RidersOK
    <2>3. \A k \in Commitments : com'[k].status = "none" => com'[k].memory = NULL
      BY <1>1, <1>5, <1>7 DEF RidersOK
    <2> QED BY <2>1, <2>2, <2>3 DEF RidersOK
  <1>9. \A x \in Memories : Riders(x)' = Riders(x)
    BY <1>5 DEF Riders
  <1>10. [Audit!AuditNext]_(Audit!auditVars)
    <2>1. CASE K = {}
      <3>1. /\ \A k \in Commitments : trail'[k] = trail[k] /\ com'[k] = com[k]
            /\ trail = [k \in Commitments |-> trail[k]]
        BY <1>1, <1>4, <2>1
      <3> QED BY <1>4, <3>1 DEF Audit!auditVars
    <2>2. CASE K # {}
      <3> DEFINE status == [k \in Commitments |-> com[k].status]
      <3>1. \A k \in K : Audit!canTransition(status[k], to)
        BY <1>2 DEF canTransition, COMMITMENT_TRANSITIONS, CommitmentStatus,
                    Audit!canTransition, Audit!COMMITMENT_TRANSITIONS,
                    Audit!CommitmentStatus
      <3>2. [k \in Commitments |-> com'[k].status]
              = [k \in Commitments |-> IF k \in K THEN to ELSE status[k]]
        BY <1>4, <1>5
      <3>3. trail' = [k \in Commitments |-> IF k \in K THEN to ELSE trail[k]]
        BY <1>4
      <3>4. Audit!Advance(K, to)
        BY <3>1, <3>2, <3>3 DEF Audit!Advance
      <3>5. to \in Audit!CommitmentStatus
        BY <1>2, <2>2 DEF CommitmentStatus, Audit!CommitmentStatus
      <3> QED BY <3>4, <3>5 DEF Audit!AuditNext
    <2> QED BY <2>1, <2>2
  <1> QED BY <1>2, <1>4, <1>5, <1>6, <1>7, <1>8, <1>9, <1>10

LEMMA StepCarryResolve ==
  ASSUME IInv, NEW c \in Clients, CarryResolve(c)
  PROVE  IInv' /\ Promised
  <1> DEFINE m == tx[c].mem
             k == tx[c].com
  <1>1. /\ tx[c].pc = "resolve" /\ tx[c].pc \in Closers /\ End(c)
        /\ UNCHANGED reopened
        /\ TypeOK /\ TxOK(c) /\ RidersOK /\ Safe
    BY DEF CarryResolve, Closers, IInv
  <1>2. k \in Riders(m) /\ m \in Memories
    BY <1>1 DEF TxOK, CarryOK, CloserOK
  <1>3. k \in Commitments /\ com[k].memory = m /\ \A j \in Riders(m) : j = k
    BY <1>1, <1>2, OnlyRider DEF Riders
  <1>4. LiveStatus(k) => canTransition(com[k].status, "resolved")
    BY DEF LiveStatus, LIVE_COMMITMENT_STATES, canTransition, CommitmentStatus,
           COMMITMENT_TRANSITIONS
  <1>5. CASE /\ ~LiveStatus(k) /\ CloseOld(c) /\ UNCHANGED <<com, trail, backstop>>
    BY <1>1, <1>3, <1>5, CloseStep
  <1>6. CASE /\ LiveStatus(k) /\ Grantable(c, k, "nokeyupdate")
             /\ SetStatus({k}, "resolved") /\ CloseOld(c) /\ UNCHANGED backstop
    <2> DEFINE K == {k}
    <2>1. /\ K \in SUBSET Commitments
          /\ \A j \in K : canTransition(com[j].status, "resolved")
      BY <1>3, <1>4, <1>6
    <2>2. \A x \in Memories : mem[x].born => mem'[x].born
      BY <1>1, <1>6, ClosedUnseen
    <2>3. /\ com' \in [Commitments -> Commitment]
          /\ trail' \in [Commitments -> CommitmentStatus \cup {"none", "broken"}]
          /\ RidersOK'
          /\ com'[k].status = "resolved"
          /\ \A j \in Commitments : com'[j].memory = com[j].memory
          /\ \A j \in Commitments \ K : com'[j] = com[j]
          /\ \A j \in Commitments : com[j].status # "none" => com'[j].status # "none"
          /\ \A x \in Memories : Riders(x)' = Riders(x)
          /\ [Audit!AuditNext]_(Audit!auditVars)
      BY <1>6, <2>1, <2>2, Moved
    <2>4. \A j \in Commitments : LiveStatus(j)' => LiveStatus(j) /\ j # k
      BY <2>3 DEF LiveStatus, LIVE_COMMITMENT_STATES
    <2>5. TypeOK'
      BY <1>1, <1>6, <2>3, Ended, Closed DEF TypeOK, Rows
    <2>6. \A d \in Clients \ {c} : ~Pins(d, k)
      BY <1>6, GrantedUnpinned
    <2>7. Effect(Clients \ {c})
      <3>1. \A d \in Clients \ {c}, j \in Commitments :
              com[j].status # "none" /\ Pins(d, j) => com'[j].status = com[j].status
        BY <2>3, <2>6
      <3>2. \A x \in Memories : Riders(x)' = Riders(x)
        BY <2>3
      <3> HIDE DEF K
      <3> QED BY <1>1, <1>6, <2>3, <2>4, <3>1, <3>2, Ended, ClosedUnseen DEF Effect
    <2>8. NoSilentStrand'
      <3>1. ASSUME NEW j \in Commitments, LiveStatus(j)', mem'[com'[j].memory].closed
            PROVE  j \in reopened
        <4>1. j # k /\ LiveStatus(j) /\ com'[j].memory = com[j].memory
          BY <2>3, <2>4, <3>1
        <4>2. com[j].memory \in Memories /\ com[j].memory # m
          BY <1>1, <1>3, <4>1 DEF RidersOK, LiveStatus, LIVE_COMMITMENT_STATES
        <4>3. mem[com[j].memory].closed
          BY <1>1, <1>6, <3>1, <4>1, <4>2, Closed
        <4> QED BY <1>1, <4>1, <4>3 DEF Safe, NoSilentStrand
      <3> QED BY <1>1, <3>1 DEF NoSilentStrand
    <2>9. Safe'
      BY <1>1, <1>6, <2>8, ClosedKeepsChains
      DEF Safe, FsmBackstopNeverFires, CarryNeverCollides
    <2>10. Promised
      BY <1>1, <1>6, <2>3, ClosedUnseen DEF Promised
    <2> QED
      BY <1>1, <1>6, <2>3, <2>5, <2>7, <2>9, <2>10, Ended, ClosedKeepsChains, StepOf
  <1> QED BY <1>4, <1>5, <1>6 DEF CarryResolve, stillLive, TriggerAdmits

(* A transition or a sweep that commits.                                   *)
LEMMA StatusStep ==
  ASSUME IInv, NEW c \in Clients, End(c), UNCHANGED <<mem, backstop>>,
         NEW K \in SUBSET Commitments, NEW to, SetStatus(K, to),
         \A k \in K : canTransition(com[k].status, to),
         \A k \in K, d \in Clients \ {c} : ~Pins(d, k),
         reopened \subseteq reopened', reopened' \in SUBSET Commitments,
         \A k \in K :
           /\ to \in LIVE_COMMITMENT_STATES /\ ~LiveStatus(k)
           /\ mem[com[k].memory].closed \/ Closing(com[k].memory)
           => k \in reopened'
  PROVE  IInv' /\ Promised
  <1>1. TypeOK /\ RidersOK /\ Safe /\ ClosedIsBorn
    BY DEF IInv
  <1>2. /\ com' \in [Commitments -> Commitment]
        /\ trail' \in [Commitments -> CommitmentStatus \cup {"none", "broken"}]
        /\ RidersOK'
        /\ \A k \in K : com[k].status # "none" /\ com'[k].status = to
        /\ \A k \in Commitments : com'[k].memory = com[k].memory
        /\ \A k \in Commitments \ K : com'[k] = com[k]
        /\ \A k \in Commitments : com[k].status # "none" => com'[k].status # "none"
        /\ \A x \in Memories : Riders(x)' = Riders(x)
        /\ [Audit!AuditNext]_(Audit!auditVars)
    BY Moved
  <1>3. TypeOK'
    BY <1>1, <1>2, Ended DEF TypeOK, Rows
  <1>4. ASSUME NEW k \in Commitments, LiveStatus(k)',
               mem[com[k].memory].closed \/ Closing(com[k].memory)
        PROVE  LiveStatus(k) \/ k \in reopened'
    BY <1>2, <1>4 DEF LiveStatus
  <1>5. \A d \in Clients : tx[d].pc \in Closers => Closing(tx[d].mem)
    BY ChainAssumption DEF IInv, TxOK, CloserOK, Closing
  <1>6. Effect(Clients \ {c})
    <2>1. \A d \in Clients \ {c}, k \in Commitments :
            com[k].status # "none" /\ Pins(d, k) => com'[k].status = com[k].status
      BY <1>2
    <2>2. \A d \in Clients \ {c}, k \in Commitments :
            tx[d].pc \in Closers /\ com[k].memory = tx[d].mem
              => (LiveStatus(k)' => LiveStatus(k) \/ k \in reopened')
      BY <1>4, <1>5
    <2> QED BY <1>2, <2>1, <2>2, Ended DEF Effect, Reserves
  <1>7. NoSilentStrand'
    <2>1. ASSUME NEW k \in Commitments, LiveStatus(k)', mem[com[k].memory].closed
          PROVE  k \in reopened'
      BY <1>1, <1>4, <2>1 DEF Safe, NoSilentStrand
    <2> QED BY <1>2, <2>1 DEF NoSilentStrand
  <1>8. Safe' /\ ClosedIsBorn'
    BY <1>1, <1>7 DEF Safe, ClosedIsBorn, FsmBackstopNeverFires, CarryNeverCollides,
                      EveryChainHasAHead, OneHeir
  <1>9. Promised
    BY <1>2 DEF Promised, ArchiveSpares
  <1> QED BY <1>2, <1>3, <1>6, <1>8, <1>9, Ended, StepOf

LEMMA StepTransitionCommit ==
  ASSUME IInv, NEW c \in Clients, TransitionCommit(c)
  PROVE  IInv' /\ Promised
  <1> DEFINE k == tx[c].com
             to == tx[c].to
             K == {k}
  <1>1. /\ tx[c].pc = "event" /\ TxOK(c) /\ TypeOK /\ End(c)
        /\ UNCHANGED <<mem, backstop>> /\ SetStatus(K, to)
    BY DEF TransitionCommit, IInv
  <1>2. /\ k \in Commitments /\ <<k, "nokeyupdate">> \in held[c]
        /\ canTransition(com[k].status, to)
    BY <1>1 DEF TxOK, TransitionOK
  <1>3. \A d \in Clients \ {c} : ~Pins(d, k)
    BY <1>2, NobodyElse DEF Rows, Writes
  <1>4. /\ reopened' = reopened \/ reopened' = reopened \cup {k}
        /\ (/\ ~LiveStatus(k)
            /\ mem[com[k].memory].closed \/ Closing(com[k].memory))
           => reopened' = reopened \cup {k}
    BY ZenonT(30) DEF TransitionCommit
  <1>5. reopened \subseteq reopened' /\ reopened' \in SUBSET Commitments
    BY <1>1, <1>2, <1>4 DEF TypeOK
  <1>6. \A j \in K :
          /\ to \in LIVE_COMMITMENT_STATES /\ ~LiveStatus(j)
          /\ mem[com[j].memory].closed \/ Closing(com[j].memory)
          => j \in reopened'
    BY <1>4
  <1>7. /\ K \in SUBSET Commitments
        /\ \A j \in K : canTransition(com[j].status, to)
        /\ \A j \in K, d \in Clients \ {c} : ~Pins(d, j)
    BY <1>2, <1>3
  <1> HIDE DEF K, to
  <1> QED BY <1>1, <1>5, <1>6, <1>7, StatusStep

LEMMA StepSweepCommit ==
  ASSUME IInv, NEW c \in Clients, SweepCommit(c)
  PROVE  IInv' /\ Promised
  <1> DEFINE K == Swept(c)
             to == "expired"
  <1>1. /\ tx[c].pc = "sweep" /\ TxOK(c) /\ TypeOK /\ End(c)
        /\ UNCHANGED <<mem, backstop>> /\ SetStatus(K, to) /\ reopened' = reopened
    BY DEF SweepCommit, IInv
  <1>2. K \in SUBSET Commitments
    BY DEF Swept
  <1>3. \A k \in K : LiveStatus(k) /\ <<k, "nokeyupdate">> \in held[c]
    BY <1>1 DEF TxOK, SweepOK, Swept
  <1>4. \A k \in K : canTransition(com[k].status, to)
    <2>1. \A k \in K : com[k].status = "open" \/ com[k].status = "waiting"
      BY <1>3 DEF LiveStatus, LIVE_COMMITMENT_STATES
    <2>2. canTransition("open", "expired") /\ canTransition("waiting", "expired")
      BY DEF canTransition, CommitmentStatus, COMMITMENT_TRANSITIONS
    <2> QED BY <2>1, <2>2
  <1>5. \A k \in K, d \in Clients \ {c} : ~Pins(d, k)
    BY <1>2, <1>3, NobodyElse DEF Rows, Writes
  <1>6. to \notin LIVE_COMMITMENT_STATES
    BY DEF LIVE_COMMITMENT_STATES
  <1>7. reopened \subseteq reopened' /\ reopened' \in SUBSET Commitments
    BY <1>1 DEF TypeOK
  <1> HIDE DEF K, to
  <1> QED BY <1>1, <1>2, <1>4, <1>5, <1>6, <1>7, StatusStep

LEMMA StepCreateInsert ==
  ASSUME IInv, NEW c \in Clients, NEW k \in Commitments, CreateInsert(c, k)
  PROVE  IInv' /\ Promised
  <1> DEFINE m == tx[c].mem
  <1>1. /\ tx[c].pc = "insert" /\ TxOK(c) /\ TypeOK /\ RidersOK /\ Safe
        /\ ClosedIsBorn /\ End(c) /\ UNCHANGED <<mem, reopened, backstop>>
    BY DEF CreateInsert, IInv
  <1>2. /\ m \in Memories /\ Pins(c, m)
        /\ mem[m].born /\ ~mem[m].closed
    BY <1>1 DEF TxOK, CreateOK, Pins
  <1>3. CASE UNCHANGED <<com, trail>>
    BY <1>1, <1>3, EndStep DEF tables
  <1>4. CASE Riders(m) = {} /\ NewCommitment(k, m)
    <2>1. /\ com' \in [Commitments -> Commitment]
          /\ trail' \in [Commitments -> CommitmentStatus \cup {"none", "broken"}]
          /\ RidersOK'
          /\ com[k].status = "none"
          /\ com'[k].memory = m /\ com'[k].status = "open"
          /\ \A j \in Commitments \ {k} : com'[j] = com[j]
          /\ \A x \in Memories \ {m} : Riders(x)' = Riders(x)
          /\ Audit!Begin(k)
      BY <1>1, <1>2, <1>4, Begun
    <2>2. TypeOK'
      BY <1>1, <2>1, Ended DEF TypeOK, Rows
    <2>3. \A d \in Clients \ {c} : ~Writes(d, m) /\ ~Reserves(d, m)
      BY <1>2, NobodyElse DEF Rows, Reserves
    <2>4. Effect(Clients \ {c})
      <3>1. \A d \in Clients \ {c}, x \in Memories :
              (mem[x].born /\ Writes(d, x)) \/ Reserves(d, x) => Riders(x)' = Riders(x)
        BY <2>1, <2>3
      <3>2. \A j \in Commitments : com[j].status # "none" => com'[j] = com[j]
        BY <2>1
      <3>3. \A d \in Clients \ {c}, j \in Commitments :
              tx[d].pc \in Closers /\ com[j].memory = tx[d].mem
                => (LiveStatus(j)' => LiveStatus(j) \/ j \in reopened')
        <4>1. ASSUME NEW d \in Clients \ {c}, tx[d].pc \in Closers
              PROVE  tx[d].mem \in Memories
          BY <4>1 DEF IInv, TxOK, CloserOK
        <4>2. com[k].memory = NULL
          BY <1>1, <2>1 DEF RidersOK
        <4> QED BY <2>1, <4>1, <4>2, ChainAssumption DEF LiveStatus
      <3> QED BY <1>1, <3>1, <3>2, <3>3, Ended DEF Effect, Reserves
    <2>5. NoSilentStrand'
      BY <1>1, <1>2, <2>1 DEF Safe, NoSilentStrand, LiveStatus
    <2>6. Safe' /\ ClosedIsBorn'
      BY <1>1, <2>5 DEF Safe, ClosedIsBorn, FsmBackstopNeverFires, CarryNeverCollides,
                        EveryChainHasAHead, OneHeir
    <2>7. Promised
      BY <1>1, <2>1 DEF Promised, ArchiveSpares, Audit!AuditNext
    <2> QED BY <1>1, <2>1, <2>2, <2>4, <2>6, <2>7, Ended, StepOf
  <1> QED BY <1>3, <1>4 DEF CreateInsert

LEMMA StepArchiveWrite ==
  ASSUME IInv, NEW c \in Clients, ArchiveWrite(c)
  PROVE  IInv' /\ Promised
  <1> DEFINE m == tx[c].mem
             r == mem[m]
  <1>1. /\ tx[c].pc = "archive" /\ TxOK(c) /\ TypeOK /\ RidersOK /\ Safe
        /\ ClosedIsBorn /\ End(c) /\ UNCHANGED <<com, trail, reopened, backstop>>
        /\ mem' = [mem EXCEPT ![m].archived = TRUE]
    BY DEF ArchiveWrite, IInv
  <1>2. m \in Memories /\ Writes(c, m) /\ mem[m].born
    BY <1>1 DEF TxOK, ArchiveOK, Writes
  <1>3. /\ mem'[m] = [r EXCEPT !.archived = TRUE] /\ r \in Memory
        /\ \A x \in Memories \ {m} : mem'[x] = mem[x]
        /\ mem' = [x \in Memories |-> mem'[x]]
    BY <1>1, <1>2 DEF TypeOK
  <1>4. /\ mem'[m] \in Memory /\ mem'[m].born = r.born
        /\ mem'[m].closed = r.closed /\ mem'[m].heirs = r.heirs
    <2> HIDE DEF r
    <2> QED BY <1>3 DEF Memory
  <1>5. /\ mem' \in [Memories -> Memory]
        /\ \A x \in Memories : /\ mem'[x].born = mem[x].born
                                /\ mem'[x].closed = mem[x].closed
                                /\ mem'[x].heirs = mem[x].heirs
    BY <1>1, <1>3, <1>4 DEF TypeOK
  <1>6. TypeOK'
    BY <1>1, <1>5, Ended DEF TypeOK, Rows
  <1>7. \A d \in Clients \ {c} : ~Pins(d, m)
    BY <1>2, NobodyElse DEF Rows
  <1>8. Effect(Clients \ {c})
    BY <1>1, <1>3, <1>5, <1>7, Ended DEF Effect, Reserves, Riders, LiveStatus
  <1>9. RidersOK' /\ ClosedIsBorn'
    BY <1>1, <1>5 DEF RidersOK, ClosedIsBorn
  <1>10. Safe'
    <2>1. NoSilentStrand'
      <3>1. ASSUME NEW k \in Commitments, LiveStatus(k)
            PROVE  com[k].memory \in Memories
        BY <1>1, <3>1 DEF RidersOK, LiveStatus, LIVE_COMMITMENT_STATES
      <3> QED BY <1>1, <1>5, <3>1 DEF Safe, NoSilentStrand, LiveStatus
    <2>2. EveryChainHasAHead'
      <3>1. {x \in Memories : mem'[x].closed} = {x \in Memories : mem[x].closed}
        BY <1>5
      <3>2. ASSUME NEW K \in SUBSET {x \in Memories : mem'[x].closed}, K # {}
            PROVE  \E x \in K : ~(mem'[x].heirs \subseteq K)
        BY <1>1, <1>5, <3>1, <3>2 DEF Safe, EveryChainHasAHead
      <3> QED BY <3>2 DEF EveryChainHasAHead
    <2>3. OneHeir'
      BY <1>1, <1>5 DEF Safe, OneHeir
    <2> QED BY <1>1, <2>1, <2>2, <2>3 DEF Safe, FsmBackstopNeverFires, CarryNeverCollides
  <1>11. Promised
    <2>1. [Audit!AuditNext]_(Audit!auditVars)
      BY <1>1 DEF Audit!auditVars
    <2>2. ASSUME NEW d \in Clients
          PROVE  ArchiveSpares(d)
      <3>1. CASE d = c
        BY <1>1, <3>1 DEF ArchiveSpares, TxOK, ArchiveOK
      <3>2. CASE d # c
        <4>1. ASSUME tx[d].policy = "disposition"
              PROVE  tx[d].mem \in Memories /\ Pins(d, tx[d].mem)
          BY <4>1 DEF IInv, TxOK, QuietOK, ArchiveOK, Pins, Writes
        <4> QED BY <1>3, <1>7, <3>2, <4>1 DEF ArchiveSpares
      <3> QED BY <3>1, <3>2
    <2> QED BY <2>1, <2>2 DEF Promised
  <1> QED BY <1>1, <1>6, <1>8, <1>9, <1>10, <1>11, Ended, StepOf

LEMMA StepRemember ==
  ASSUME IInv, NEW m \in Memories, NEW kind \in Kinds, Remember(m, kind)
  PROVE  IInv' /\ Promised
  <1> DEFINE born == [Unborn EXCEPT !.born = TRUE, !.kind = kind]
  <1>1. /\ TypeOK /\ RidersOK /\ Safe /\ ClosedIsBorn /\ LocksExclude
        /\ UNCHANGED <<held, tx, reopened, backstop>>
        /\ mem' = [mem EXCEPT ![m] = born]
        /\ ~mem[m].born /\ \A c \in Clients : tx[c].heir # m
    BY DEF Remember, Fresh, IInv
  <1>2. /\ born \in Memory
        /\ born.born /\ ~born.closed /\ born.heirs = {}
    BY DEF Unborn, Memory, Kinds
  <1>3. /\ ~mem[m].closed /\ mem[m].heirs = {}
    BY <1>1 DEF ClosedIsBorn, Safe, OneHeir
  <1> HIDE DEF born
  <1>4. /\ mem' \in [Memories -> Memory]
        /\ mem'[m].born /\ ~mem'[m].closed /\ mem'[m].heirs = {}
        /\ \A x \in Memories \ {m} : mem'[x] = mem[x]
        /\ \A x \in Memories : mem[x].born => mem'[x].born
        /\ \A x \in Memories : mem'[x].closed = mem[x].closed
                              /\ mem'[x].heirs = mem[x].heirs
    <2>1. /\ mem' \in [Memories -> Memory] /\ mem'[m] = born
          /\ \A x \in Memories \ {m} : mem'[x] = mem[x]
      BY <1>1, <1>2 DEF TypeOK
    <2>2. mem[m].closed = FALSE /\ born.closed = FALSE
      BY <1>1, <1>2, <1>3 DEF TypeOK, Memory
    <2> QED BY <1>1, <1>2, <1>3, <2>1, <2>2
  <1>5. Riders(m) = {}
    BY <1>1, UnbornHasNoRider
  <1>6. \/ UNCHANGED <<com, trail>>
        \/ \E k \in Commitments : NewCommitment(k, m)
    BY DEF Remember
  <1>7. /\ com' \in [Commitments -> Commitment]
        /\ trail' \in [Commitments -> CommitmentStatus \cup {"none", "broken"}]
        /\ RidersOK'
        /\ \A x \in Memories \ {m} : Riders(x)' = Riders(x)
        /\ \A j \in Commitments : com'[j] = com[j]
                                 \/ (com[j].status = "none" /\ com'[j].memory = m)
        /\ [Audit!AuditNext]_(Audit!auditVars)
    <2>1. CASE UNCHANGED <<com, trail>>
      BY <1>1, <1>4, <2>1 DEF TypeOK, RidersOK, Riders, Audit!auditVars
    <2>2. ASSUME NEW k \in Commitments, NewCommitment(k, m)
          PROVE  <1>7
      <3>1. /\ com' \in [Commitments -> Commitment]
            /\ trail' \in [Commitments -> CommitmentStatus \cup {"none", "broken"}]
            /\ RidersOK'
            /\ com[k].status = "none"
            /\ com'[k].memory = m /\ com'[k].status = "open"
            /\ \A j \in Commitments \ {k} : com'[j] = com[j]
            /\ \A x \in Memories \ {m} : Riders(x)' = Riders(x)
            /\ Audit!Begin(k)
        BY <1>1, <1>4, <1>5, <2>2, Begun
      <3> QED BY <3>1 DEF Audit!AuditNext
    <2> QED BY <1>6, <2>1, <2>2
  <1>8. TypeOK'
    BY <1>1, <1>4, <1>7 DEF TypeOK
  <1>9. Effect(Clients)
    <2>1. \A c \in Clients, x \in Memories :
            (mem[x].born /\ Writes(c, x)) \/ Reserves(c, x) => Riders(x)' = Riders(x)
      BY <1>1, <1>7 DEF Reserves
    <2>2. \A c \in Clients, x \in Memories : Reserves(c, x) => ~mem'[x].born
      BY <1>1, <1>4 DEF Reserves
    <2>3. \A c \in Clients, x \in Memories :
            mem[x].born /\ Pins(c, x) => mem'[x] = mem[x]
      BY <1>1, <1>4
    <2>4. \A j \in Commitments : com[j].status # "none" => com'[j] = com[j]
      BY <1>7
    <2>5. \A c \in Clients, j \in Commitments :
            tx[c].pc \in Closers /\ com[j].memory = tx[c].mem
              => (LiveStatus(j)' => LiveStatus(j) \/ j \in reopened')
      <3>1. ASSUME NEW c \in Clients, tx[c].pc \in Closers
            PROVE  tx[c].mem \in Memories
        BY <3>1 DEF IInv, TxOK, CloserOK
      <3>2. \A j \in Commitments : com[j].status = "none" => com[j].memory = NULL
        BY <1>1 DEF RidersOK
      <3> QED BY <1>7, <3>1, <3>2, ChainAssumption DEF LiveStatus
    <2> QED BY <1>1, <2>1, <2>2, <2>3, <2>4, <2>5 DEF Effect, Reserves
  <1>10. \A c \in Clients : TxOK(c)'
    BY <1>9, Bystanders
  <1>11. Safe' /\ ClosedIsBorn'
    <2>1. NoSilentStrand'
      <3>1. ASSUME NEW k \in Commitments, LiveStatus(k)', mem'[com'[k].memory].closed
            PROVE  k \in reopened
        <4>1. com'[k] = com[k] /\ LiveStatus(k)
          BY <1>4, <1>7, <3>1 DEF LiveStatus
        <4>2. com[k].memory \in Memories
          BY <1>1, <4>1 DEF RidersOK, LiveStatus, LIVE_COMMITMENT_STATES
        <4> QED BY <1>1, <1>4, <3>1, <4>1, <4>2 DEF Safe, NoSilentStrand
      <3> QED BY <1>1, <3>1 DEF NoSilentStrand
    <2>2. EveryChainHasAHead'
      <3>1. {x \in Memories : mem'[x].closed} = {x \in Memories : mem[x].closed}
        BY <1>4
      <3>2. ASSUME NEW K \in SUBSET {x \in Memories : mem'[x].closed}, K # {}
            PROVE  \E x \in K : ~(mem'[x].heirs \subseteq K)
        BY <1>1, <1>4, <3>1, <3>2 DEF Safe, EveryChainHasAHead
      <3> QED BY <3>2 DEF EveryChainHasAHead
    <2>3. OneHeir'
      BY <1>1, <1>4 DEF Safe, OneHeir
    <2>4. ClosedIsBorn'
      BY <1>1, <1>4 DEF ClosedIsBorn
    <2> QED
      BY <1>1, <2>1, <2>2, <2>3, <2>4 DEF Safe, FsmBackstopNeverFires, CarryNeverCollides
  <1>12. LocksExclude'
    BY <1>1 DEF LocksExclude
  <1>13. Promised
    <2>1. ASSUME NEW c \in Clients, tx[c].policy = "disposition"
          PROVE  tx[c].mem \in Memories /\ mem[tx[c].mem].born
      BY <2>1 DEF IInv, TxOK, QuietOK, ArchiveOK
    <2> QED BY <1>1, <1>4, <1>7, <2>1 DEF Promised, ArchiveSpares
  <1> QED BY <1>7, <1>8, <1>10, <1>11, <1>12, <1>13 DEF IInv

-----------------------------------------------------------------------------
(* The initial states, and every step.                                     *)
LEMMA InitStep ==
  ASSUME Init
  PROVE  IInv /\ Audit!AuditInit
  <1>1. TypeOK
    <2>1. Unborn \in Memory
      BY DEF Unborn, Memory, Kinds
    <2> QED
      BY <2>1, IdleTyped DEF Init, TypeOK, Commitment, CommitmentStatus
  <1>2. LocksExclude
    BY DEF Init, LocksExclude
  <1>3. ASSUME NEW c \in Clients
        PROVE  TxOK(c)
    <2>1. tx[c] = Idle /\ held[c] = {}
      BY DEF Init
    <2> QED
      BY <2>1 DEF TxOK, QuietOK, CreateOK, TransitionOK, SweepOK, CloserOK, CarryOK,
                  ArchiveOK, Idle, Closers
  <1>4. RidersOK /\ ClosedIsBorn
    BY DEF Init, RidersOK, ClosedIsBorn, Unborn
  <1>5. \A m \in Memories : ~mem[m].closed /\ mem[m].heirs = {}
    BY DEF Init, Unborn
  <1>6. \A k \in Commitments : ~LiveStatus(k)
    BY DEF Init, LiveStatus, LIVE_COMMITMENT_STATES
  <1>7. Safe
    BY <1>5, <1>6 DEF Init, Safe, FsmBackstopNeverFires, CarryNeverCollides,
                      NoSilentStrand, EveryChainHasAHead, OneHeir
  <1>8. Audit!AuditInit
    BY DEF Init, Audit!AuditInit
  <1> QED BY <1>1, <1>2, <1>3, <1>4, <1>7, <1>8 DEF IInv

LEMMA NextStep ==
  ASSUME IInv, [Next]_vars
  PROVE  IInv' /\ [Audit!AuditNext]_(Audit!auditVars)
                /\ [\A c \in Clients : ArchiveSpares(c)]_vars
  <1>1. CASE UNCHANGED vars
    <2>1. TypeOK' /\ LocksExclude' /\ RidersOK' /\ ClosedIsBorn'
      BY <1>1 DEF vars, IInv, TypeOK, LocksExclude, RidersOK, ClosedIsBorn
    <2>2. Safe'
      BY <1>1 DEF vars, IInv, Safe, FsmBackstopNeverFires, CarryNeverCollides,
                  NoSilentStrand, EveryChainHasAHead, OneHeir, LiveStatus
    <2>3. Effect(Clients)
      BY <1>1 DEF vars, Effect, Riders, LiveStatus, Reserves
    <2>4. \A c \in Clients : TxOK(c)'
      BY <2>3, Bystanders
    <2> QED BY <1>1, <2>1, <2>2, <2>4 DEF vars, Audit!auditVars, IInv
  <1>2. ASSUME NEW m \in Memories, NEW kind \in Kinds, Remember(m, kind)
        PROVE  IInv' /\ Promised
    BY <1>2, StepRemember
  <1>3. ASSUME NEW c \in Clients, Creates(c)
        PROVE  IInv' /\ Promised
    BY <1>3, StepCreateCheck, StepCreateInsert DEF Creates
  <1>4. ASSUME NEW c \in Clients, Transitions(c)
        PROVE  IInv' /\ Promised
    <2>1. CASE StampedFenced(c)
      BY <2>1, EndStep DEF StampedFenced
    <2> QED
      BY <1>4, <2>1, StepTransitionRead, StepStampedRead, StepTransitionMemory, StepTransitionUpdate,
         StepTransitionLost, StepTransitionReread, StepTransitionCommit
      DEF Transitions
  <1>5. ASSUME NEW c \in Clients, Sweeps(c)
        PROVE  IInv' /\ Promised
    BY <1>5, StepSweepExpire, StepSweepCommit DEF Sweeps
  <1>6. ASSUME NEW c \in Clients, Supersedes(c)
        PROVE  IInv' /\ Promised
    BY <1>6, StepReviseClose, StepApplyLock, StepCarryFinish, StepCarryPromote,
       StepCarryMove, StepCarryResolve
    DEF Supersedes
  <1>7. ASSUME NEW c \in Clients, Archives(c)
        PROVE  IInv' /\ Promised
    BY <1>7, StepArchiveLock, StepArchiveJudge, StepArchiveWrite DEF Archives
  <1>8. ASSUME NEW c \in Clients, Rollback(c)
        PROVE  IInv' /\ Promised
    BY <1>8, EndStep DEF Rollback
  <1>9. CASE Next
    <2>1. IInv' /\ Promised
      BY <1>2, <1>3, <1>4, <1>5, <1>6, <1>7, <1>8, <1>9 DEF Next
    <2> QED BY <2>1 DEF Promised
  <1> QED BY <1>1, <1>9

(* What every reachable state satisfies, for any clients, memories,        *)
(* commitments and number of attempts.                                     *)
THEOREM Invariance == Spec => []IInv
  <1>1. Init => IInv
    BY InitStep
  <1>2. IInv /\ [Next]_vars => IInv'
    BY NextStep
  <1> QED BY <1>1, <1>2, PTL DEF Spec

(* The tables and the transactions of packages/db stay what they are       *)
(* declared to be.                                                         *)
THEOREM TypeCorrect == Spec => []TypeOK
  <1>1. IInv => TypeOK
    BY DEF IInv
  <1> QED BY <1>1, Invariance, PTL

(* applyTransition's and carryCommitment's checks leave the FSM trigger    *)
(* nothing to refuse.                                                      *)
THEOREM TriggerIsBackstop == Spec => []FsmBackstopNeverFires
  <1>1. IInv => FsmBackstopNeverFires
    BY DEF IInv, Safe
  <1> QED BY <1>1, Invariance, PTL

(* carryOrResolvePredecessorCommitment never runs into the unique index on *)
(* the memory of a commitment.                                             *)
THEOREM CarryIsCollisionFree == Spec => []CarryNeverCollides
  <1>1. IInv => CarryNeverCollides
    BY DEF IInv, Safe
  <1> QED BY <1>1, Invariance, PTL

(* The database's two backstops are never what decides a race.             *)
THEOREM BackstopsRest == Spec => []NoWriteIsRefused
  <1>1. FsmBackstopNeverFires /\ CarryNeverCollides => NoWriteIsRefused
    BY DEF NoWriteIsRefused
  <1> QED BY <1>1, TriggerIsBackstop, CarryIsCollisionFree, PTL

(* createCommitment and the carries put no live obligation on a closed     *)
(* memory, nor leave one there.                                            *)
THEOREM NothingSilentlyStranded == Spec => []NoSilentStrand
  <1>1. IInv => NoSilentStrand
    BY DEF IInv, Safe
  <1> QED BY <1>1, Invariance, PTL

(* Revises and applies together never close every memory of a chain.       *)
THEOREM ChainsEnd == Spec => []EveryChainHasAHead
  <1>1. IInv => EveryChainHasAHead
    BY DEF IInv, Safe
  <1> QED BY <1>1, Invariance, PTL

(* A memory is closed by one supersede or update, and it has that one heir. *)
THEOREM ClosedOnce == Spec => []OneHeir
  <1>1. IInv => OneHeir
    BY DEF IInv, Safe
  <1> QED BY <1>1, Invariance, PTL

(* Refinement: transitions, sweeps and carries implement CommitmentAudit,  *)
(* so statuses move along COMMITMENT_TRANSITIONS and the events replay to  *)
(* them.                                                                   *)
THEOREM TrailReplays == Spec => AuditTrail
  <1>1. Init => Audit!AuditInit
    BY InitStep
  <1>2. IInv /\ [Next]_vars => [Audit!AuditNext]_(Audit!auditVars)
    BY NextStep
  <1> QED BY <1>1, <1>2, Invariance, PTL DEF Spec, AuditTrail, Audit!AuditSpec

(* archiveMemoryIn under the disposition policy archives no memory whose   *)
(* commitment is live at that moment.                                      *)
THEOREM ArchiveIsGated == Spec => ArchiveSparesLiveObligation
  <1>1. IInv /\ [Next]_vars => [\A c \in Clients : ArchiveSpares(c)]_vars
    BY NextStep
  <1> QED BY <1>1, Invariance, PTL DEF Spec, ArchiveSparesLiveObligation
=============================================================================
