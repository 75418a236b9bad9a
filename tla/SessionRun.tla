----------------------------- MODULE SessionRun -----------------------------
(***************************************************************************)
(* One agent-session run and everything that races over its row: the hook  *)
(* (SessionStart, Stop, SessionEnd and the triage handshake), the memory   *)
(* writes that attach to it, the lease sweep, the closer passes of the     *)
(* worker and account erasure.                                             *)
(*                                                                         *)
(* A transaction that takes the row lock before it decides is one action.  *)
(* Where the code decides on an unlocked read and writes in a later        *)
(* statement or a later transaction, the two are two actions with a        *)
(* program counter between them.  A caller's `now` is captured in its      *)
(* process before the transaction runs: it is any instant of the last      *)
(* MaxInFlight ticks, and a request still running holds the clock back     *)
(* once it is MaxInFlight old.                                             *)
(***************************************************************************)
EXTENDS SessionRow

CONSTANTS
  Stops,        \* concurrent Stop heartbeats
  Writers,      \* concurrent attributed memory writes
  Passes,       \* closer passes in flight at once
  ExcerptTTL,   \* SESSION_EXCERPT_TTL_MS
  MaxTries,     \* JOB_RETRY_OPTS.attempts
  OpenStamps,   \* inputs: the briefing stamps a SessionStart may carry
  Snapshots,    \* inputs: may a Stop carry an excerpt, a subset of BOOLEAN
  Gateways,     \* inputs: may a pass find a gateway, a subset of BOOLEAN
  Erasures,     \* inputs: {TRUE} when the account may be erased, else {}
  MaxInFlight,  \* bound: age of a request's captured clock
  MaxTime,      \* bound on the clock
  MaxEpoch,     \* bound on activation_epoch
  MaxAttempts   \* bound on attempt ids minted

ASSUME RunAssumption ==
  /\ ExcerptTTL \in Nat
  /\ MaxTries \in Nat \ {0}
  /\ OpenStamps \subseteq Stamps
  /\ Snapshots \subseteq BOOLEAN
  /\ Gateways \subseteq BOOLEAN
  /\ Erasures \subseteq {TRUE}
  /\ MaxInFlight \in Nat
  /\ MaxTime \in Nat
  /\ MaxEpoch \in Nat
  /\ MaxAttempts \in Nat

(* A request that outlives the grace could reclassify a swept close; the   *)
(* hour of grace is taken to outlast any request.                          *)
ASSUME InFlightAssumption == MaxInFlight <= Grace

VARIABLES
  clock,         \* wall clock
  row,           \* the agent_sessions row
  events,        \* committed memory_events carrying this run's id
  erased,        \* the users row is a deletion tombstone
  stop,          \* Stop heartbeats in flight
  writer,        \* attributed writes in flight
  sweep,         \* the repeatable sweep job
  jobs,          \* epochs with a closer job in the queue (one jobId each)
  pass,          \* closer passes in flight
  minted,        \* attempt ids handed out by crypto.randomUUID so far
  hookTokens,    \* attempt ids the hook has been handed
  beginTokens,   \* history: attempt ids minted by triage/begin
  closerEvents,  \* history: events written by a closer's own resolve
  closeKind,     \* history: who stamped the current closed_at
  debriefed      \* history: epoch of the last closer write-back that landed

shared == <<clock, row, events, erased>>
clients == <<stop, writer>>
worker == <<sweep, jobs, pass>>
tokens == <<minted, hookTokens, beginTokens>>
history == <<closerEvents, closeKind, debriefed>>
vars == <<shared, clients, worker, tokens, history>>

-----------------------------------------------------------------------------
(* Process states.                                                         *)

IdleStop == [pc |-> "idle", now |-> 0, excerpt |-> FALSE]
IdleWriter == [pc |-> "idle", now |-> 0]
IdleSweep == [pc |-> "idle", now |-> 0]
IdlePass ==
  [ pc |-> "idle", epoch |-> 0, tries |-> 0, work |-> FALSE,
    observed |-> NULL, status |-> "idle", watermark |-> {}, briefed |-> FALSE,
    listing |-> {}, verdict |-> "completed", token |-> 0, resolved |-> FALSE ]

StopStates == [pc : {"idle", "fast", "slow"}, now : Instant, excerpt : BOOLEAN]
WriterStates == [pc : {"idle", "beat", "lock"}, now : Instant]
SweepStates == [pc : {"idle", "close", "list", "ttl", "expire"}, now : Instant]

(* claim .. finish are the steps of runClosePass, retry and record those   *)
(* of the job harness after it throws.                                     *)
PassSteps == {"list", "claim", "judge", "resolve", "commit", "relist", "finish"}
PassStates ==
  [ pc : {"idle", "retry", "record"} \cup PassSteps, epoch : Nat, tries : Nat,
    work : BOOLEAN, observed : Nat \cup {NULL}, status : Statuses,
    watermark : SUBSET EventIds, briefed : BOOLEAN, listing : SUBSET EventIds,
    verdict : {"completed", "overflowed"}, token : Nat, resolved : BOOLEAN ]

TypeOK ==
  /\ clock \in Instant
  /\ row \in Row
  /\ events \in SUBSET EventIds
  /\ erased \in BOOLEAN
  /\ stop \in [Stops -> StopStates]
  /\ writer \in [Writers -> WriterStates]
  /\ sweep \in SweepStates
  /\ jobs \in SUBSET Nat
  /\ pass \in [Passes -> PassStates]
  /\ minted \in Nat
  /\ hookTokens \in SUBSET Nat
  /\ beginTokens \in SUBSET Nat
  /\ closerEvents \in SUBSET EventIds
  /\ closeKind \in {"none", "client", "sweep"}
  /\ debriefed \in Nat

Init ==
  /\ clock = 0
  /\ row = NoRow
  /\ events = {}
  /\ erased = FALSE
  /\ stop = [s \in Stops |-> IdleStop]
  /\ writer = [w \in Writers |-> IdleWriter]
  /\ sweep = IdleSweep
  /\ jobs = {}
  /\ pass = [p \in Passes |-> IdlePass]
  /\ minted = 0
  /\ hookTokens = {}
  /\ beginTokens = {}
  /\ closerEvents = {}
  /\ closeKind = "none"
  /\ debriefed = 0

(* The clocks a request that reaches the database now may carry.           *)
Nows == {now \in 0..clock : clock - now <= MaxInFlight}

(* One UPDATE of the row, within the bound on the epoch.                   *)
Update(newRow) ==
  /\ row' = newRow
  /\ newRow.activationEpoch <= MaxEpoch

(* The provenance event of a write commits with the write.                 *)
EventCommits(e) ==
  /\ e \in EventIds \ events
  /\ events' = events \cup {e}

-----------------------------------------------------------------------------
(* SessionStart, SessionEnd.                                               *)

(* guardSessionMutation refuses a tombstone; the 409 on parameters that    *)
(* differ changes nothing and is left out.                                 *)
Open(source, stamp, now) ==
  /\ ~erased
  /\ IF Exists(row)
     THEN Update(openSession(row, source, stamp, now))
     ELSE Update(insertSession(stamp, now))
  /\ closeKind' = IF Closed(row') THEN closeKind ELSE "none"
  /\ UNCHANGED <<clock, events, erased, clients, worker, tokens,
                 closerEvents, debriefed>>

Close(now) ==
  /\ Exists(row)
  /\ Update(closeSession(row, now))
  /\ closeKind' = IF Closed(row) THEN closeKind ELSE "client"
  /\ UNCHANGED <<clock, events, erased, clients, worker, tokens,
                 closerEvents, debriefed>>

-----------------------------------------------------------------------------
(* Stop: heartbeatSession.                                                 *)

(* The unlocked probe decides only which path is taken.                    *)
StopProbe(s, excerpt, now) ==
  /\ stop[s].pc = "idle"
  /\ Exists(row)
  /\ stop' = [stop EXCEPT ![s] =
       [pc |-> IF Live(row, now) THEN "fast" ELSE "slow",
        now |-> now, excerpt |-> excerpt]]
  /\ UNCHANGED <<shared, writer, worker, tokens, history>>

(* The guarded UPDATE; zero rows fall through to the locked path.          *)
StopFast(s) ==
  /\ stop[s].pc = "fast"
  /\ IF onlyOpenMatches(row)
     THEN /\ stop' = [stop EXCEPT ![s] = IdleStop]
          /\ Update(refreshLease(row, stop[s].excerpt, erased, stop[s].now,
                                 FALSE))
     ELSE /\ stop' = [stop EXCEPT ![s].pc = "slow"]
          /\ UNCHANGED row
  /\ UNCHANGED <<clock, events, erased, writer, worker, tokens, history>>

(* Under the attach lock and the row lock the decision is taken again.     *)
StopSlow(s) ==
  /\ stop[s].pc = "slow"
  /\ Update(refreshLease(row, stop[s].excerpt, erased, stop[s].now,
                         reopens(row, stop[s].now)))
  /\ stop' = [stop EXCEPT ![s] = IdleStop]
  /\ closeKind' = "none"
  /\ UNCHANGED <<clock, events, erased, writer, worker, tokens,
                 closerEvents, debriefed>>

(* The request fails and its transaction rolls back.                       *)
StopAborts(s) ==
  /\ stop[s].pc # "idle"
  /\ stop' = [stop EXCEPT ![s] = IdleStop]
  /\ UNCHANGED <<shared, writer, worker, tokens, history>>

-----------------------------------------------------------------------------
(* Attributed memory writes: resolveSessionProvenance in the write's own   *)
(* transaction.                                                            *)

(* attachKnownRun's unlocked read.  An explicit close leaves the write     *)
(* unattributed, which touches nothing here.                               *)
AttachProbe(w, now) ==
  /\ writer[w].pc = "idle"
  /\ Exists(row)
  /\ ~ExplicitlyClosed(row)
  /\ writer' = [writer EXCEPT ![w] =
       [pc |-> IF isLeased(row.lastSeenAt, now) THEN "beat" ELSE "lock",
        now |-> now]]
  /\ UNCHANGED <<shared, stop, worker, tokens, history>>

(* The leased path: one UPDATE that re-checks nothing, then the event.     *)
AttachBeat(w, e) ==
  /\ writer[w].pc = "beat"
  /\ EventCommits(e)
  /\ Update(heartbeat(row, writer[w].now))
  /\ writer' = [writer EXCEPT ![w] = IdleWriter]
  /\ UNCHANGED <<clock, erased, stop, worker, tokens, history>>

(* What attachKnownRun decides under the attach lock and the row lock.     *)
lockedTrustsProbe(fresh, now) == resurrect(fresh, now)

lockedAttach(fresh, now) ==
  IF isLeased(fresh.lastSeenAt, now)
  THEN heartbeat(fresh, now) ELSE resurrect(fresh, now)

lockedRefusesNothing(fresh) == FALSE
lockedRefuses(fresh) == ExplicitlyClosed(fresh)

(* The re-read found a SessionEnd: the write commits unattributed.         *)
AttachRefused(w) ==
  /\ writer[w].pc = "lock"
  /\ lockedRefuses(row)
  /\ writer' = [writer EXCEPT ![w] = IdleWriter]
  /\ UNCHANGED <<shared, stop, worker, tokens, history>>

AttachLocked(w, e) ==
  /\ writer[w].pc = "lock"
  /\ ~lockedRefuses(row)
  /\ EventCommits(e)
  /\ Update(lockedAttach(row, writer[w].now))
  /\ writer' = [writer EXCEPT ![w] = IdleWriter]
  /\ closeKind' = IF Closed(row') THEN closeKind ELSE "none"
  /\ UNCHANGED <<clock, erased, stop, worker, tokens, closerEvents, debriefed>>

AttachAborts(w) ==
  /\ writer[w].pc # "idle"
  /\ writer' = [writer EXCEPT ![w] = IdleWriter]
  /\ UNCHANGED <<shared, stop, worker, tokens, history>>

(* attachSingleOpen, this run being the project's only live one: attach    *)
(* lock, then the row lock, then the heartbeat.                            *)
AttachSingleOpen(e, now) ==
  /\ Exists(row)
  /\ Live(row, now)
  /\ EventCommits(e)
  /\ Update(heartbeat(row, now))
  /\ UNCHANGED <<clock, erased, clients, worker, tokens, history>>

-----------------------------------------------------------------------------
(* The Stop handshake: each half holds the row lock throughout.  Only its  *)
(* answer can be lost.                                                     *)

TriageArm(substantial, stopHookActive, delivered, now) ==
  /\ Exists(row)
  /\ evaluateTriageEntry(row, events, substantial, stopHookActive, now) = "arm"
  /\ minted < MaxAttempts
  /\ \E listing \in Listings(events) :
       Update(armAttempt(row, minted + 1, listing, Truncated(events), clock))
  /\ minted' = minted + 1
  /\ IF Truncated(events)
     THEN UNCHANGED <<hookTokens, beginTokens>>
     ELSE /\ beginTokens' = beginTokens \cup {minted + 1}
          /\ hookTokens' = IF delivered
                           THEN hookTokens \cup {minted + 1} ELSE hookTokens
  /\ UNCHANGED <<clock, events, erased, clients, worker, history>>

(* begin declines `pending` and hands back the attempt in flight.          *)
TriagePending(stopHookActive, now) ==
  /\ Exists(row)
  /\ evaluateTriageEntry(row, events, FALSE, stopHookActive, now) = "pending"
  /\ row.triageAttemptId # NULL
  /\ hookTokens' = hookTokens \cup {row.triageAttemptId}
  /\ UNCHANGED <<shared, clients, worker, minted, beginTokens, history>>

(* A token that is not the current one is a 409 and changes nothing.       *)
TriageComplete(attemptId, defensive) ==
  /\ attemptId \in hookTokens
  /\ AttemptCurrent(row, attemptId)
  /\ \E listing \in Listings(events) :
       Update(completeSessionTriage(row, events, listing, defensive))
  /\ UNCHANGED <<clock, events, erased, clients, worker, tokens, history>>

-----------------------------------------------------------------------------
(* The sweep job: close, list and enqueue, expire excerpts, in that order. *)

SweepSelect(now) ==
  /\ sweep.pc = "idle"
  /\ Exists(row)
  /\ sweep' = [pc |-> IF Sweepable(row, now) THEN "close" ELSE "list",
               now |-> now]
  /\ UNCHANGED <<shared, clients, jobs, pass, tokens, history>>

(* The UPDATE re-asserts both predicates of the SELECT.                    *)
SweepClose ==
  /\ sweep.pc = "close"
  /\ sweep' = [sweep EXCEPT !.pc = "list"]
  /\ IF Sweepable(row, sweep.now)
     THEN /\ Update(sweepExpiredLeases(row, sweep.now))
          /\ closeKind' = "sweep"
     ELSE UNCHANGED <<row, closeKind>>
  /\ UNCHANGED <<clock, events, erased, clients, jobs, pass, tokens,
                 closerEvents, debriefed>>

SweepList ==
  /\ sweep.pc = "list"
  /\ sweep' = [sweep EXCEPT !.pc = "ttl"]
  /\ jobs' = IF closerCandidatePredicate(row, events, sweep.now)
             THEN jobs \cup {row.activationEpoch} ELSE jobs
  /\ UNCHANGED <<shared, clients, pass, tokens, history>>

SweepTtlSelect ==
  /\ sweep.pc = "ttl"
  /\ sweep' = IF ExcerptStale(row, sweep.now - ExcerptTTL)
              THEN [sweep EXCEPT !.pc = "expire"] ELSE IdleSweep
  /\ UNCHANGED <<shared, clients, jobs, pass, tokens, history>>

SweepTtlExpire ==
  /\ sweep.pc = "expire"
  /\ sweep' = IdleSweep
  /\ Update(IF ExcerptExpirable(row) THEN expireStaleExcerpts(row) ELSE row)
  /\ UNCHANGED <<clock, events, erased, clients, jobs, pass, tokens, history>>

-----------------------------------------------------------------------------
(* The closer: closeSessionRun and runClosePass, one step per transaction. *)

Advance(p, fields) == pass' = [pass EXCEPT ![p] = fields]

(* A job that returns leaves the queue, whatever its outcome.              *)
JobDone(p) ==
  /\ Advance(p, IdlePass)
  /\ jobs' = jobs \ {pass[p].epoch}

PassUnchanged == UNCHANGED <<clock, events, erased, clients, sweep, tokens>>

(* readSession: a stale epoch or a live run ends the job.                  *)
ReadSession(p, epoch, tries) ==
  IF row.activationEpoch = epoch /\ Closed(row)
  THEN /\ Advance(p, [IdlePass EXCEPT
            !.pc = "list", !.epoch = epoch, !.tries = tries,
            !.observed = row.triageAttemptId, !.status = row.triageStatus,
            !.watermark = row.lastTriagedEventIds,
            !.briefed = row.briefedMemories])
       /\ UNCHANGED jobs
  ELSE /\ Advance(p, IdlePass)
       /\ jobs' = jobs \ {epoch}

(* BullMQ redelivers a stalled job: two passes may run the same one.       *)
JobStart(p) ==
  /\ pass[p].pc = "idle"
  /\ \E epoch \in jobs : ReadSession(p, epoch, 1)
  /\ PassUnchanged /\ UNCHANGED <<row, history>>

JobRetry(p) ==
  /\ pass[p].pc = "retry"
  /\ ReadSession(p, pass[p].epoch, pass[p].tries + 1)
  /\ PassUnchanged /\ UNCHANGED <<row, history>>

isCloserEligible(status, visible, triaged) ==
  \/ status \in CLOSER_ELIGIBLE_STATUSES
  \/ status = "completed" /\ ~(visible \subseteq triaged)

(* listEvents and the decision it allows: terminal, nothing to do, settle  *)
(* without work, no gateway, or work.                                      *)
PassList(p) ==
  /\ pass[p].pc = "list"
  /\ \E listing \in Listings(events), gateway \in Gateways :
       LET eligible == isCloserEligible(pass[p].status, listing,
                                        pass[p].watermark)
           claiming(verdict, work) ==
             /\ Advance(p, [pass[p] EXCEPT
                  !.pc = "claim", !.listing = listing, !.verdict = verdict,
                  !.work = work, !.status = "idle", !.watermark = {},
                  !.briefed = FALSE])
             /\ UNCHANGED jobs
       IN  CASE Truncated(events) -> claiming("overflowed", FALSE)
             [] ~Truncated(events) /\ eligible /\ ~pass[p].briefed ->
                  claiming("completed", FALSE)
             [] ~Truncated(events) /\ eligible /\ pass[p].briefed /\ gateway ->
                  claiming("completed", TRUE)
             [] OTHER -> JobDone(p)
  /\ PassUnchanged /\ UNCHANGED <<row, history>>

(* The compare-and-set; losing it ends the pass.                           *)
PassClaim(p) ==
  /\ pass[p].pc = "claim"
  /\ minted < MaxAttempts
  /\ minted' = minted + 1
  /\ IF claimAdmits(row, pass[p].epoch, pass[p].observed)
     THEN /\ Update(claimSessionTriage(row, minted + 1))
          /\ Advance(p, [pass[p] EXCEPT
               !.pc = IF pass[p].work THEN "judge" ELSE "finish",
               !.token = minted + 1, !.observed = NULL])
          /\ UNCHANGED jobs
     ELSE JobDone(p) /\ UNCHANGED row
  /\ UNCHANGED <<clock, events, erased, clients, sweep, hookTokens,
                 beginTokens, history>>

Fenced(p) == row.activationEpoch # pass[p].epoch

(* meteredCall: the epoch is read again just before the model is called.   *)
PassJudge(p) ==
  /\ pass[p].pc = "judge"
  /\ IF Fenced(p) THEN JobDone(p)
     ELSE /\ Advance(p, [pass[p] EXCEPT !.pc = "resolve"])
          /\ UNCHANGED jobs
  /\ PassUnchanged /\ UNCHANGED <<row, history>>

(* One more candidate.  Its transaction reads the epoch under the          *)
(* commitment lock, not the session's; the pass's own read just before it  *)
(* can only fence earlier, since the epoch never comes back.               *)
PassCandidate(p) ==
  /\ pass[p].pc = "resolve"
  /\ IF Fenced(p) THEN JobDone(p)
     ELSE /\ Advance(p, [pass[p] EXCEPT !.pc = "commit"])
          /\ UNCHANGED jobs
  /\ PassUnchanged /\ UNCHANGED <<row, history>>

(* The resolve commits and its event becomes visible, the session row      *)
(* untouched; or the commitment had already moved and nothing is written.  *)
PassResolve(p, e) ==
  /\ pass[p].pc = "commit"
  /\ EventCommits(e)
  /\ closerEvents' = closerEvents \cup {e}
  /\ Advance(p, [pass[p] EXCEPT !.pc = "resolve", !.resolved = TRUE])
  /\ UNCHANGED <<clock, row, erased, clients, sweep, jobs, tokens,
                 closeKind, debriefed>>

PassResolveSkips(p) ==
  /\ pass[p].pc = "commit"
  /\ Advance(p, [pass[p] EXCEPT !.pc = "resolve"])
  /\ PassUnchanged /\ UNCHANGED <<row, jobs, history>>

(* No candidate is left.  Staging proposals checks the epoch and writes    *)
(* another table.                                                          *)
PassResolved(p, proposes) ==
  /\ pass[p].pc = "resolve"
  /\ IF proposes /\ Fenced(p) THEN JobDone(p)
     ELSE /\ Advance(p, [pass[p] EXCEPT
               !.pc = IF pass[p].resolved THEN "relist" ELSE "finish"])
          /\ UNCHANGED jobs
  /\ PassUnchanged /\ UNCHANGED <<row, history>>

PassRelist(p) ==
  /\ pass[p].pc = "relist"
  /\ \E listing \in Listings(events) :
       Advance(p, [pass[p] EXCEPT
         !.pc = "finish", !.listing = listing, !.resolved = FALSE,
         !.verdict = IF Truncated(events) THEN "overflowed" ELSE "completed"])
  /\ PassUnchanged /\ UNCHANGED <<row, jobs, history>>

(* The fenced write-back; a failed fence abandons the pass.                *)
PassFinish(p) ==
  /\ pass[p].pc = "finish"
  /\ IF finishAdmits(row, pass[p].epoch, pass[p].token)
     THEN /\ Update(finishSessionTriage(row, events, pass[p].verdict,
                      pass[p].listing,
                      pass[p].work /\ pass[p].verdict = "completed"))
          /\ debriefed' = pass[p].epoch
     ELSE UNCHANGED <<row, debriefed>>
  /\ JobDone(p)
  /\ UNCHANGED <<clock, events, erased, clients, sweep, tokens, closerEvents,
                 closeKind>>

(* Any step of the pass throws: BullMQ retries, and only the last attempt  *)
(* records a failure on the row.                                           *)
PassThrow(p) ==
  /\ pass[p].pc \in PassSteps
  /\ Advance(p, [IdlePass EXCEPT
       !.pc = IF pass[p].tries < MaxTries THEN "retry" ELSE "record",
       !.epoch = pass[p].epoch, !.tries = pass[p].tries])
  /\ PassUnchanged /\ UNCHANGED <<row, jobs, history>>

failureAdmitsAny(current, epoch) == TRUE
failureAdmits(current, epoch) == current.activationEpoch = epoch

(* recordFailure, stamped with the clock the pass was started with.        *)
PassRecord(p, now) ==
  /\ pass[p].pc = "record"
  /\ IF failureAdmits(row, pass[p].epoch)
     THEN /\ row.closerFailureCount < MaxFailures
          /\ Update(recordCloserFailure(row, now))
     ELSE UNCHANGED row
  /\ JobDone(p)
  /\ PassUnchanged /\ UNCHANGED history

(* recordFailure itself failed: swallowed, the job still fails.            *)
PassRecordFails(p) ==
  /\ pass[p].pc = "record"
  /\ JobDone(p)
  /\ PassUnchanged /\ UNCHANGED <<row, history>>

(* The worker dies: the job is still queued and will be redelivered.       *)
WorkerCrash(p) ==
  /\ pass[p].pc # "idle"
  /\ Advance(p, IdlePass)
  /\ PassUnchanged /\ UNCHANGED <<row, jobs, history>>

-----------------------------------------------------------------------------
(* eraseAccountData, under the exclusive lifecycle lock.                   *)
EraseAccount ==
  /\ ~erased
  /\ erased' \in Erasures
  /\ IF Exists(row) THEN Update(eraseAccountData(row)) ELSE UNCHANGED row
  /\ UNCHANGED <<clock, events, clients, worker, tokens, history>>

(* Time passes, but no request grows older than MaxInFlight.               *)
Tick ==
  /\ clock < MaxTime
  /\ \A s \in Stops : stop[s].pc # "idle" => clock < stop[s].now + MaxInFlight
  /\ \A w \in Writers :
       writer[w].pc # "idle" => clock < writer[w].now + MaxInFlight
  /\ clock' = clock + 1
  /\ UNCHANGED <<row, events, erased, clients, worker, tokens, history>>

-----------------------------------------------------------------------------
Sources == {"startup", "resume"}

Hook ==
  \/ \E source \in Sources, stamp \in OpenStamps, now \in Nows :
       Open(source, stamp, now)
  \/ \E now \in Nows : Close(now)
  \/ \E s \in Stops, excerpt \in Snapshots, now \in Nows :
       StopProbe(s, excerpt, now)
  \/ \E s \in Stops : StopFast(s)
  \/ \E s \in Stops : StopSlow(s)
  \/ \E s \in Stops : StopAborts(s)

MemoryWrites ==
  \/ \E w \in Writers, now \in Nows : AttachProbe(w, now)
  \/ \E w \in Writers, e \in EventIds : AttachBeat(w, e)
  \/ \E w \in Writers : AttachRefused(w)
  \/ \E w \in Writers, e \in EventIds : AttachLocked(w, e)
  \/ \E w \in Writers : AttachAborts(w)
  \/ \E e \in EventIds, now \in Nows : AttachSingleOpen(e, now)

Triage ==
  \/ \E substantial, active, delivered \in BOOLEAN, now \in Nows :
       TriageArm(substantial, active, delivered, now)
  \/ \E active \in BOOLEAN, now \in Nows : TriagePending(active, now)
  \/ \E a \in hookTokens, defensive \in BOOLEAN : TriageComplete(a, defensive)

Sweep ==
  \/ \E now \in Nows : SweepSelect(now)
  \/ SweepClose
  \/ SweepList
  \/ SweepTtlSelect
  \/ SweepTtlExpire

CloserSteps(p) ==
  \/ JobStart(p)
  \/ JobRetry(p)
  \/ PassList(p)
  \/ PassClaim(p)
  \/ PassJudge(p)
  \/ PassCandidate(p)
  \/ \E e \in EventIds : PassResolve(p, e)
  \/ PassResolveSkips(p)
  \/ \E proposes \in BOOLEAN : PassResolved(p, proposes)
  \/ PassRelist(p)
  \/ PassFinish(p)
  \/ \E now \in 0..clock : PassRecord(p, now)

CloserFaults(p) == PassThrow(p) \/ PassRecordFails(p) \/ WorkerCrash(p)

Next ==
  \/ Hook
  \/ MemoryWrites
  \/ Triage
  \/ Sweep
  \/ \E p \in Passes : CloserSteps(p)
  \/ \E p \in Passes : CloserFaults(p)
  \/ EraseAccount
  \/ Tick

Spec == Init /\ [][Next]_vars

-----------------------------------------------------------------------------
(* Properties.                                                             *)

(* `pending` means an interactive attempt is in flight and nothing else:   *)
(* however claims, resurrections and handshakes interleave, a closer's     *)
(* claim token never reaches the hook and never sits under `pending`       *)
(* (session-closer.ts, THE CLAIM RETIRES A `pending` HANDSHAKE).           *)
HandshakeNeverBorrowed ==
  /\ hookTokens \subseteq beginTokens
  /\ row.triageStatus = "pending" => row.triageAttemptId \in beginTokens

(* A close the sweep stamped reads as implicit for as long as it stands,   *)
(* whatever straggling writes still refresh the lease of the closed row    *)
(* (session-closer.ts, invariant 1).                                       *)
SweptCloseStaysImplicit ==
  closeKind = "sweep" => ~ExplicitlyClosed(row)

(* No pass is current for an open run: whatever a pass read, decided or    *)
(* claimed, once its run is live again the epoch fences it out of every    *)
(* later write-back (session-closer.ts, the fence of claim, finish and     *)
(* recordFailure; session-lifecycle.ts and session-provenance.ts, every    *)
(* statement that clears closed_at).                                       *)
PassFenced ==
  \A p \in Passes :
    pass[p].pc # "idle" =>
      /\ pass[p].epoch <= row.activationEpoch
      /\ pass[p].epoch = row.activationEpoch => Closed(row)

(* An open run carries no closer backoff: failures are recorded only       *)
(* against the closed activation they belong to, and every reopening drops *)
(* them (session-closer.ts, recordCloserFailure).                          *)
OpenRunHasNoBackoff ==
  /\ ~Closed(row) => row.closerFailureCount = 0
  /\ row.closerFailureCount = 0 <=> row.closerNextAttemptAt = NULL

(* No memory write is lost to triage: an event of a settled run that no    *)
(* watermark holds keeps the run in the closer's scan.  The closer's own   *)
(* resolves are left out: they do not lock the row.                        *)
NoWriteLostToTriage ==
  /\ ~erased
  /\ row.triageStatus = "completed"
  /\ Untriaged(row, events) \ closerEvents # {}
  => row.needsLook

(* Erasure is the final write of user content on the row, heartbeats and   *)
(* opens that were already in flight included (account-delete.ts).         *)
ErasureIsFinal ==
  erased => /\ row.lastMessageExcerpt # "text"
            /\ ~row.briefedMemories

(* An explicit SessionEnd keeps reading as explicit until its client       *)
(* begins another activation; a memory write never begins it, even when    *)
(* the SessionEnd commits between the write's probe and its decision.      *)
ExplicitCloseIsDurable ==
  [][ExplicitlyClosed(row)
       => \/ ExplicitlyClosed(row')
          \/ /\ row'.activationEpoch > row.activationEpoch
             /\ \A w \in Writers : writer'[w] = writer[w]]_vars

(* A Stop says the session is alive: whatever commits between its unlocked *)
(* probe and its UPDATE, the heartbeat that lands leaves the run open      *)
(* (session-lifecycle.ts, heartbeatSession, the guarded fast path).        *)
StopLeavesRunOpen ==
  [][\A s \in Stops :
       stop[s].pc # "idle" /\ stop'[s].pc = "idle" /\ row' # row
         => ~Closed(row')]_vars

(* One death, one epoch: two requests that both saw the run dead advance   *)
(* the fence once.  Only a resume or an erasure advances it on a live run. *)
OneEpochPerDeath ==
  [][/\ Exists(row)
     /\ Live(row, clock)
     /\ row'.activationEpoch # row.activationEpoch
     => \/ erased' # erased
        \/ \E stamp \in OpenStamps, now \in Nows : Open("resume", stamp, now)]_vars

(* The excerpt of an open run is its current turn: no retention sweep and  *)
(* no closer that started before the run came back may drop it.            *)
OpenExcerptSurvives ==
  [][row.lastMessageExcerpt = "text" /\ row'.lastMessageExcerpt = NULL
       => Closed(row)]_vars

(* `overflowed` is terminal for the handshake, the closer and every write. *)
OverflowIsTerminal ==
  [][row.triageStatus = "overflowed" => row'.triageStatus = "overflowed"]_vars

(* The closer's write-backs keep what the activation epoch promises.       *)
Activation == INSTANCE RunActivation
  WITH epoch <- row.activationEpoch, open <- Exists(row) /\ ~Closed(row)

ActivationFence == Activation!ActivationSpec
=============================================================================
