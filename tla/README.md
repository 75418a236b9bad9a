# Formal models of 3ngram

3ngram is a memory server for AI agents: memories, commitments and entities in
Postgres behind a REST/MCP server, a BullMQ worker that runs background jobs,
and a Claude Code hook (Go) that reports sessions. This directory holds TLA+
models of its state machines and of the transactions they are made of, the TLC
configurations that check them on small instances, and theorems about them
checked by TLAPS.

    tlasany M.tla                                   parse a module
    tlc -workers 2 -config X.cfg MCModule.tla       one run (see "Runs")
    tlapm MProofs.tla                               the proofs about module M
                                                    (M: see section 5)

| run | module |
|---|---|
| lifecycle, closer, handshake | `MCSessionRun` |
| liveness | `MCSessionRunLive` |
| carry | `MCMemoryChain` |
| writes | `MCMemoryWrites` |
| queue | `MCReviewQueue` |
| forgetting | `MCForgettingPass` |
| budget, budget_ceiling | `MCMeteredCalls` |
| credentials | `MCCredentials` |
| signup | `MCSignup` |

Paths below are relative to the repository root.

## 1. Inventory

| component | state it keeps | operations | code |
|---|---|---|---|
| Agent-session row | lease (`last_seen_at`), `closed_at`, `activation_epoch`, briefing, excerpt | open, close, Stop heartbeat | `packages/db/src/session-lifecycle.ts`, `session-lease.ts` |
| Write-time provenance | the run's events, `needs_look`, triage status | attach a memory write to its run, resurrect a dead run | `packages/db/src/session-provenance.ts` |
| Stop triage handshake | `triage_status`, `triage_attempt_id`, `triage_armed_at`, watermark | begin, complete | `packages/db/src/session-triage.ts`, `packages/core/src/session/triage.ts` |
| Lease sweep, excerpt retention | the closes it stamps, the excerpts it drops | the periodic job | `packages/core/src/admin/session-sweep.ts`, `packages/db/src/session-closer.ts` |
| Session closer and its queue | queued jobs, claim token, backoff | candidate scan, claim, judge, resolve, finish, record failure | `packages/core/src/admin/session-closer.ts`, `apps/worker/src/{queues,jobs/session-closer}.ts` |
| Account erasure | tombstone, redacted rows | `eraseAccountData` | `packages/db/src/account-delete.ts`, `credential-guard.ts` |
| Commitments | status, memory link, audit events | create, transition (CAS loop), expire sweep, carry over a revise | `packages/db/src/commitments.ts`, `packages/core/src/write/commitments.ts` |
| Memory chain | validity, `superseded_by`, archive | remember, revise, archive, reaffirm, move | `packages/db/src/memory-*.ts` |
| Content hash, quota, facts | the slot of a live hash, the count of live memories, the timeline of each fact key | create, import, revise, archive of a blocker | `packages/db/src/memory-write.ts`, `facts-write.ts` |
| Proposals of four kinds | proposed / applied / rejected, at most one open per subject | stage, accept, reject, reopen after a failed accept | `packages/db/src/*proposals*.ts`, `packages/core/src/admin/proposals.ts` |
| Forgetting pass | candidates, verdicts under way, retention proposals | read candidates, judge a batch, stage, accept, reject | `packages/core/src/admin/forgetting-*.ts`, `packages/db/src/{forgetting-candidates,retention-proposals}.ts` |
| Usage budget | `llm_usage`, reservations with a TTL, cap and window | reserve, record, release, set the cap or the window | `packages/db/src/budget-read.ts`, `packages/core/src/budget`, `packages/core/src/write/embed.ts` |
| Credentials | sessions, API keys, codes, token pairs, reset tokens; two advisory locks | login, issue, exchange, rotate, revoke, reset and change the password, collect clients | `packages/db/src/auth-*.ts`, `credential-guard.ts`, `packages/core/src/auth` |
| Signup and verification | an unverified user, links with a client proof; a third advisory lock | signup, retry, resend, verify | `packages/db/migrations/0019*.sql`, `0021*.sql`, `packages/core/src/auth` |
| Rate limit, search, transports, hook, adapters | see PROJECT.json | | |

**How they interact.** The hook calls open / Stop heartbeat / begin / complete /
close over REST; every memory write may attach to the run it came from and
leaves a `memory_events` row carrying the run's id; the worker's sweep closes
runs whose lease lapsed and enqueues one closer job per (run, epoch); a closer
pass reads the run, its events and its open commitments, asks a model, resolves
commitments, stages proposals and writes the run's triage columns back. All of
them meet on **one row of agent_sessions**. There is no single lock that covers
it: some paths decide under the row lock, some on an unlocked read followed by a
guarded UPDATE, some on an unlocked read followed by an unguarded one, and a
closer pass spans many transactions with network calls between them. What holds
it together is arithmetic on two timestamps (is the lease live, was the close
explicit) and two fences (the activation epoch against closers, the attempt id
against stale handshakes).

**What is hard.** Interleavings of those paths; clocks captured before the
transaction; answers that get lost; passes that crash, are redelivered and
retried while the run comes back to life; accepts that span two transactions and
undo the first when the second fails; sums taken in two statements while money
moves from one table to the other; one-time tokens presented twice; erasure
landing among requests already past their credential checks; a flag
(`needs_look`) that caches a predicate over another table. PROJECT.json lists
every hazard at its line.

**What makes each component correct**

- Row: a close keeps the kind it was made with; each death costs one epoch; a
  Stop that lands leaves the run open; a write never reopens what the client
  ended.
- Handshake: `pending` is always the hook's attempt; an overflowed run stays so.
- Closer: nothing it does is credited to an activation that has ended; an open
  run carries no backoff; every run that stays dead is settled in the end.
- Provenance: no write is lost to triage.
- Erasure: no user content comes back on the row.
- Commitments: the audit trail replays the status; nothing is left to the
  database's own checks to refuse; a lost compare-and-set is retried without a
  second event.
- Memory chain: a memory is closed once and every chain ends in a valid memory;
  no supersede, create or archive strands a live obligation.
- Facts and quota: one current value per key, whatever order overlapping writes
  commit in; creations at the same time never pass the quota; no cycle of waits.
- Proposals: what the queue says of a proposal is what has become of it; a fact
  proposal becomes one fact, of a source that is live.
- Forgetting pass: nothing is put to the judge again before it has changed; a
  judgment that went stale is neither staged nor applied; a proposal is decided
  once, and what was accepted was applied.
- Budget: a call is admitted only if what was billed or promised before it leaves
  room; a memory that was acknowledged gets its vector or leaves a trace.
- Credentials: a code yields one pair and a refresh token one successor; nothing
  outlives an erasure; a reset ends the sessions it sees and is not overwritten.
- Signup: a link activates the password of the browser it was made for, and none
  outlives the activation.

## 2. Plan

1. **Session runs** (done): `SessionLease` < `SessionRow` < `SessionRun` <
   `SessionRunLive`; abstract specification `RunActivation`; proofs in
   `SessionRunProofs`.
2. **Commitments and the memory chain** (done, except for what follows):
   `RowLocks`, `CommitmentFsm` < `MemoryChain`; abstract specification
   `CommitmentAudit`; proofs in `MemoryChainProofs`.
3. **What the memory writes share** (done): `MemoryWrites` - content hash, quota,
   facts, fact proposals; `ReviewQueue` over `CommitmentFsm` - resolution
   proposals; proofs in `MemoryWritesProofs` and `ReviewQueueProofs`.
4. **Usage budget** (done): `MeteredCalls`, with the embed task it meters; proofs
   in `MeteredCallsProofs`.
5. **Credentials** (done): `Credentials`, composed with erasure; abstract
   specification `GrantFamilies`; `Signup`; proofs in `CredentialsProofs` and
   `SignupProofs`.
6. **Forgetting pass** (done): `ForgettingPass`, proofs in `ForgettingPassProofs`.
7. **Every invariant and action property of a passing run, and the three
   refinements, as theorems** (done): section 5.
8. **LockOrder**: erasure, attributed writes, heartbeat and attach as lock
   sequences over `RowLocks`. (Erasure takes memories, then commitments, then
   sessions; an attributed write takes its session first.)
9. Smaller: the status of edge proposals, two open runs of one project (`attachSingleOpen`), several
   runs under the sweep's batch limit, the Go Stop hook composed with the
   handshake, the windows of the rate limiter.

## 3. Modules

| module | what it is |
|---|---|
| `SessionLease` | the clock arithmetic shared by every path: `isLeased`, `isExplicitClose`, `sweepFloor`, `monotonicLastSeen` |
| `SessionRow` | the columns, and one operator per SQL statement, from the row Postgres holds locked to the row it leaves |
| `SessionRun` | the processes: who runs which statement, when, on which stale observation; the safety properties |
| `RunActivation` | abstract: numbered activations; a debrief only between the end of one and the start of the next |
| `SessionRunLive` | `SessionRun` with the worker's fairness and finitely many faults; the liveness property |
| `SessionRunProofs` | the two inductive invariants and the theorems |
| `MCSessionRun`, `MCSessionRunLive` | model values and symmetry for TLC |
| `RowLocks` | Postgres row locks: the four modes, what conflicts, who would have to wait |
| `CommitmentFsm` | `COMMITMENT_TRANSITIONS` and `canTransition` of `packages/schema` |
| `CommitmentAudit` | abstract: statuses move along the machine, one event each |
| `MemoryChain` | memories, the commitments on them and the transactions of the clients that create, transition, expire, revise, apply and archive |
| `MemoryWrites` | what the memory writes of a tenant share: the live-hash slot, the quota, the fact timelines, the fact proposals |
| `ReviewQueue` | resolution proposals over one commitment: staging by closer passes, accepts, rejects (extends `CommitmentFsm`) |
| `ForgettingPass` | the memories of one tenant, the passes that judge them and the reviews of what they stage |
| `MeteredCalls` | one user's budget and the calls it meters, memory embedding among them |
| `Credentials` | the credentials of one account, what issues and what revokes them, the two advisory locks |
| `GrantFamilies` | abstract: a code is redeemed once, into one refresh token, replaced by one successor at a time |
| `Signup` | an address that several people sign up for: passwords, links and proofs, the verification lock |
| `MemoryChainProofs`, `MemoryWritesProofs`, `ReviewQueueProofs`, `ForgettingPassProofs`, `MeteredCallsProofs`, `CredentialsProofs`, `SignupProofs` | the inductive invariant of each and its theorems |
| `MCMemoryChain`, `MCMemoryWrites`, `MCReviewQueue`, `MCForgettingPass`, `MCMeteredCalls`, `MCCredentials`, `MCSignup` | symmetry and values for TLC |

### Session runs

**Granularity.** A transaction that takes the row lock before it decides is one
action (open, close, begin, complete, the slow halves of heartbeat and attach,
each statement of the closer). Where the code decides on an unlocked read and
writes later, there are two actions and a program counter: `StopProbe` /
`StopFast` / `StopSlow` (`heartbeatSession`), `AttachProbe` / `AttachBeat` /
`AttachLocked` / `AttachRefused` (`attachKnownRun`), `SweepSelect` / `SweepClose`
/ `SweepList` / `SweepTtlSelect` / `SweepTtlExpire` (the sweep job), and
`JobStart` ... `PassFinish` (a closer pass, one action per transaction or model
call). `PassThrow`, `PassRecord`, `PassRecordFails`, `JobRetry` and `WorkerCrash`
are the job harness of `queues.ts`: a throw is retried, the last one records a
failure on the row, recording may itself fail, and a stalled or orphaned job is
delivered again - two passes may run the same job.

**Time.** `clock` is the wall clock. A handler captures `now` in its process
before its transaction runs, so an action takes any `now` of the last
`MaxInFlight` ticks, and `Tick` waits for a request that is already that old.
`InFlightAssumption` takes `MaxInFlight <= Grace`: no request outlives the hour
of `SESSION_SWEEP_GRACE_MS`. A request that did could heartbeat a swept close
into reading as explicit. A failure is recorded with a `now` that may be any
earlier instant, because a pass may run for long.

**Data.** Of the excerpt, whether it is absent, text or redacted; of the briefed
memories, whether there are any; events and attempt ids are model values and
naturals. A walk over events returns at most `Ceiling` ids and the model lets
the truncation keep any. The turn and elapsed-time thresholds of the debounce
are one boolean input; the model call is its outcome (how many candidates it
resolves, whether it stages proposals).

**Left out of SessionRun.** More than one tenant, project or run (so the batch
limits and the choice between open runs); the 409 on start-up parameters that
differ; the re-lock loop of attach (`MAX_ATTACH_LOCK_ATTEMPTS`) which only fires
when erasure moves a project; the triage attempt log; the budget reservation
around the model call; the closer's kill switch. A throw of the pass's first
read is covered by the throw at its next step, as nothing changed in between.

### Memories and commitments

**State.** `mem` is the `memories` table (born, kind, archived, closed = `valid_to`
set, and the edges that supersede or update it); `com` is `commitments` (the
memory it rides, its status; "none" for a row not there yet); `held` the row
locks; `tx` each client's transaction, that is, where it is and what it has read.
Three history variables serve the properties: `trail`, the status the events of a
commitment replay to; `reopened`, the commitments somebody reopened on a memory
that was closed or about to be; `backstop`, what the trigger or the unique index
has had to refuse.

**Granularity.** READ COMMITTED: an unlocked read sees what has committed. A
transaction is one action per statement that may wait for a lock or whose result
may go stale before it is used, and all of its writes are in its last action,
which is when others see them. Rows it will write are locked from the statement
that writes them, so nobody else's decision under a lock is missed.

| code | actions |
|---|---|
| `writeMemory` | `Remember` |
| `createCommitment` | `CreateCheck` (parent `FOR SHARE`), `CreateInsert` |
| `applyTransition`, `transitionCommitment` | `TransitionRead`, `TransitionMemory` (the transaction's read of `memory_id`), `TransitionUpdate` (the compare-and-set), `TransitionCommit` (the event), `TransitionLost`, `TransitionReread` |
| `resolveForClosedRun` | `StampedRead`, then the same with `stamped` (the read locks the row), `StampedFenced` |
| `sweepCommitments` | `SweepExpire` (one row at a time), `SweepCommit` |
| `reviseMemory`, `carryCommitment` | `ReviseClose`, then one of `CarryFinish`, `CarryPromote`, `CarryMove`, `CarryResolve` |
| `materializeEdgeIn`, `carryOrResolvePredecessorCommitment` | `ApplyLock`, then `CarryFinish`, `CarryMove` or `CarryResolve` |
| `archiveMemoryIn` | `ArchiveLock`, `ArchiveJudge` (disposition policy only), `ArchiveWrite` |
| a constraint, a lost connection, a deadlock | `Rollback` |

The foreign key of an event asks for a key share on the memory it names
(`TransitionCommit`, `SweepCommit`), which a plain UPDATE of the memory admits
and a `FOR UPDATE` does not.

**Left out of MemoryChain.** Content, filing and facts, hence the live-hash slot
and the quota (see `MemoryWrites`); the archive of a blocker, move and reaffirm;
imports; the redaction by erasure. Which live commitments are overdue is any set
of them. An apply takes its two row locks at once, so the model does not show two
applies that wait for each other. The epoch check of a stamped resolve may fail
at any time (`StampedFenced`): when it does is the subject of `SessionRun`. Edges
that close nothing and the status of a proposal are not there.

### What memory writes share

`MemoryWrites` walks each transaction lock by lock: it waits for whoever holds
what it asks for, goes on with what is committed, and publishes its rows in
`Commit`, when its locks go too. A call brings at most `MaxRows` facts
(`MAX_FACTS_PER_WRITE`, `packages/schema/src/write.ts:202`). `WaitsFor` says whom a call waits for, from the
locks that a program counter implies; `limit` is the tenant's quota, or none.

| code | actions |
|---|---|
| `writeMemory`, `writeImportedMemory` | `Create`, `LockQuota`, `Probe` (the hash), `CountLive`, `Insert` (the unique index waits and decides), `WriteKey`, `Commit` |
| `reviseMemory` | `Revise`, `ClosePredecessor`, `Probe`, `Insert`, `Commit` |
| `writeSingleValued`, `replaceValue` | `WriteKey`, one key at a time under its advisory lock, in the order of the keys |
| `insertImportedFact` | `ImportFact` |
| `archiveMemoryIn`, `archiveBlockerMemory` | `Archive` |
| `applyFactProposal`, its claim and its fact | `ApplyFactProposal`, `LockLiveSource`, `Claim`, `WriteKey`, `Commit` |
| `rejectFactProposal` | `RejectFactProposal` |
| an error or a crash | `Abort` |

Rows of a call are sorted by `byStart`: an implicit start is the start of the
transaction, after an explicit one of that instant. Rows with a `validTo` of their
own coexist with others and take no part. What a value is, who the subject is and
what a memory says are left out.

### The review queue

`ReviewQueue` follows one commitment. A pass of the closer judges it where it is,
looks again in the transaction that stages (`Look`, `Stage`), and may be retried
or belong to another run. An accept is a claim in a transaction of its own
(`ClaimProposal`), the read of the commitment and the compare-and-set loop
(`ReadCommitment`, `Decide`, `Write`), and, when that fails (`Fails`, whose answer
may be lost after the commit), the compensation (`Reopen`). `Dies` is a server
that stops in between. Everybody else transitions the commitment and carries it.

### The forgetting pass

A pass reads stale memories (`ReadSingles`) and similar pairs with the newer
neighbours of each (`ReadPairs`), makes items of them, and then, batch by batch,
asks the judge (`JudgeBatch`, which answers anything that the item's choices
allow, or nothing), locks what the verdicts name `FOR SHARE` (`LockNamed`) and
stages those whose memories are all live (`InsertVerdicts`). `PassStops` is
whatever ends it early: an opt-out, the budget, the gateway, a crash. A retry of
the job is another member of `Passes`, and so is a second run that overlaps.

| code | actions |
|---|---|
| `staleSingles`, `conflictPairs`, `newerNeighbours`, `buildItems` | `ReadSingles`, `ReadPairs` |
| `batchItems`, `judgeBatch`, `verdictsFromAnswers` | `JudgeBatch`, `NoMoreItems` |
| `insertRetentionProposals` | `LockNamed`, `InsertVerdicts` |
| `acceptRetentionProposal` | `LockMemories`, then `CommitAccept` or `ReviewFails` |
| `decideRetentionProposal` from a reject | `RejectProposal` |
| reaffirm, move, archive, revise, remember | `TouchMemory`, `ArchiveMemory`, `ReviseMemory`, `Remember` |

A proposal carries `judged`, the memories its item was about, and a pass `saw`,
the proposals that were there at its first read: both, like `answered` and `by`,
are there for the properties. `created` is the start of the transaction that
stages, not its end. All memories are of one type, a blocker or not. Left out: the
walk over the tenants, the caps on candidates and neighbours, edges and
consolidation proposals (which only settle more pairs), the commitments on a
memory (an archive refused for one is `ReviewFails`; a supersede carries them as
in `MemoryChain`), imports. The neighbours are read with the pairs, although the
code reads them in a third statement.

### Metered calls

A call goes through `reserveBudget` in four steps: `ReserveBegin` fixes `now()`,
`ReserveSum` takes the advisory lock and sums the logged usage, `ReserveHolds`
sums the reservations in a statement of its own, `Admit` or `Refuse` decides.
Then `Send`, `Record` (or its failure), for an embedding the vector or the failure
event, and `Release`. A lookup that fails lets the call through (`FailOpen`); the
provider, the accounting and the process may fail at every step. `PreCheck` is the
unlocked look before a write is accepted. `SetUserBudget`, `SetBudgetWindow` and
`SetTierCap` change the cap and the window under all of it; a reservation stops
counting after `TTL`. The cost of a call is a number of cents up to its worst
case, and a row without a price counts as `Fallback`. Left out: warnings, the
account page, the closer's kill switch.

### Credentials

Each request guards itself under `account_lifecycle` and inserts what it issues
(`GuardIssuance`, `InsertSession`, ...), or redeems a code or a refresh token
(`ConsumeOauthCode`, `ResolveRefresh`, then `GuardTokens` and the insert or the
rotation under the lock); reset and change of the password verify first and swap
under `auth_reset_password` (`PeekResetToken`, `VerifyCurrent`, then `...Begin`,
`...Commit`: the sweep of the other credentials sees what its statement saw).
Erasure takes both locks. A revocation of a client and the collection of idle
clients take neither. `GrantFamilies` promises what a family of tokens may do; the
mapping recovers the stage of a family from the rows and from which code each pair
came of. Left out: scopes, PKCE, redirect URIs and signatures (one refusal),
which of several clients is the most recent (any), registration.

### Signup

`Signup` models `requestSignup` with its three ways (create, race, retry),
`auth_retry_unverified_signup`'s compare-and-set and the loop around it,
`auth_resend_email_verification` and `auth_verify_email`, each under
`auth_verify_email`'s lock, and the password reset, which is under another.
Passwords are named for the request that brought them, or for the mailbox. Left
out: the mail itself, throttling, the provisioning of a new account.

## 4. Runs

Bounds are constants of the modules: `MaxTime`, `MaxEpoch`, `MaxAttempts`,
`MaxFailures`, `MaxInFlight`, and `MaxFaults` in `SessionRunLive`.
`CHECK_DEADLOCK FALSE` everywhere because the bounds stop the clock, the epoch,
the attempt counter and the supply of requests, and with them the system; the
code has no terminal state. Symmetry is used in safety runs only.

| run | question | bounds and why they suffice |
|---|---|---|
| lifecycle | do the lease, the two kinds of close and the epoch survive open/close/Stop/write/sweep racing with captured clocks? | `Lease = 2`, `Grace = 2`, requests up to 2 ticks old, 5 ticks: a whole lease and grace can lapse under a straggler that saw the run leased; 3 epochs |
| closer | is a closer ever current for an open run, does SessionRun implement RunActivation, does a backoff or erased content outlive its activation? | two passes on one job or on two epochs, which record a failure at their first throw (retries are in `handshake`); a Stop with an excerpt, an open with a briefing and an erasure between any two steps; `Lease = Grace = 1`, 2 ticks, 2 epochs, 2 claims, 2 failures |
| handshake | do tokens cross between hook and closer, is a write lost, is overflow terminal? | two events against a ceiling of one (truncation), lost answers, two attempts, a writer and a pass |
| liveness | is every dead run settled? | one fault at any step, one backoff, one write, two activations; attempt ids enough that the bound never stops a pass |
| carry | is any obligation stranded, or left to the database to refuse? does an archive spare a live one? does a chain end, and does the event log replay to the row? | two clients: each hazard is a pair of transactions; two memories (a predecessor and its successor, or each the other's), two commitments (one on each, so that a carry can collide), two tries of the compare-and-set; longer chains are covered by the proofs |
| writes | one current value per key, no quota overrun, one fact per accepted proposal, no cycle of waits? | two calls (each race is a pair; a cycle of three is out of its reach), two memories that are there, three contents, two keys in either order, series of two with explicit and implicit starts on both ticks, one proposal, a quota of two or none |
| queue | is what the queue says of a proposal what has become of it? | three passes of two runs (so one is a retry), two reviewers, one carry, three tries of the compare-and-set |
| forgetting | is a proposal decided twice, staged or applied over what is gone, or a memory judged again before it changes? | two passes that overlap and two accepts, each race being a pair; two memories, the second of which may be born meanwhile, similar to one another; three instants against a window of zero days; batches of one; blockers or not |
| budget | is a call admitted only within the cap? does a memory lose its vector silently? | two calls and two memories (a revise), one cap besides the default, one window, one tick against a TTL of one, every fault |
| budget_ceiling | the finding below | expected violation |
| credentials | does a credential outlive an erasure, or a session its password? is a change overwritten, the limit passed, a token used twice? | three requests in flight over one credential that is there, two clients against a limit of one, three passwords, crashes |
| signup | whose password does a link activate, and does a link outlive the activation? | five requests (two signups, a resend, a verification and one more), two browsers, three tries, crashes |

Where ids are not used twice the sets are the bounds, and the system stops when
they run out. A cycle of waiting transactions is not a deadlock of the models of
rows either, because Postgres fails one of them (`Rollback`, `Abort`); that no
such cycle forms among writes is checked by `NoWaitCycle` as a property.

**Fairness (liveness only).** WF on the sweep: `upsertJobScheduler` repeats it
and each run goes through its statements. WF on each pass's steps: BullMQ
delivers queued jobs and a delivered pass steps on. SF on leaving the candidate
loop: it walks a finite list. WF on requests ending: a transaction commits or
rolls back. SF on `Tick`: the model's clock waits for requests in flight, the
real one does not. Faults of the worker are finitely many; nothing else is asked
of clients. The property excludes runs whose backoff ends beyond the model's
last instant (`Due`).

**Finding.** One comment of the source disagrees with the code: the reservation is
said to be why "concurrent near-cap requests cannot all pass and overshoot the cap"
(`packages/core/src/budget/budget.ts:171`). The decision sums the usage and then,
with a later snapshot, the reservations (`packages/db/src/budget-read.ts:192`,
`:201`); a call that logs its cost and drops its reservation between the two is
counted by neither. `AdmissionRespectsCap` states what does hold: nothing else
escapes the sum.

**Exceptions that the properties name**, each a state the code reaches:

- an unresolve may leave a live obligation on a memory that is being closed
  (`proposals-apply.ts:429`; `reopened` in `NoSilentStrand`);
- a revise of an archived memory adds one to what the quota counts
  (`revived` in `QuotaHolds`);
- the compensation of a failed accept meets the index of open proposals if a pass
  has staged another meanwhile, and the proposal stays `applied` (`displaced` in
  `DecisionsHold`); so does one whose server died, which
  `packages/core/src/admin/proposals.ts:195` documents (`cut`);
- a login that overlaps a password change may leave a session of the old one
  (`overlapped` in `SessionsMatchPassword`);
- a call fails open, or is billed and loses its accounting (`lost` in
  `AdmissionRespectsCap`); an embed task whose process dies, or whose failure
  event cannot be written, leaves no trace (`cut` in `NoSilentVectorLoss`).

**Observed on the way**, not stated as properties:

- `needs_look = false` is called a promise that no event lies outside the
  watermark (`packages/db/src/session-closer.ts:110`, `:141`). A closer's resolve
  checks the epoch under the commitment's lock, not the session's; its transaction
  can commit after the run came back and completed a triage, leaving its event
  outside the watermark with the flag down. `NoWriteLostToTriage` states what does
  hold: no event of anyone else is lost;
- rejecting a retention proposal is called "final for that memory and action, until
  the memory's freshness moves" (`docs/concepts/forgetting-pass.mdx:173`), but a
  pair is judged again when either side has moved, so a change of the newer memory
  lets a pass propose to archive the older one again;
- a filing change or a reaffirm that commits between the read of the candidates
  and the staging is older than the verdict's `created_at`: the memory is not
  judged again for it, though the judge never saw it;
- the event of a transition may name the memory that was superseded while it ran:
  the read at `packages/db/src/commitments.ts:428` takes no lock;
- a transition, a sweep or a closer's resolve holds the commitment while its
  event's foreign key waits for the memory, and an archive or an apply holds the
  memory while it waits for the commitment: a real cycle, which Postgres breaks by
  failing one of the two (`commitments.ts:455` says the resolve waits on nothing);
- a carried commitment leaves the proposals of its old memory answerable only by
  a reject, and two open ones about it are possible, one per memory;
- a proposal of facts is written nowhere but in tests (`insertFactProposals` has
  no other caller), so `MemoryWrites` starts with one;
- a reset of the password does not burn authorization codes that are under way;
- collecting clients may cascade to a code issued while the DELETE waits;
- a backdated value may overlap a window already closed, as
  `facts-write.ts:237` documents; the last conjunct of
  `OneCurrentValue` is therefore about one call.

## 5. Proofs

Each theorem holds for all values of the constants that satisfy the assumptions
its module names: any number of processes, clocks, epochs and attempts, where a
run has two or three. Every invariant and every action property of a passing run
is stated by one; TLC has checked each inductive invariant on the runs' instances
before it was proved. Sets that are counted or along which waits are followed are
assumed finite (clients, calls, standing memories), and `NULL` is assumed not to
be one of the values it stands beside; nothing is assumed of the order of events.

### Session runs

`SessionRunProofs` proves, for all constants satisfying the named assumptions
(`LeaseAssumption`, `NullAssumption`, `RowAssumption`, `PowerAssumption`,
`RunAssumption`; from `ErasureIsLast` on, whose invariant is proved as one,
`InFlightAssumption` too):

| theorem | statement |
|---|---|
| `TypeCorrect` | `Spec => []TypeOK` |
| `ClosersAreFenced` | `Spec => []PassFenced` |
| `BackoffEndsWithTheClose` | `Spec => []OpenRunHasNoBackoff` |
| `HandshakeIsTheHooks` | `Spec => []HandshakeNeverBorrowed` |
| `ActivationsAreImplemented` | `Spec => ActivationFence` (refinement of `RunActivation`) |
| `ErasureIsLast` | `Spec => []ErasureIsFinal` |
| `WritesReachTriage` | `Spec => []NoWriteLostToTriage` |
| `SweptCloseIsImplicit` | `Spec => []SweptCloseStaysImplicit` |
| `SessionEndIsDurable` | `Spec => ExplicitCloseIsDurable` |
| `StopKeepsTheRunOpen` | `Spec => StopLeavesRunOpen` |
| `DeathsAdvanceOnce` | `Spec => OneEpochPerDeath` |
| `OpenExcerptIsKept` | `Spec => OpenExcerptSurvives` |
| `OverflowStays` | `Spec => OverflowIsTerminal` |

**The argument.** None of the invariants is inductive alone: that an open run
has no backoff rests on `PassFenced` (a failure is recorded only by a pass whose
epoch is the row's, hence of a closed run), and `PassFenced` on what a step may
do to the row. The inductive invariant `IInv` is the types, the backoff's tie to
the close, `PassFenced`, `HandshakeNeverBorrowed`, and two facts nobody checks
otherwise: a closed row exists, and a sweep about to close has seen one (without
it the sweep could end a run never begun).

Each SQL statement is classified once, in a lemma about the row alone: *Legal*
(the epoch stays and the row stays, or is closed; or the epoch advances by one
and the row ends up open, or was closed and stays so; the backoff stays tied to
the close) or *Quiet* (neither epoch nor close changes); `Tokens` says a
statement leaves `pending` only where it was, under the same token. The step
lemmas (`HookStep`, `WriteStep`, `TriageStep`, `SweepStep`, `CloserStep`,
`EraseStep`, `TickStep`) say for each process which class its actions fall into;
a pass may only stop, go on at its epoch, or start at the epoch of a closed row
(`PassMoves`). Each concludes `IInv' /\ Mapped`, where `Mapped` is the step of
`RunActivation` (or the stutter) it maps to, so invariance and refinement come
from one induction.

**The second invariant.** The other theorems rest on what requests and passes may
still do with an old sight of the row. `Further` adds to `IInv`: whoever is in
flight has seen a run that is there (`BornOK`); captured clocks are of the past,
those of writes no older than `MaxInFlight`, and a write about to beat has seen
the lease it beats (`StragglersOK`); a swept row is more than a lease and the grace
behind its close (`SweptOK`); and a claim's token is its own, nor does a row that
still bears it say `overflowed` or `pending` (`ClaimsOK`).

- A swept close stays implicit because a straggler that could beat the row would
  have seen it leased at most `MaxInFlight <= Grace` ago (`BeyondReach`, the one
  place where `InFlightAssumption` is used), so `SweptOK` survives it.
- `overflowed` survives a write-back because the compare-and-set that admitted the
  claim excluded it, and whoever overflowed the run since was live in it, so that
  the epoch fences the claim out (`ClaimsKeep`, from `PassFenced`).
- No write is lost because whatever settles a run computes `needs_look` from the
  same events in the same statement (`Settled`), and whatever adds an event of
  anybody but the closer leaves the run other than `completed` (`Touched`).

Lemmas about the row alone say what each SQL statement does to the life of a run
(`Beaten`, `Begun`), its content and its triage; each step lemma then concludes
`Kept`: `Further'` and the five action properties.

`PowerAssumption` states that the powers of two the schedule uses are naturals:
the provers know nothing of `^`. TLC evaluates it on every run.

### Memories and commitments

`MemoryChainProofs` proves every property that `carry` checks, for any
sets of clients, memories and commitments and any number of attempts
(`ChainAssumption`):

| theorem | statement |
|---|---|
| `TypeCorrect` | `Spec => []TypeOK` |
| `TriggerIsBackstop` | `Spec => []FsmBackstopNeverFires` |
| `CarryIsCollisionFree` | `Spec => []CarryNeverCollides` |
| `BackstopsRest` | `Spec => []NoWriteIsRefused` (both of the above) |
| `NothingSilentlyStranded` | `Spec => []NoSilentStrand` |
| `ChainsEnd` | `Spec => []EveryChainHasAHead` |
| `ClosedOnce` | `Spec => []OneHeir` (no run checks it) |
| `TrailReplays` | `Spec => AuditTrail` (refinement of `CommitmentAudit`) |
| `ArchiveIsGated` | `Spec => ArchiveSparesLiveObligation` |

**The argument.** What makes the properties true is that each decision is taken
under a lock that keeps it true until the write. The inductive invariant `IInv`
says so: `LocksExclude` (no two clients hold locks that conflict) and, for each
program counter, `TxOK`: the locks the client holds there and what they protect.
A client that carries, for instance, writes its predecessor, has found it valid,
and either holds the successor for update or is the only one to have reserved its
id. `RidersOK` adds that a commitment there is rides a memory there is, alone,
and that its events replay to its status.

A step is summed up by `Effect`, what it leaves alone for everybody else: rows
that others hold, riders of memories that others write, statuses that others pin.
`Bystanders` proves once that everybody else's `TxOK` survives any step with that
effect, so that each of the step lemmas (one per action) has only to establish
`Effect`, from the lock its client holds, its own `TxOK`, and the properties. The
writes that several actions share are lemmas of their own: `Closed` and its
companions for the commit of a supersede, `Begun` for a new commitment, `Moved`
for a change of status. `NoSilentStrand` needs the history `reopened` because a
carry has read the status unlocked: what it may still assume at its commit is
that its rider is not live, or has been reopened since. That no chain loses its
head is an argument about sets of closed memories, without induction on the
length of a chain: a set that holds all of its heirs cannot hold the memory just
closed, whose heir is valid, so it had that property before.
Every step lemma concludes `IInv' /\ Promised`, where `Promised` holds the step
of `CommitmentAudit` and the archive property.

### The forgetting pass

`ForgettingPassProofs` proves every property that `forgetting` checks, for any
number of passes, reviews and memories, any similarities, batch size and window
(`ForgettingPassAssumption`):

| theorem | statement |
|---|---|
| `TypeCorrect` | `Spec => []TypeOK` |
| `Decisions` | `Spec => []VerdictsHold` |
| `Rejudgments` | `Spec => []JudgedAnew` |
| `OnlyLiveAreNamed` | `Spec => NamesTheLive` |

**The argument.** `JudgedAnew` is about rows, but is decided where candidates are
read, many steps before a row is written. `SightOK` carries it from there: of
whatever the pass saw, all that it has in hand (singles, then items, then
verdicts) is judged anew. It survives everybody else's steps because they only go
`Onward`: a row keeps what it says, none is opened again, and freshness moves
forward (`AnewKept`). That a pass stages one verdict at most on a memory is
`FreshOK`. `NamesTheLive` and the effects of an accept rest on locks instead:
`ShareOK` and `ReviewOK` say that what was found live under a lock still is, and
`LocksOK` that nobody else can have locked it to write. Each step lemma concludes
`IInv' /\ NamesLive`, the second being the step of `NamesTheLive`.

### What memory writes share

`MemoryWritesProofs` proves every property that `writes` checks, for any number of
calls, memories, keys, contents and proposals, any series of facts and any quota
(`MemoryWritesAssumption`):

| theorem | statement |
|---|---|
| `TypeCorrect` | `Spec => []TypeOK` |
| `OneValueIsCurrent` | `Spec => []OneCurrentValue` |
| `DecidesOnce` | `Spec => []OneFactPerDecision` |
| `KeepsQuota` | `Spec => []QuotaHolds` |
| `NoDeadlock` | `Spec => []NoWaitCycle` |

**The argument.** A program counter implies locks (`HasQuota`, `HasRow`,
`HasShare`, `HasProposal`, `HasKey`); `LocksApart` says that nobody shares them and
`LocksMean` what they protect: the predecessor of a revise is live, the source of
an apply counts, its proposal is open. A timeline is not written at once: a call
collects in `out` what it will publish. `TimelinesOK` therefore says of each key
that its timeline is good both as it is and as whoever holds the key would leave
it (`Over`), and it is inductive only with `Covered`: every value lies below a
current one that starts no earlier, so that a late row knows what ends it. A step
of `WriteKey` is proved on the timeline of one key (`WrittenOneOpen`,
`WrittenCovered`, `WrittenDisjoint`), and `Commit` then publishes rows that
concern only keys it holds. The quota is a count: past its check a call is the only
one that may add to it, so strictly less than the quota is there until it commits.

`NoDeadlock` is for any number of calls, where TLC sees two: of any set of calls,
one waits for none of them. Whoever is waited for is further on than who waits, in
the order quota, rows and sources, then inserts, claims, keys; so it is enough to
look at those of the set that are furthest. At the keys, each waits for one that is
after a greater key, because a call takes its own in ascending order (`CourseOK`),
and a finite set has one at the greatest. At the inserts, a revise holds its
predecessor's slot while it waits at the index itself: `InsertsOK` says that any
set of calls there has one that no other of them makes wait.

### The review queue

`ReviewQueueProofs` (`ReviewQueueAssumption`): `TypeCorrect` and `DecisionsStand`,
`Spec => []DecisionsHold`, for any number of passes, runs and reviewers. The claim
is the whole argument: an applied proposal either has exactly one reviewer still
busy with it (`ClaimOK`, `ClaimsApart`) or is over, that is settled, cut or
displaced, and what is not applied is not over (`FateOK`); hence a compensation
reopens only what nobody has settled. The two unique indexes are in the type
invariant, because a compensation is refused by the second.

### Metered calls

`MeteredCallsProofs` (`BudgetAssumption`), for any number of calls, any caps,
windows, costs and faults:

| theorem | statement |
|---|---|
| `TypeCorrect` | `Spec => []TypeOK` |
| `NoVectorIsLostSilently` | `Spec => []NoSilentVectorLoss` |
| `AdmitsWithinCap` | `Spec => AdmissionRespectsCap` |

**The argument.** What an admission compares is a sum of sets of calls; what the
property compares it with is the calls that were billed or promised. `SpendOK` says
that a call costs nothing before it is sent, at most its estimate after, and is
reserved, logged or lost until then; `DecisionOK` that whoever decides holds the
advisory lock, has in sight every log in its window except what was logged while it
asked (`during`), and, once it has read the reservations, every one still active.
So the calls that the property counts are among those that the decision has
counted, and the sum is compared as the cardinality of a finite set of cents
(`Cents`). `during` is what the finding of section 4 shows can be missed.

### Credentials

`CredentialsProofs` (`CredentialAssumption`) proves every property that
`credentials` checks, for any number of requests, clients and passwords and any
limits:

| theorem | statement |
|---|---|
| `TypeCorrect` | `Spec => []TypeOK` |
| `ErasureEndsCredentials` | `Spec => []NothingSurvivesErasure` |
| `OldSessionsEnd` | `Spec => []SessionsMatchPassword` |
| `ChangesWhatItVerified` | `Spec => NoPasswordIsOverwritten` |
| `KeepsLimit` | `Spec => LimitHolds` |
| `ImplementsFamilies` | `Spec => GrantFamiliesHold` (refinement of `GrantFamilies`) |

**The argument.** Requests between their guard and their commit hold a lock and
have found the account alive under it (`RequestOK`), so erasure, which takes both
locks, sees whatever they issue. An issuance that has counted knows a bound that
holds until it commits, as nobody else can add (`CountOK`). A change of password
knows the password it replaces and, but for the sessions issued while it ran
(`overlapped`), every session it will end (`SwapOK`). The refinement needs that
whoever redeems a code is alone with it (`RedeemersApart`), that a code is granted
only once redeemed (`CodesOK`) and that a family has one token that is not revoked
(`OneHead`); each commit then maps to the redemption, the rotation or the
revocation of one family, and every other step to a stutter.

### Signup

`SignupProofs` (`SignupAssumption`): `TypeCorrect`; `LinksEnd`,
`Spec => []NoLinkOutlivesVerification`; `ActivatesOwn`,
`Spec => ActivatesOwnPassword`, for any number of requests, browsers and tries. The
invariant is `LinksOwn`: while the account is unverified, every link not consumed
was made for the proof that its password came with, or the password is the
mailbox's own. It holds because the compare-and-set that replaces the password and
the burning of the older links commit together under the lock, and a request about to
mint has found the password its own under that lock (`RequestOK`).

### What is not proved

**Model-checked only.** `EveryDeathIsTriaged`: liveness under fairness is out of the
prover's reach, as is ENABLED. The finding is a counterexample, and TLC's. That the
sums and the backoff schedule are what the SQL computes rests on their definitions:
the provers know nothing of `^` and cannot do induction over data. The types of
`SessionRun`, `MemoryChain` and `ForgettingPass` are proved, so no run repeats them.

Every property of a passing run has a mutant in PROJECT.json: an operator of the
model replaced by a plausible slip of the code (a dropped guard, a missing
floor, an off-by-one), under which TLC finds the property violated.

## 6. Not modelled

- Search and ranking: SQL over real-valued scores.
- The LLM gateway, configuration, telemetry and evaluation: adapters, pure
  configuration, offline evaluation.
- The REST and MCP transports, the CLI and the SDK, which are most of the
  repository's lines: validation and error mapping over the core, no state of
  their own.
- The rate limiter: the counting is a library's.
- The Go hook: the models let its calls come in any order, so it needs no model of
  its own for the properties stated here.
- Of the components that are modelled: what each subsection above names as left
  out. Lists with their pages, exports and read models change no state.

Items 8 and 9 of section 2 are planned and not yet written.
