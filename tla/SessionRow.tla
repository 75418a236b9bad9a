----------------------------- MODULE SessionRow -----------------------------
(***************************************************************************)
(* One agent_sessions row and what each SQL statement of packages/db does  *)
(* to it.  A statement is an operator from the row Postgres holds locked   *)
(* to the row it leaves; who runs it, when, and on which stale observation *)
(* is the business of SessionRun.                                          *)
(*                                                                         *)
(* Kept of the row: the lease, the activation epoch, the triage columns,   *)
(* the closer backoff, and of its user content whether there is any        *)
(* (briefedMemories, lastMessageExcerpt).  An event id is a member of      *)
(* EventIds; a triage attempt id is a natural.                             *)
(***************************************************************************)
EXTENDS SessionLease, FiniteSets

CONSTANTS
  EventIds,       \* ids of memory_events rows that may carry this run's id
  Ceiling,        \* MAX_SESSION_EVENT_IDS
  MinAttemptAge,  \* thresholds.minAttemptAgeMs
  MaxFailures     \* bound on closer_failure_count (a counter in the code)

ASSUME RowAssumption ==
  /\ Ceiling \in Nat
  /\ MinAttemptAge \in Nat
  /\ MaxFailures \in Nat
  /\ NULL \notin {"text", "erased"}

MAX_BACKOFF_EXPONENT == 32

(* Evaluated by TLC on the bounded counter; the provers know nothing of ^. *)
ASSUME PowerAssumption ==
  \A k \in 0..MaxFailures : 2^Least(k, MAX_BACKOFF_EXPONENT) \in Nat

Statuses == {"idle", "pending", "completed", "expired", "overflowed"}

(* lastMessageExcerpt: SQL NULL, the turn's text, or the erasure sentinel. *)
Excerpts == {NULL, "text", "erased"}

Row ==
  [ activationEpoch     : Nat,            \* 0: the row does not exist
    closedAt            : Instant \cup {NULL},
    lastSeenAt          : Instant,
    triageStatus        : Statuses,
    triageAttemptId     : Nat \cup {NULL},
    triageArmedAt       : Instant \cup {NULL},
    lastTriagedEventIds : SUBSET EventIds,
    needsLook           : BOOLEAN,
    closerFailureCount  : 0..MaxFailures,
    closerNextAttemptAt : Instant \cup {NULL},
    briefedMemories     : BOOLEAN,        \* is the briefed list non-empty
    lastMessageExcerpt  : Excerpts ]

NoRow ==
  [ activationEpoch     |-> 0,
    closedAt            |-> NULL,
    lastSeenAt          |-> 0,
    triageStatus        |-> "idle",
    triageAttemptId     |-> NULL,
    triageArmedAt       |-> NULL,
    lastTriagedEventIds |-> {},
    needsLook           |-> FALSE,
    closerFailureCount  |-> 0,
    closerNextAttemptAt |-> NULL,
    briefedMemories     |-> FALSE,
    lastMessageExcerpt  |-> NULL ]

Exists(row) == row.activationEpoch # 0

Closed(row) == row.closedAt # NULL

ExplicitlyClosed(row) == isExplicitClose(row.closedAt, row.lastSeenAt)

(* What the hook paths and attachSingleOpen call live.                     *)
Live(row, now) == ~Closed(row) /\ isLeased(row.lastSeenAt, now)

-----------------------------------------------------------------------------
(* Run events.  A walk returns at most Ceiling ids; which ones survive the *)
(* truncation is the order of uuidv7 ids, here any.                        *)

Truncated(events) == Cardinality(events) > Ceiling

Listings(events) ==
  IF Truncated(events)
  THEN {ids \in SUBSET events : Cardinality(ids) = Ceiling}
  ELSE {events}

Untriaged(row, events) == events \ row.lastTriagedEventIds

hasUntriagedSessionEvent(row, events) == Untriaged(row, events) # {}

settleNeverFlags(row, events) == [row EXCEPT !.needsLook = FALSE]

settleNeedsLook(row, events) ==
  [row EXCEPT !.needsLook = hasUntriagedSessionEvent(row, events)]

-----------------------------------------------------------------------------
(* session-lifecycle.ts                                                    *)

BackoffReset(row) ==
  [row EXCEPT !.closerFailureCount = 0, !.closerNextAttemptAt = NULL]

(* briefingStamp: a request that omits briefedMemories stamps nothing; an  *)
(* empty list is a stamp of an empty list.                                 *)
Stamps == {"omitted", "empty", "listed"}

briefingStamp(row, stamp) ==
  IF stamp = "omitted" THEN row
  ELSE [row EXCEPT !.briefedMemories = (stamp = "listed")]

insertSession(stamp, now) ==
  briefingStamp([NoRow EXCEPT !.activationEpoch = 1, !.lastSeenAt = now],
                stamp)

ReopenedUnfenced(row, now) ==
  BackoffReset([row EXCEPT !.closedAt = NULL,
                           !.lastSeenAt = monotonicLastSeen(@, now)])

(* The reopening every path shares: clear the close, floor the lease,      *)
(* advance the fence, drop the backoff earned by the last activation.      *)
Reopened(row, now) ==
  BackoffReset([row EXCEPT !.closedAt = NULL,
                           !.lastSeenAt = monotonicLastSeen(@, now),
                           !.activationEpoch = @ + 1])

(* openSession on an existing row, parameters agreeing.                    *)
reopens(row, now) == Closed(row) \/ ~isLeased(row.lastSeenAt, now)

openSession(row, source, stamp, now) ==
  LET beat == [row EXCEPT !.lastSeenAt = monotonicLastSeen(@, now)]
  IN  CASE reopens(row, now) /\ source = "startup" ->
             briefingStamp(Reopened(row, now), stamp)
        [] reopens(row, now) /\ source = "resume"  -> Reopened(row, now)
        [] ~reopens(row, now) /\ source = "resume" ->
             [beat EXCEPT !.activationEpoch = @ + 1]
        [] OTHER -> beat

closeSession(row, now) ==
  IF Closed(row) THEN row ELSE [row EXCEPT !.closedAt = now]

(* The Stop snapshot is dropped, not written, on a tombstoned account.     *)
excerptUnguarded(row, excerpt, tombstoned) ==
  IF excerpt THEN [row EXCEPT !.lastMessageExcerpt = "text"] ELSE row

excerptPatch(row, excerpt, tombstoned) ==
  IF excerpt /\ ~tombstoned
  THEN [row EXCEPT !.lastMessageExcerpt = "text"]
  ELSE row

(* Which rows the fast path's UPDATE matches.                              *)
onlyOpenMatchesAny(row) == TRUE
onlyOpenMatches(row) == ~Closed(row)

refreshLease(row, excerpt, tombstoned, now, resurrect) ==
  excerptPatch(IF resurrect
               THEN Reopened(row, now)
               ELSE [row EXCEPT !.lastSeenAt = monotonicLastSeen(@, now)],
               excerpt, tombstoned)

-----------------------------------------------------------------------------
(* session-provenance.ts                                                   *)

(* rearmTriage and flagNeedsLook: both read the old status.                *)
Rearmed(row) ==
  IF row.triageStatus = "completed"
  THEN [row EXCEPT !.triageStatus = "idle", !.needsLook = TRUE]
  ELSE row

(* The attach heartbeat has no predicate on closed_at.                     *)
heartbeat(row, now) ==
  Rearmed([row EXCEPT !.lastSeenAt = monotonicLastSeen(@, now)])

resurrect(row, now) == Rearmed(Reopened(row, now))

-----------------------------------------------------------------------------
(* session-triage.ts: the Stop handshake.                                  *)

(* evaluateTriageEntry, the decline reasons by name.  substantial stands   *)
(* for the turn and elapsed-time thresholds.                               *)
AttemptFresh(row, stopHookActive, now) ==
  /\ ~stopHookActive
  /\ row.triageArmedAt # NULL
  /\ now - row.triageArmedAt < MinAttemptAge

evaluateTriageEntry(row, events, substantial, stopHookActive, now) ==
  LET untriaged == hasUntriagedSessionEvent(row, events)
  IN  CASE ~Live(row, now) -> "not-live"
        [] Live(row, now) /\ row.triageStatus = "overflowed" -> "terminal"
        [] Live(row, now) /\ row.triageStatus = "pending" ->
             IF AttemptFresh(row, stopHookActive, now)
             THEN "pending-fresh" ELSE "pending"
        [] OTHER ->
             IF row.triageStatus # "idle" /\ ~untriaged THEN "no-signal"
             ELSE IF untriaged \/ substantial THEN "arm" ELSE "debounce"

(* armAttempt: an overflowing run is terminal and keeps token and          *)
(* watermark; otherwise the watermark is everything visible at begin.      *)
armAttempt(row, attemptId, listing, truncated, armedAt) ==
  IF truncated THEN [row EXCEPT !.triageStatus = "overflowed"]
  ELSE [row EXCEPT !.triageStatus = "pending",
                   !.triageAttemptId = attemptId,
                   !.triageArmedAt = armedAt,
                   !.lastTriagedEventIds = listing]

(* The fence of complete: the status and the token, never the epoch.       *)
AttemptCurrent(row, attemptId) ==
  row.triageStatus = "pending" /\ row.triageAttemptId = attemptId

completionStatus(row, listing, truncated, defensive) ==
  IF truncated THEN "overflowed"
  ELSE IF defensive \/ listing \subseteq row.lastTriagedEventIds
       THEN "expired" ELSE "completed"

completeSessionTriage(row, events, listing, defensive) ==
  LET status == completionStatus(row, listing, Truncated(events), defensive)
      stamped == [row EXCEPT !.triageStatus = status,
                             !.lastTriagedEventIds =
                               IF defensive THEN @ ELSE listing]
  IN  settleNeedsLook(BackoffReset(stamped), events)

-----------------------------------------------------------------------------
(* session-closer.ts: the sweep, the claim and the fenced write-backs.     *)

Sweepable(row, now) == ~Closed(row) /\ row.lastSeenAt < sweepFloor(now)

sweepExpiredLeases(row, now) == [row EXCEPT !.closedAt = now]

abandonedIsIneligible == {"idle", "expired"}

CLOSER_ELIGIBLE_STATUSES == {"idle", "pending", "expired"}

closerCandidatePredicate(row, events, now) ==
  /\ Exists(row)
  /\ Closed(row)
  /\ row.triageStatus # "overflowed"
  /\ row.triageStatus # "completed" \/ row.needsLook
  /\ row.triageStatus # "completed" \/ hasUntriagedSessionEvent(row, events)
  /\ row.closerNextAttemptAt = NULL \/ row.closerNextAttemptAt <= now

claimAdmitsAll(row, epoch, observed) ==
  /\ row.activationEpoch = epoch
  /\ Closed(row)
  /\ row.triageAttemptId = observed

claimAdmits(row, epoch, observed) ==
  /\ row.activationEpoch = epoch
  /\ Closed(row)
  /\ row.triageAttemptId = observed
  /\ row.triageStatus \in CLOSER_ELIGIBLE_STATUSES \cup {"completed"}

claimLeavesPending(row, attemptId) == [row EXCEPT !.triageAttemptId = attemptId]

(* The claim retires an abandoned handshake.                               *)
claimSessionTriage(row, attemptId) ==
  [row EXCEPT !.triageAttemptId = attemptId,
              !.triageStatus = IF @ = "pending" THEN "expired" ELSE @]

finishIgnoresEpoch(row, epoch, attemptId) == row.triageAttemptId = attemptId

finishAdmits(row, epoch, attemptId) ==
  /\ row.activationEpoch = epoch
  /\ row.triageAttemptId = attemptId

finishSessionTriage(row, events, status, listing, clearExcerpt) ==
  LET stamped == [row EXCEPT !.triageStatus = status,
                             !.lastTriagedEventIds = listing,
                             !.lastMessageExcerpt =
                               IF clearExcerpt THEN NULL ELSE @]
  IN  settleNeedsLook(BackoffReset(stamped), events)

(* The SQL computes the delay from the count BEFORE the increment.         *)
failureDelay(failureCount) ==
  Least(BackoffMax, BackoffBase * 2^Least(failureCount, MAX_BACKOFF_EXPONENT))

recordCloserFailure(row, now) ==
  [row EXCEPT !.closerFailureCount = @ + 1,
              !.closerNextAttemptAt = now + failureDelay(row.closerFailureCount)]

(* The excerpt TTL: closed rows whose lease ended before the floor; the    *)
(* second statement re-asserts only that the row is closed.                *)
ExcerptStale(row, before) ==
  /\ row.lastMessageExcerpt # NULL
  /\ Closed(row)
  /\ row.lastSeenAt < before

expirableWhileOpen(row) == row.lastMessageExcerpt # NULL

ExcerptExpirable(row) == row.lastMessageExcerpt # NULL /\ Closed(row)

expireStaleExcerpts(row) == [row EXCEPT !.lastMessageExcerpt = NULL]

-----------------------------------------------------------------------------
(* account-delete.ts: redaction in place, and one more fence.              *)

eraseAccountData(row) ==
  BackoffReset([row EXCEPT !.lastTriagedEventIds = {},
                           !.briefedMemories = FALSE,
                           !.lastMessageExcerpt = "erased",
                           !.needsLook = FALSE,
                           !.activationEpoch = @ + 1])
=============================================================================
