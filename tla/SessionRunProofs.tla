-------------------------- MODULE SessionRunProofs --------------------------
(***************************************************************************)
(* Theorems about SessionRun for every value of its constants.             *)
(***************************************************************************)
EXTENDS SessionRun, TLAPS

-----------------------------------------------------------------------------
(* What the row operators return.                                          *)

(* What one UPDATE may do to the life of a run: leave it, end it, or move  *)
(* it to the next epoch, and to reopen it is always to move it.            *)
LifeStep(old, new) ==
  \/ /\ new.activationEpoch = old.activationEpoch
     /\ Closed(new) <=> Closed(old)
  \/ /\ new.activationEpoch = old.activationEpoch
     /\ Exists(old) /\ ~Closed(old) /\ Closed(new)
  \/ /\ new.activationEpoch = old.activationEpoch + 1
     /\ ~Closed(new) \/ (Exists(old) /\ Closed(old) /\ Closed(new))

(* OpenRunHasNoBackoff, of any row.                                        *)
BackoffOK(r) ==
  /\ ~Closed(r) => r.closerFailureCount = 0
  /\ r.closerFailureCount = 0 <=> r.closerNextAttemptAt = NULL

(* A `pending` row was pending before, under the same token.               *)
Tokens(old, new) ==
  new.triageStatus = "pending" =>
    /\ old.triageStatus = "pending"
    /\ new.triageAttemptId = old.triageAttemptId

(* A legal UPDATE keeps the row a row, its life a life and its backoff     *)
(* tied to the close; a quiet one does not touch epoch or close either.    *)
Legal(old, new) ==
  /\ new \in Row
  /\ LifeStep(old, new)
  /\ BackoffOK(old) => BackoffOK(new)

Quiet(old, new) ==
  /\ new \in Row
  /\ new.activationEpoch = old.activationEpoch
  /\ new.closedAt = old.closedAt
  /\ BackoffOK(old) => BackoffOK(new)

LEMMA QuietIsLegal ==
  ASSUME NEW a, NEW b, Quiet(a, b)
  PROVE  Legal(a, b)
BY DEF Quiet, Legal, LifeStep, Closed

LEMMA QuietAfterLegal ==
  ASSUME NEW a, NEW b, NEW c, Legal(a, b), Quiet(b, c)
  PROVE  Legal(a, c)
BY DEF Quiet, Legal, LifeStep, Closed, Exists

LEMMA QuietAfterQuiet ==
  ASSUME NEW a, NEW b, NEW c, Quiet(a, b), Quiet(b, c)
  PROVE  Quiet(a, c)
BY DEF Quiet

(* What an UPDATE writes has the type of its column.                       *)
LEMMA ColumnTypes ==
  ASSUME NEW r \in Row, NEW now \in Instant
  PROVE  /\ 0 \in 0..MaxFailures
         /\ r.activationEpoch \in Nat
         /\ r.activationEpoch + 1 \in Nat
         /\ monotonicLastSeen(r.lastSeenAt, now) \in Instant
BY RowAssumption
DEF RowAssumption, Row, Instant, monotonicLastSeen, Greatest

(* A reopening lifts the row to its next activation, open and rested.      *)
LEMMA ReopenedLegal ==
  ASSUME NEW r \in Row, NEW now \in Instant
  PROVE  /\ Legal(r, Reopened(r, now))
         /\ Tokens(r, Reopened(r, now))
<1> DEFINE n == Reopened(r, now)
<1>1. n \in Row
  BY ColumnTypes, Zenon DEF Reopened, BackoffReset, Row
<1>2. /\ n.activationEpoch = r.activationEpoch + 1
      /\ n.closedAt = NULL
      /\ n.closerFailureCount = 0
      /\ n.closerNextAttemptAt = NULL
      /\ n.triageStatus = r.triageStatus
      /\ n.triageAttemptId = r.triageAttemptId
  BY DEF Reopened, BackoffReset, Row
<1> QED
  BY <1>1, <1>2 DEF Legal, LifeStep, BackoffOK, Tokens, Closed

LEMMA BackoffResetQuiet ==
  ASSUME NEW r \in Row
  PROVE  Quiet(r, BackoffReset(r)) /\ Tokens(r, BackoffReset(r))
<1>1. BackoffReset(r) \in Row
  BY RowAssumption, 0 \in 0..MaxFailures, Zenon DEF BackoffReset, Row
<1> QED
  BY <1>1 DEF Quiet, BackoffOK, Tokens, Closed, BackoffReset, Row

(* A bare lease refresh, and the stamp of a briefing.                      *)
LEMMA BeatQuiet ==
  ASSUME NEW r \in Row, NEW now \in Instant
  PROVE  LET b == [r EXCEPT !.lastSeenAt = monotonicLastSeen(@, now)]
         IN  Quiet(r, b) /\ Tokens(r, b)
<1> DEFINE b == [r EXCEPT !.lastSeenAt = monotonicLastSeen(@, now)]
<1>1. b \in Row
  BY ColumnTypes, Zenon DEF Row
<1> QED
  BY <1>1 DEF Quiet, BackoffOK, Tokens, Closed, Row

LEMMA StampQuiet ==
  ASSUME NEW r \in Row, NEW stamp
  PROVE  /\ Quiet(r, briefingStamp(r, stamp))
         /\ Tokens(r, briefingStamp(r, stamp))
<1>1. briefingStamp(r, stamp) \in Row
  BY Zenon DEF Row, briefingStamp
<1> QED
  BY <1>1 DEF Quiet, BackoffOK, Tokens, Closed, Row, briefingStamp

LEMMA TokensAfterTokens ==
  ASSUME NEW a, NEW b, NEW c, Tokens(a, b), Tokens(b, c)
  PROVE  Tokens(a, c)
BY DEF Tokens

(* The statements of session-lifecycle.ts.                                 *)
LEMMA OpenLegal ==
  ASSUME NEW r \in Row, NEW source, NEW stamp, NEW now \in Instant
  PROVE  /\ Legal(r, openSession(r, source, stamp, now))
         /\ Tokens(r, openSession(r, source, stamp, now))
<1> DEFINE beat == [r EXCEPT !.lastSeenAt = monotonicLastSeen(@, now)]
           next == openSession(r, source, stamp, now)
<1>1. CASE reopens(r, now) /\ source = "startup"
  <2>1. next = briefingStamp(Reopened(r, now), stamp)
    BY <1>1, Zenon DEF openSession
  <2>2. Legal(r, Reopened(r, now)) /\ Tokens(r, Reopened(r, now))
    BY ReopenedLegal
  <2>3. Reopened(r, now) \in Row
    BY <2>2 DEF Legal
  <2>4. /\ Quiet(Reopened(r, now), next)
        /\ Tokens(Reopened(r, now), next)
    BY <2>1, <2>3, StampQuiet
  <2> QED
    BY <2>2, <2>4, QuietAfterLegal, TokensAfterTokens
<1>2. CASE reopens(r, now) /\ source = "resume"
  <2>1. next = Reopened(r, now)
    BY <1>2, Zenon DEF openSession
  <2> QED
    BY <2>1, ReopenedLegal
<1>3. CASE ~reopens(r, now) /\ source = "resume"
  <2>1. next = [beat EXCEPT !.activationEpoch = @ + 1]
    BY <1>3, Zenon DEF openSession
  <2>2. Quiet(r, beat) /\ Tokens(r, beat)
    BY BeatQuiet
  <2>3. beat \in Row /\ ~Closed(r) /\ beat.activationEpoch + 1 \in Nat
    BY <1>3, <2>2, ColumnTypes DEF Quiet, reopens
  <2>4. next \in Row
    BY <2>1, <2>3, Zenon DEF Row
  <2>5. /\ next.activationEpoch = r.activationEpoch + 1
        /\ next.closedAt = r.closedAt
        /\ next.closerFailureCount = beat.closerFailureCount
        /\ next.closerNextAttemptAt = beat.closerNextAttemptAt
        /\ next.triageStatus = beat.triageStatus
        /\ next.triageAttemptId = beat.triageAttemptId
    BY <2>1, <2>2, <2>3 DEF Row, Quiet
  <2>6. BackoffOK(r) => BackoffOK(next)
    BY <2>2, <2>5 DEF Quiet, BackoffOK, Closed
  <2> QED
    BY <2>2, <2>3, <2>4, <2>5, <2>6 DEF Legal, LifeStep, Closed, Tokens
<1>4. CASE ~(reopens(r, now) /\ source = "startup") /\ source # "resume"
  <2>1. next = beat
    BY <1>4, Zenon DEF openSession
  <2> QED
    BY <2>1, BeatQuiet, QuietIsLegal
<1> QED
  BY <1>1, <1>2, <1>3, <1>4

LEMMA InsertType ==
  ASSUME NEW stamp, NEW now \in Instant
  PROVE  LET n == insertSession(stamp, now)
         IN  /\ n \in Row
             /\ n.activationEpoch = 1
             /\ ~Closed(n)
             /\ BackoffOK(n)
             /\ n.triageStatus = "idle"
<1> DEFINE b == [NoRow EXCEPT !.activationEpoch = 1, !.lastSeenAt = now]
<1>1. NoRow \in Row
  <2>1. 0 \in 0..MaxFailures /\ 0 \in Nat
    BY RowAssumption DEF RowAssumption
  <2> QED
    BY <2>1, Zenon DEF NoRow, Row, Instant, Statuses, Excerpts
<1>2. b \in Row
  <2>1. 1 \in Nat
    OBVIOUS
  <2> QED
    BY <1>1, <2>1, Zenon DEF Row
<1>3. /\ b.activationEpoch = 1
      /\ ~Closed(b)
      /\ BackoffOK(b)
      /\ b.triageStatus = "idle"
  BY DEF Closed, BackoffOK, NoRow
<1>4. /\ Quiet(b, insertSession(stamp, now))
      /\ Tokens(b, insertSession(stamp, now))
  BY <1>2, StampQuiet DEF insertSession
<1>5. insertSession(stamp, now).triageStatus = "idle"
  BY <1>2, <1>3 DEF insertSession, briefingStamp, Row
<1> QED
  BY <1>3, <1>4, <1>5 DEF Quiet, Closed

LEMMA CloseLegal ==
  ASSUME NEW r \in Row, NEW now \in Instant, Exists(r)
  PROVE  Legal(r, closeSession(r, now)) /\ Tokens(r, closeSession(r, now))
<1> DEFINE n == closeSession(r, now)
<1>1. n \in Row
  BY Zenon DEF closeSession, Row
<1>2. now # NULL
  BY NullAssumption DEF NullAssumption, Instant
<1> QED
  BY <1>1, <1>2
  DEF Legal, LifeStep, BackoffOK, Tokens, Closed, Row, closeSession

LEMMA RefreshLegal ==
  ASSUME NEW r \in Row, NEW excerpt, NEW dead, NEW now \in Instant,
         NEW again \in BOOLEAN
  PROVE  LET n == refreshLease(r, excerpt, dead, now, again)
         IN  /\ Legal(r, n) /\ Tokens(r, n)
             /\ ~again => Quiet(r, n)
<1> DEFINE b == IF again THEN Reopened(r, now)
                ELSE [r EXCEPT !.lastSeenAt = monotonicLastSeen(@, now)]
           n == excerptPatch(b, excerpt, dead)
<1>1. Legal(r, b) /\ Tokens(r, b) /\ (~again => Quiet(r, b))
  BY ReopenedLegal, BeatQuiet, QuietIsLegal
<1>2. b \in Row
  BY <1>1 DEF Legal
<1>3. Quiet(b, n) /\ Tokens(b, n)
  <2> HIDE DEF b
  <2>1. n = b \/ n = [b EXCEPT !.lastMessageExcerpt = "text"]
    BY Zenon DEF excerptPatch
  <2> HIDE DEF n
  <2>2. CASE n = b
    BY <1>2, <2>2 DEF Quiet, Tokens
  <2>3. CASE n = [b EXCEPT !.lastMessageExcerpt = "text"]
    <3>1. n \in Row
      BY <1>2, <2>3, Zenon DEF Row, Excerpts
    <3> QED
      BY <1>2, <2>3, <3>1 DEF Quiet, BackoffOK, Tokens, Closed, Row
  <2> QED
    BY <2>1, <2>2, <2>3
<1>4. n = refreshLease(r, excerpt, dead, now, again)
  BY DEF refreshLease
<1> HIDE DEF b, n
<1> QED
  BY <1>1, <1>3, <1>4, QuietAfterLegal, QuietAfterQuiet, TokensAfterTokens

(* The statements of session-provenance.ts.                                *)
LEMMA RearmedQuiet ==
  ASSUME NEW r \in Row
  PROVE  Quiet(r, Rearmed(r)) /\ Tokens(r, Rearmed(r))
<1>1. Rearmed(r) \in Row
  BY Zenon DEF Rearmed, Row, Statuses
<1> QED
  BY <1>1 DEF Rearmed, Quiet, BackoffOK, Tokens, Closed, Row

LEMMA AttachLegal ==
  ASSUME NEW r \in Row, NEW now \in Instant
  PROVE  /\ Quiet(r, heartbeat(r, now)) /\ Tokens(r, heartbeat(r, now))
         /\ Legal(r, resurrect(r, now)) /\ Tokens(r, resurrect(r, now))
<1> DEFINE beat == [r EXCEPT !.lastSeenAt = monotonicLastSeen(@, now)]
<1>1. Quiet(r, beat) /\ Tokens(r, beat) /\ beat \in Row
  BY BeatQuiet DEF Quiet
<1>2. /\ Legal(r, Reopened(r, now)) /\ Tokens(r, Reopened(r, now))
      /\ Reopened(r, now) \in Row
  BY ReopenedLegal DEF Legal
<1>3. Quiet(beat, heartbeat(r, now)) /\ Tokens(beat, heartbeat(r, now))
  BY <1>1, RearmedQuiet DEF heartbeat
<1>4. /\ Quiet(Reopened(r, now), resurrect(r, now))
      /\ Tokens(Reopened(r, now), resurrect(r, now))
  BY <1>2, RearmedQuiet DEF resurrect
<1> HIDE DEF beat
<1> QED
  BY <1>1, <1>2, <1>3, <1>4,
     QuietAfterLegal, QuietAfterQuiet, TokensAfterTokens

(* The statements of session-triage.ts.                                    *)
LEMMA ListingType ==
  ASSUME NEW seen \in SUBSET EventIds, NEW listing \in Listings(seen)
  PROVE  listing \in SUBSET EventIds
BY DEF Listings

LEMMA ArmQuiet ==
  ASSUME NEW r \in Row, NEW a \in Nat, NEW listing \in SUBSET EventIds,
         NEW over \in BOOLEAN, NEW now \in Instant
  PROVE  LET n == armAttempt(r, a, listing, over, now)
         IN  /\ Quiet(r, n)
             /\ over => n.triageStatus = "overflowed"
             /\ ~over => n.triageAttemptId = a
<1> DEFINE n == armAttempt(r, a, listing, over, now)
<1>1. n \in Row
  BY Zenon DEF armAttempt, Row, Statuses
<1> QED
  BY <1>1 DEF armAttempt, Quiet, BackoffOK, Closed, Row

LEMMA SettleQuiet ==
  ASSUME NEW r \in Row, NEW seen
  PROVE  /\ Quiet(r, settleNeedsLook(r, seen))
         /\ Tokens(r, settleNeedsLook(r, seen))
<1>1. hasUntriagedSessionEvent(r, seen) \in BOOLEAN
  BY DEF hasUntriagedSessionEvent
<1>2. settleNeedsLook(r, seen) \in Row
  BY <1>1, Zenon DEF settleNeedsLook, Row
<1> QED
  BY <1>2 DEF settleNeedsLook, Quiet, BackoffOK, Tokens, Closed, Row

LEMMA CompleteQuiet ==
  ASSUME NEW r \in Row, NEW seen, NEW listing \in SUBSET EventIds,
         NEW defensive \in BOOLEAN
  PROVE  LET n == completeSessionTriage(r, seen, listing, defensive)
         IN  Quiet(r, n) /\ n.triageStatus # "pending"
<1> DEFINE status == completionStatus(r, listing, Truncated(seen), defensive)
           mark == IF defensive THEN r.lastTriagedEventIds ELSE listing
           stamped == [r EXCEPT !.triageStatus = status,
                                !.lastTriagedEventIds = mark]
           reset == BackoffReset(stamped)
<1>1. status \in Statuses /\ status # "pending"
  BY DEF completionStatus, Statuses
<1>2. stamped \in Row
  <2>1. mark \in SUBSET EventIds
    BY DEF Row
  <2> QED
    BY <1>1, <2>1, Zenon DEF Row
<1>3. Quiet(r, stamped) /\ stamped.triageStatus # "pending"
  <2> HIDE DEF status, mark
  <2> QED
    BY <1>1, <1>2 DEF Quiet, BackoffOK, Closed, Row
<1> HIDE DEF stamped
<1>4. Quiet(stamped, reset) /\ Tokens(stamped, reset) /\ reset \in Row
  BY <1>2, BackoffResetQuiet DEF Quiet
<1> HIDE DEF reset
<1>5. /\ Quiet(reset, settleNeedsLook(reset, seen))
      /\ Tokens(reset, settleNeedsLook(reset, seen))
  BY <1>4, SettleQuiet
<1>6. settleNeedsLook(reset, seen)
        = completeSessionTriage(r, seen, listing, defensive)
  BY DEF completeSessionTriage, reset, stamped
<1> QED
  BY <1>3, <1>4, <1>5, <1>6, QuietAfterQuiet DEF Tokens

(* The statements of session-closer.ts and account-delete.ts.              *)
LEMMA SweepLegal ==
  ASSUME NEW r \in Row, NEW now \in Instant, Exists(r), ~Closed(r)
  PROVE  /\ Legal(r, sweepExpiredLeases(r, now))
         /\ Tokens(r, sweepExpiredLeases(r, now))
<1>1. sweepExpiredLeases(r, now) \in Row /\ now # NULL
  <2>1. now # NULL
    BY NullAssumption DEF NullAssumption, Instant
  <2> QED
    BY <2>1, Zenon DEF sweepExpiredLeases, Row
<1> QED
  BY <1>1
  DEF sweepExpiredLeases, Legal, LifeStep, BackoffOK, Tokens, Closed, Row

LEMMA ClaimQuiet ==
  ASSUME NEW r \in Row, NEW a \in Nat
  PROVE  /\ Quiet(r, claimSessionTriage(r, a))
         /\ claimSessionTriage(r, a).triageStatus # "pending"
<1>1. claimSessionTriage(r, a) \in Row
  BY Zenon DEF claimSessionTriage, Row, Statuses
<1> QED
  BY <1>1 DEF claimSessionTriage, Quiet, BackoffOK, Closed, Row

LEMMA FinishQuiet ==
  ASSUME NEW r \in Row, NEW seen, NEW listing \in SUBSET EventIds,
         NEW clear \in BOOLEAN, NEW status \in {"completed", "overflowed"}
  PROVE  LET n == finishSessionTriage(r, seen, status, listing, clear)
         IN  Quiet(r, n) /\ n.triageStatus # "pending"
<1> DEFINE excerpt == IF clear THEN NULL ELSE r.lastMessageExcerpt
           stamped == [r EXCEPT !.triageStatus = status,
                                !.lastTriagedEventIds = listing,
                                !.lastMessageExcerpt = excerpt]
           reset == BackoffReset(stamped)
<1>1. excerpt \in Excerpts /\ status \in Statuses
  BY DEF Row, Excerpts, Statuses
<1>2. Quiet(r, stamped) /\ stamped.triageStatus # "pending"
  <2> HIDE DEF excerpt
  <2>1. stamped \in Row
    BY <1>1, Zenon DEF Row
  <2> QED
    BY <1>1, <2>1 DEF Quiet, BackoffOK, Closed, Row
<1>3. stamped \in Row
  BY <1>2 DEF Quiet
<1> HIDE DEF stamped
<1>4. Quiet(stamped, reset) /\ Tokens(stamped, reset) /\ reset \in Row
  BY <1>3, BackoffResetQuiet DEF Quiet
<1> HIDE DEF reset
<1>5. /\ Quiet(reset, settleNeedsLook(reset, seen))
      /\ Tokens(reset, settleNeedsLook(reset, seen))
  BY <1>4, SettleQuiet
<1>6. settleNeedsLook(reset, seen)
        = finishSessionTriage(r, seen, status, listing, clear)
  BY DEF finishSessionTriage, reset, stamped, excerpt
<1> QED
  BY <1>2, <1>4, <1>5, <1>6, QuietAfterQuiet DEF Tokens

LEMMA RecordQuiet ==
  ASSUME NEW r \in Row, NEW now \in Instant, Closed(r),
         r.closerFailureCount < MaxFailures
  PROVE  /\ Quiet(r, recordCloserFailure(r, now))
         /\ Tokens(r, recordCloserFailure(r, now))
<1> DEFINE k == r.closerFailureCount
           n == recordCloserFailure(r, now)
<1>1. k \in 0..MaxFailures /\ k + 1 \in 0..MaxFailures /\ k + 1 # 0
  BY RowAssumption DEF RowAssumption, Row
<1>2. failureDelay(k) \in Nat
  <2> DEFINE power == 2^Least(k, MAX_BACKOFF_EXPONENT)
  <2>1. power \in Nat
    BY <1>1, PowerAssumption DEF PowerAssumption
  <2>2. failureDelay(k) = Least(BackoffMax, BackoffBase * power)
    BY DEF failureDelay
  <2>3. BackoffMax \in Nat /\ BackoffBase \in Nat
    BY LeaseAssumption DEF LeaseAssumption
  <2> HIDE DEF power
  <2>4. BackoffBase * power \in Nat
    BY <2>1, <2>3
  <2> QED
    BY <2>2, <2>3, <2>4 DEF Least
<1>3. now + failureDelay(k) \in Instant /\ now + failureDelay(k) # NULL
  BY <1>2, NullAssumption DEF NullAssumption, Instant
<1>4. n \in Row
  BY <1>1, <1>3, Zenon DEF recordCloserFailure, Row
<1>5. /\ n.closerFailureCount = k + 1
      /\ n.closerNextAttemptAt # NULL
      /\ n.activationEpoch = r.activationEpoch
      /\ n.closedAt = r.closedAt
      /\ n.triageStatus = r.triageStatus
      /\ n.triageAttemptId = r.triageAttemptId
  BY <1>3 DEF recordCloserFailure, Row
<1> QED
  BY <1>1, <1>4, <1>5 DEF Quiet, BackoffOK, Tokens, Closed

LEMMA ExpireQuiet ==
  ASSUME NEW r \in Row
  PROVE  Quiet(r, expireStaleExcerpts(r)) /\ Tokens(r, expireStaleExcerpts(r))
<1>1. expireStaleExcerpts(r) \in Row
  BY Zenon DEF expireStaleExcerpts, Row, Excerpts
<1> QED
  BY <1>1 DEF expireStaleExcerpts, Quiet, BackoffOK, Tokens, Closed, Row

LEMMA EraseLegal ==
  ASSUME NEW r \in Row, Exists(r)
  PROVE  Legal(r, eraseAccountData(r)) /\ Tokens(r, eraseAccountData(r))
<1> DEFINE n == eraseAccountData(r)
<1>1. n \in Row
  <2>1. 0 \in 0..MaxFailures /\ r.activationEpoch + 1 \in Nat
    BY RowAssumption DEF RowAssumption, Row
  <2> QED
    BY <2>1, Zenon DEF eraseAccountData, BackoffReset, Row, Excerpts
<1>2. /\ n.activationEpoch = r.activationEpoch + 1
      /\ n.closedAt = r.closedAt
      /\ n.closerFailureCount = 0
      /\ n.closerNextAttemptAt = NULL
      /\ n.triageStatus = r.triageStatus
      /\ n.triageAttemptId = r.triageAttemptId
  BY DEF eraseAccountData, BackoffReset, Row
<1> QED
  BY <1>1, <1>2 DEF Legal, LifeStep, BackoffOK, Tokens, Closed

-----------------------------------------------------------------------------
(* The inductive invariant.                                                *)

OtherTypes ==
  /\ clock \in Instant
  /\ events \in SUBSET EventIds
  /\ erased \in BOOLEAN
  /\ stop \in [Stops -> StopStates]
  /\ writer \in [Writers -> WriterStates]
  /\ sweep \in SweepStates
  /\ jobs \in SUBSET Nat
  /\ pass \in [Passes -> PassStates]
  /\ minted \in Nat
  /\ hookTokens \in SUBSET Nat
  /\ beginTokens \in SUBSET Nat
  /\ closerEvents \in SUBSET EventIds
  /\ closeKind \in {"none", "client", "sweep"}
  /\ debriefed \in Nat

(* The row and those who act on an old sight of it.  The sweep closes only *)
(* a row it has seen; without that its close could end a run never begun.  *)
Core ==
  /\ row \in Row
  /\ BackoffOK(row)
  /\ Closed(row) => Exists(row)
  /\ sweep.pc = "close" => Exists(row)
  /\ PassFenced

IInv == OtherTypes /\ Core /\ HandshakeNeverBorrowed

LEMMA IInvType == IInv => TypeOK
BY DEF IInv, OtherTypes, Core, TypeOK

RowMoves == row' = row \/ Legal(row, row')

(* A pass stops, goes on at its epoch, or starts at that of a closed row.  *)
PassMoves(p) ==
  \/ pass'[p].pc = "idle"
  \/ pass[p].pc # "idle" /\ pass'[p].epoch = pass[p].epoch
  \/ row' = row /\ Closed(row) /\ pass'[p].epoch = row.activationEpoch

LEMMA CoreStep ==
  ASSUME Core, OtherTypes, RowMoves, \A p \in Passes : PassMoves(p),
         sweep'.pc = "close" => sweep' = sweep \/ Exists(row)
  PROVE  Core'
<1>1. /\ row' \in Row
      /\ BackoffOK(row')
      /\ Closed(row') => Exists(row')
      /\ Exists(row) => Exists(row')
  BY DEF Core, RowMoves, Legal, LifeStep, Exists, Row
<1>2. PassFenced'
  <2> SUFFICES ASSUME NEW p \in Passes, pass'[p].pc # "idle"
               PROVE  /\ pass'[p].epoch <= row'.activationEpoch
                      /\ pass'[p].epoch = row'.activationEpoch => Closed(row')
    BY DEF PassFenced, Closed
  <2>1. row.activationEpoch \in Nat /\ pass[p].epoch \in Nat
    BY DEF Core, Row, OtherTypes, PassStates
  <2>2. CASE pass[p].pc # "idle" /\ pass'[p].epoch = pass[p].epoch
    <3>1. /\ pass[p].epoch <= row.activationEpoch
          /\ pass[p].epoch = row.activationEpoch => Closed(row)
      BY <2>2 DEF Core, PassFenced
    <3> QED
      BY <2>1, <2>2, <3>1 DEF RowMoves, Legal, LifeStep
  <2>3. CASE row' = row /\ Closed(row)
             /\ pass'[p].epoch = row.activationEpoch
    BY <2>1, <2>3
  <2> QED
    BY <2>2, <2>3 DEF PassMoves
<1>3. (sweep.pc = "close" => Exists(row))'
  BY <1>1 DEF Core
<1> QED
  BY <1>1, <1>2, <1>3 DEF Core, BackoffOK, Closed, Exists

LEMMA HandshakeStep ==
  ASSUME HandshakeNeverBorrowed, row' = row \/ Tokens(row, row'),
         UNCHANGED <<hookTokens, beginTokens>>
  PROVE  HandshakeNeverBorrowed'
BY DEF HandshakeNeverBorrowed, Tokens

(* A step of the row maps to a step of the activations, or to a stutter.   *)
Mapped ==
  Activation!ActivationNext \/ UNCHANGED Activation!activationVars

LEMMA MapStep ==
  ASSUME row \in Row, RowMoves, UNCHANGED debriefed
  PROVE  Mapped
<1>1. CASE row' = row
  BY <1>1 DEF Mapped, Activation!activationVars, Exists, Closed
<1>2. CASE Legal(row, row')
  BY <1>2
  DEF Legal, LifeStep, Mapped, Activation!activationVars,
      Activation!ActivationNext, Activation!Activate, Activation!Supersede,
      Activation!Retire, Activation!Invalidate, Exists, Row
<1> QED
  BY <1>1, <1>2 DEF RowMoves

LEMMA NowsType ==
  ASSUME clock \in Instant, NEW now \in Nows
  PROVE  now \in Instant
BY DEF Nows, Instant

-----------------------------------------------------------------------------
(* One lemma for each part of Next: the invariant is kept and the step     *)
(* maps to a step of the activations.                                      *)

(* A step that moves the row by one legal UPDATE and touches neither the   *)
(* worker nor the tokens.                                                  *)
LEMMA RequestStep ==
  ASSUME IInv, Legal(row, row'), Tokens(row, row'), OtherTypes',
         UNCHANGED <<sweep, pass, debriefed, hookTokens, beginTokens>>
  PROVE  IInv' /\ Mapped
<1>1. RowMoves
  BY DEF RowMoves
<1>2. \A p \in Passes : PassMoves(p)
  BY DEF PassMoves
<1>3. Core'
  BY <1>1, <1>2, CoreStep DEF IInv
<1>4. Mapped
  BY <1>1, MapStep DEF IInv, Core
<1>5. HandshakeNeverBorrowed'
  BY HandshakeStep DEF IInv
<1> QED
  BY <1>3, <1>4, <1>5 DEF IInv

(* A step that leaves the row alone and the tokens too.                    *)
LEMMA QuietStep ==
  ASSUME IInv, OtherTypes',
         UNCHANGED <<row, sweep, pass, debriefed, hookTokens, beginTokens>>
  PROVE  IInv' /\ Mapped
<1>1. RowMoves /\ \A p \in Passes : PassMoves(p)
  BY DEF RowMoves, PassMoves
<1>2. Core'
  BY <1>1, CoreStep DEF IInv
<1>3. Mapped
  BY <1>1, MapStep DEF IInv, Core
<1>4. HandshakeNeverBorrowed'
  BY HandshakeStep DEF IInv
<1> QED
  BY <1>2, <1>3, <1>4 DEF IInv

LEMMA HookStep == IInv /\ Hook => IInv' /\ Mapped
<1> SUFFICES ASSUME IInv, Hook PROVE IInv' /\ Mapped
  OBVIOUS
<1> USE DEF clients, worker, tokens, history, shared
<1>1. row \in Row /\ OtherTypes /\ clock \in Instant
  BY DEF IInv, Core, OtherTypes
<1>2. ASSUME NEW source \in Sources, NEW stamp \in OpenStamps,
             NEW now \in Nows, Open(source, stamp, now)
      PROVE  IInv' /\ Mapped
  <2>1. now \in Instant
    BY <1>1, NowsType
  <2>2. CASE Exists(row)
    <3>1. row' = openSession(row, source, stamp, now)
      BY <1>2, <2>2 DEF Open, Update
    <3> QED
      BY <1>1, <1>2, <2>1, <3>1, OpenLegal, RequestStep DEF Open, OtherTypes
  <2>3. CASE ~Exists(row)
    <3>1. row' = insertSession(stamp, now)
      BY <1>2, <2>3 DEF Open, Update
    <3>2. Legal(row, row') /\ Tokens(row, row')
      BY <1>1, <2>1, <2>3, <3>1, InsertType
      DEF Legal, LifeStep, Tokens, Exists
    <3> QED
      BY <1>1, <1>2, <3>2, RequestStep DEF Open, OtherTypes
  <2> QED
    BY <2>2, <2>3
<1>3. ASSUME NEW now \in Nows, Close(now)
      PROVE  IInv' /\ Mapped
  <2>1. Legal(row, row') /\ Tokens(row, row')
    BY <1>1, <1>3, NowsType, CloseLegal DEF Close, Update
  <2> QED
    BY <1>1, <1>3, <2>1, RequestStep DEF Close, OtherTypes
<1>4. ASSUME NEW s \in Stops, NEW excerpt \in Snapshots, NEW now \in Nows,
             StopProbe(s, excerpt, now)
      PROVE  IInv' /\ Mapped
  <2>1. excerpt \in BOOLEAN /\ now \in Instant
    BY <1>1, NowsType, RunAssumption DEF RunAssumption
  <2>2. OtherTypes'
    BY <1>1, <1>4, <2>1 DEF StopProbe, OtherTypes, StopStates
  <2> QED
    BY <1>4, <2>2, QuietStep DEF StopProbe
<1>5. ASSUME NEW s \in Stops, StopFast(s) \/ StopSlow(s)
      PROVE  IInv' /\ Mapped
  <2>1. /\ stop[s].now \in Instant
        /\ reopens(row, stop[s].now) \in BOOLEAN
    BY <1>1 DEF OtherTypes, StopStates, reopens, Closed, isLeased
  <2>2. stop' \in [Stops -> StopStates]
    <3>1. CASE stop' = [stop EXCEPT ![s] = IdleStop]
      BY <1>1, <3>1 DEF OtherTypes, StopStates, IdleStop, Instant
    <3>2. CASE stop' = [stop EXCEPT ![s].pc = "slow"]
      <4>1. [stop[s] EXCEPT !.pc = "slow"] \in StopStates
        BY <1>1, Zenon DEF OtherTypes, StopStates
      <4> QED
        BY <1>1, <3>2, <4>1 DEF OtherTypes
    <3> QED
      BY <1>5, <3>1, <3>2 DEF StopFast, StopSlow
  <2>3. OtherTypes'
    BY <1>1, <1>5, <2>2 DEF StopFast, StopSlow, OtherTypes
  <2>4. CASE row' = row
    BY <1>5, <2>3, <2>4, QuietStep DEF StopFast, StopSlow
  <2>5. CASE row' # row
    <3>1. PICK again \in BOOLEAN :
            row' = refreshLease(row, stop[s].excerpt, erased, stop[s].now,
                                again)
      BY <1>5, <2>1, <2>5 DEF StopFast, StopSlow, Update
    <3>2. Legal(row, row') /\ Tokens(row, row')
      BY <1>1, <2>1, <3>1, RefreshLegal
    <3> QED
      BY <1>5, <2>3, <3>2, RequestStep DEF StopFast, StopSlow
  <2> QED
    BY <2>4, <2>5
<1>6. ASSUME NEW s \in Stops, StopAborts(s)
      PROVE  IInv' /\ Mapped
  <2>1. OtherTypes'
    BY <1>1, <1>6 DEF StopAborts, OtherTypes, StopStates, IdleStop, Instant
  <2> QED
    BY <1>6, <2>1, QuietStep DEF StopAborts
<1> QED
  BY <1>2, <1>3, <1>4, <1>5, <1>6 DEF Hook

LEMMA WriteStep == IInv /\ MemoryWrites => IInv' /\ Mapped
<1> SUFFICES ASSUME IInv, MemoryWrites PROVE IInv' /\ Mapped
  OBVIOUS
<1> USE DEF clients, worker, tokens, history, shared
<1>1. row \in Row /\ OtherTypes /\ clock \in Instant
  BY DEF IInv, Core, OtherTypes
<1>2. ASSUME NEW w \in Writers
      PROVE  /\ writer[w].now \in Instant
             /\ [writer EXCEPT ![w] = IdleWriter] \in [Writers -> WriterStates]
  BY <1>1 DEF OtherTypes, WriterStates, IdleWriter, Instant
<1>3. ASSUME NEW e, EventCommits(e)
      PROVE  events' \in SUBSET EventIds
  BY <1>1, <1>3 DEF EventCommits, OtherTypes
<1>4. ASSUME NEW w \in Writers, NEW now \in Nows, AttachProbe(w, now)
      PROVE  IInv' /\ Mapped
  <2>1. now \in Instant
    BY <1>1, NowsType
  <2>2. OtherTypes'
    BY <1>1, <1>4, <2>1 DEF AttachProbe, OtherTypes, WriterStates
  <2> QED
    BY <1>4, <2>2, QuietStep DEF AttachProbe
<1>5. ASSUME NEW w \in Writers, NEW e \in EventIds, AttachBeat(w, e)
      PROVE  IInv' /\ Mapped
  <2>1. OtherTypes'
    BY <1>1, <1>2, <1>3, <1>5 DEF AttachBeat, OtherTypes
  <2>2. Legal(row, row') /\ Tokens(row, row')
    BY <1>1, <1>2, <1>5, AttachLegal, QuietIsLegal DEF AttachBeat, Update
  <2> QED
    BY <1>5, <2>1, <2>2, RequestStep DEF AttachBeat
<1>6. ASSUME NEW w \in Writers, AttachRefused(w) \/ AttachAborts(w)
      PROVE  IInv' /\ Mapped
  <2>1. OtherTypes'
    BY <1>1, <1>2, <1>6 DEF AttachRefused, AttachAborts, OtherTypes
  <2> QED
    BY <1>6, <2>1, QuietStep DEF AttachRefused, AttachAborts
<1>7. ASSUME NEW w \in Writers, NEW e \in EventIds, AttachLocked(w, e)
      PROVE  IInv' /\ Mapped
  <2>1. OtherTypes'
    BY <1>1, <1>2, <1>3, <1>7 DEF AttachLocked, OtherTypes
  <2>2. Legal(row, row') /\ Tokens(row, row')
    BY <1>1, <1>2, <1>7, AttachLegal, QuietIsLegal
    DEF AttachLocked, lockedAttach, Update
  <2> QED
    BY <1>7, <2>1, <2>2, RequestStep DEF AttachLocked
<1>8. ASSUME NEW e \in EventIds, NEW now \in Nows, AttachSingleOpen(e, now)
      PROVE  IInv' /\ Mapped
  <2>1. OtherTypes'
    BY <1>1, <1>3, <1>8 DEF AttachSingleOpen, OtherTypes
  <2>2. Legal(row, row') /\ Tokens(row, row')
    BY <1>1, <1>8, NowsType, AttachLegal, QuietIsLegal
    DEF AttachSingleOpen, Update
  <2> QED
    BY <1>8, <2>1, <2>2, RequestStep DEF AttachSingleOpen
<1> QED
  BY <1>4, <1>5, <1>6, <1>7, <1>8 DEF MemoryWrites

(* A step of the handshake: a quiet UPDATE under its own token rules.      *)
LEMMA TriageStep == IInv /\ Triage => IInv' /\ Mapped
<1> SUFFICES ASSUME IInv, Triage PROVE IInv' /\ Mapped
  OBVIOUS
<1> USE DEF clients, worker, tokens, history, shared
<1>1. row \in Row /\ OtherTypes /\ clock \in Instant
  BY DEF IInv, Core, OtherTypes
<1>2. ASSUME Quiet(row, row') \/ row' = row, UNCHANGED <<sweep, pass, debriefed>>
      PROVE  Core' /\ Mapped
  <2>1. RowMoves /\ \A p \in Passes : PassMoves(p)
    BY <1>2, QuietIsLegal DEF RowMoves, PassMoves
  <2> QED
    BY <1>2, <2>1, CoreStep, MapStep DEF IInv, Core
<1>3. ASSUME NEW substantial, NEW active, NEW delivered, NEW now,
             TriageArm(substantial, active, delivered, now)
      PROVE  IInv' /\ Mapped
  <2>1. PICK listing \in Listings(events) :
          row' = armAttempt(row, minted + 1, listing, Truncated(events), clock)
    BY <1>3 DEF TriageArm, Update
  <2>2. /\ listing \in SUBSET EventIds
        /\ Truncated(events) \in BOOLEAN
        /\ minted + 1 \in Nat
    BY <1>1, ListingType DEF OtherTypes, Truncated
  <2>3. /\ Quiet(row, row')
        /\ Truncated(events) => row'.triageStatus = "overflowed"
        /\ ~Truncated(events) => row'.triageAttemptId = minted + 1
    BY <1>1, <2>1, <2>2, ArmQuiet
  <2>4. OtherTypes'
    BY <1>1, <1>3, <2>2 DEF TriageArm, OtherTypes
  <2>5. HandshakeNeverBorrowed'
    BY <1>3, <2>3 DEF TriageArm, HandshakeNeverBorrowed, IInv
  <2> QED
    BY <1>2, <1>3, <2>3, <2>4, <2>5 DEF TriageArm, IInv
<1>4. ASSUME NEW active, NEW now, TriagePending(active, now)
      PROVE  IInv' /\ Mapped
  <2>1. row.triageStatus = "pending" /\ row.triageAttemptId # NULL
    BY <1>4 DEF TriagePending, evaluateTriageEntry
  <2>2. row.triageAttemptId \in Nat
    BY <1>1, <2>1 DEF Row
  <2>3. OtherTypes'
    BY <1>1, <1>4, <2>2 DEF TriagePending, OtherTypes
  <2>4. HandshakeNeverBorrowed'
    BY <1>4, <2>1 DEF TriagePending, HandshakeNeverBorrowed, IInv
  <2> QED
    BY <1>2, <1>4, <2>3, <2>4 DEF TriagePending, IInv
<1>5. ASSUME NEW a, NEW defensive \in BOOLEAN, TriageComplete(a, defensive)
      PROVE  IInv' /\ Mapped
  <2>1. PICK listing \in Listings(events) :
          row' = completeSessionTriage(row, events, listing, defensive)
    BY <1>5 DEF TriageComplete, Update
  <2>2. listing \in SUBSET EventIds
    BY <1>1, ListingType DEF OtherTypes
  <2>3. Quiet(row, row') /\ row'.triageStatus # "pending"
    BY <1>1, <2>1, <2>2, CompleteQuiet
  <2>4. OtherTypes'
    BY <1>1, <1>5 DEF TriageComplete, OtherTypes
  <2>5. HandshakeNeverBorrowed'
    BY <1>5, <2>3 DEF TriageComplete, HandshakeNeverBorrowed, IInv
  <2> QED
    BY <1>2, <1>5, <2>3, <2>4, <2>5 DEF TriageComplete, IInv
<1> QED
  BY <1>3, <1>4, <1>5 DEF Triage

LEMMA SweepStep == IInv /\ Sweep => IInv' /\ Mapped
<1> SUFFICES ASSUME IInv, Sweep PROVE IInv' /\ Mapped
  OBVIOUS
<1> USE DEF clients, worker, tokens, history, shared
<1>1. row \in Row /\ OtherTypes /\ clock \in Instant
  BY DEF IInv, Core, OtherTypes
<1>2. ASSUME Legal(row, row') \/ row' = row, Tokens(row, row') \/ row' = row,
             OtherTypes', sweep'.pc = "close" => Exists(row),
             UNCHANGED <<pass, debriefed, hookTokens, beginTokens>>
      PROVE  IInv' /\ Mapped
  <2>1. RowMoves /\ \A p \in Passes : PassMoves(p)
    BY <1>2 DEF RowMoves, PassMoves
  <2> QED
    BY <1>2, <2>1, CoreStep, MapStep, HandshakeStep DEF IInv, Core
<1>3. ASSUME NEW now \in Nows, SweepSelect(now)
      PROVE  IInv' /\ Mapped
  <2>1. now \in Instant
    BY <1>1, NowsType
  <2>2. OtherTypes'
    BY <1>1, <1>3, <2>1 DEF SweepSelect, OtherTypes, SweepStates
  <2> QED
    BY <1>2, <1>3, <2>2 DEF SweepSelect
<1>4. ASSUME SweepClose
      PROVE  IInv' /\ Mapped
  <2>1. sweep.now \in Instant /\ Exists(row)
    BY <1>1, <1>4 DEF SweepClose, OtherTypes, SweepStates, IInv, Core
  <2>2. OtherTypes' /\ sweep'.pc = "list"
    BY <1>1, <1>4 DEF SweepClose, OtherTypes, SweepStates
  <2>3. CASE Sweepable(row, sweep.now)
    <3>1. Legal(row, row') /\ Tokens(row, row')
      BY <1>1, <1>4, <2>1, <2>3, SweepLegal DEF SweepClose, Update, Sweepable
    <3> QED
      BY <1>2, <1>4, <2>2, <3>1 DEF SweepClose
  <2>4. CASE ~Sweepable(row, sweep.now)
    BY <1>2, <1>4, <2>2, <2>4 DEF SweepClose
  <2> QED
    BY <2>3, <2>4
<1>5. ASSUME SweepList
      PROVE  IInv' /\ Mapped
  <2>1. jobs' \in SUBSET Nat
    BY <1>1, <1>5 DEF SweepList, OtherTypes, Row
  <2>2. OtherTypes' /\ sweep'.pc = "ttl"
    BY <1>1, <1>5, <2>1 DEF SweepList, OtherTypes, SweepStates
  <2> QED
    BY <1>2, <1>5, <2>2 DEF SweepList
<1>6. ASSUME SweepTtlSelect
      PROVE  IInv' /\ Mapped
  <2>1. OtherTypes' /\ sweep'.pc # "close"
    BY <1>1, <1>6
    DEF SweepTtlSelect, OtherTypes, SweepStates, IdleSweep, Instant
  <2> QED
    BY <1>2, <1>6, <2>1 DEF SweepTtlSelect
<1>7. ASSUME SweepTtlExpire
      PROVE  IInv' /\ Mapped
  <2>1. OtherTypes' /\ sweep'.pc # "close"
    BY <1>1, <1>7
    DEF SweepTtlExpire, OtherTypes, SweepStates, IdleSweep, Instant
  <2>2. (Legal(row, row') /\ Tokens(row, row')) \/ row' = row
    BY <1>1, <1>7, ExpireQuiet, QuietIsLegal DEF SweepTtlExpire, Update
  <2> QED
    BY <1>2, <1>7, <2>1, <2>2 DEF SweepTtlExpire
<1> QED
  BY <1>3, <1>4, <1>5, <1>6, <1>7 DEF Sweep

(* What a pass may become, and that the queue stays one of epochs.         *)
LEMMA AdvanceType ==
  ASSUME OtherTypes, NEW p \in Passes, NEW q \in PassStates, Advance(p, q)
  PROVE  pass' \in [Passes -> PassStates]
BY DEF OtherTypes, Advance

LEMMA IdlePassType == IdlePass \in PassStates
<1>1. 0 \in Nat /\ "idle" \in Statuses
  BY DEF Statuses
<1> QED
  BY <1>1, Zenon DEF IdlePass, PassStates

(* A pass that leaves the row alone.                                       *)
LEMMA PassOnly ==
  ASSUME IInv, OtherTypes', NEW p \in Passes, NEW q, Advance(p, q),
         \/ q.pc = "idle"
         \/ pass[p].pc # "idle" /\ q.epoch = pass[p].epoch
         \/ Closed(row) /\ q.epoch = row.activationEpoch,
         UNCHANGED <<row, sweep, debriefed, hookTokens, beginTokens>>
  PROVE  IInv' /\ Mapped
<1>1. \A r \in Passes : PassMoves(r)
  <2> SUFFICES ASSUME NEW r \in Passes PROVE PassMoves(r)
    OBVIOUS
  <2>1. pass'[r] = IF r = p THEN q ELSE pass[r]
    BY DEF Advance, IInv, OtherTypes
  <2> QED
    BY <2>1 DEF PassMoves
<1>2. RowMoves
  BY DEF RowMoves
<1> QED
  BY <1>1, <1>2, CoreStep, MapStep, HandshakeStep DEF IInv, Core

(* A job that returns.                                                     *)
LEMMA JobDoneType ==
  ASSUME OtherTypes, NEW p \in Passes, JobDone(p)
  PROVE  /\ Advance(p, IdlePass)
         /\ pass' \in [Passes -> PassStates]
         /\ jobs' \in SUBSET Nat
BY IdlePassType, AdvanceType DEF JobDone, OtherTypes

(* A pass that begins: it has read a closed row at the job's epoch.        *)
LEMMA ReadStep ==
  ASSUME IInv, NEW p \in Passes, NEW epoch \in Nat, NEW tries \in Nat,
         ReadSession(p, epoch, tries), PassUnchanged, UNCHANGED <<row, history>>
  PROVE  IInv' /\ Mapped
<1> USE DEF clients, worker, tokens, history, shared
<1>1. row \in Row /\ OtherTypes
  BY DEF IInv, Core
<1>2. CASE row.activationEpoch = epoch /\ Closed(row)
  <2> DEFINE q == [IdlePass EXCEPT
            !.pc = "list", !.epoch = epoch, !.tries = tries,
            !.observed = row.triageAttemptId, !.status = row.triageStatus,
            !.watermark = row.lastTriagedEventIds,
            !.briefed = row.briefedMemories]
  <2>1. Advance(p, q) /\ UNCHANGED jobs
    BY <1>2 DEF ReadSession
  <2>2. /\ row.triageAttemptId \in Nat \cup {NULL}
        /\ row.triageStatus \in Statuses
        /\ row.lastTriagedEventIds \in SUBSET EventIds
        /\ row.briefedMemories \in BOOLEAN
    BY <1>1 DEF Row
  <2>3. q \in PassStates
    BY <2>2, IdlePassType, Zenon DEF PassStates, PassSteps
  <2>4. q.epoch = epoch
    BY <2>3 DEF IdlePass
  <2> HIDE DEF q
  <2>5. OtherTypes'
    BY <1>1, <2>1, <2>3, AdvanceType DEF PassUnchanged, OtherTypes
  <2> QED
    BY <1>2, <2>1, <2>4, <2>5, PassOnly DEF PassUnchanged
<1>3. CASE ~(row.activationEpoch = epoch /\ Closed(row))
  <2>1. Advance(p, IdlePass) /\ jobs' = jobs \ {epoch}
    BY <1>3 DEF ReadSession
  <2>2. OtherTypes'
    BY <1>1, <2>1, IdlePassType, AdvanceType DEF PassUnchanged, OtherTypes
  <2> QED
    BY <2>1, <2>2, PassOnly DEF PassUnchanged, IdlePass
<1> QED
  BY <1>2, <1>3

(* A pass that goes on at its epoch, or ends, and leaves the row alone.    *)
LEMMA GoOn ==
  ASSUME IInv, NEW p \in Passes, pass[p].pc # "idle",
         \/ JobDone(p)
         \/ /\ UNCHANGED jobs
            /\ \E q \in PassStates : Advance(p, q) /\ q.epoch = pass[p].epoch
         \/ Advance(p, IdlePass) /\ UNCHANGED jobs,
         PassUnchanged, UNCHANGED <<row, history>>
  PROVE  IInv' /\ Mapped
<1> USE DEF clients, worker, tokens, history, shared
<1>1. row \in Row /\ OtherTypes
  BY DEF IInv, Core
<1>2. CASE JobDone(p)
  <2>1. OtherTypes' /\ Advance(p, IdlePass)
    BY <1>1, <1>2, JobDoneType DEF PassUnchanged, OtherTypes
  <2> QED
    BY <2>1, PassOnly DEF PassUnchanged, IdlePass
<1>3. ASSUME UNCHANGED jobs,
             NEW q \in PassStates, Advance(p, q), q.epoch = pass[p].epoch
      PROVE  IInv' /\ Mapped
  <2>1. OtherTypes'
    BY <1>1, <1>3, AdvanceType DEF PassUnchanged, OtherTypes
  <2> QED
    BY <1>3, <2>1, PassOnly DEF PassUnchanged
<1>4. CASE Advance(p, IdlePass) /\ UNCHANGED jobs
  <2>1. OtherTypes'
    BY <1>1, <1>4, IdlePassType, AdvanceType DEF PassUnchanged, OtherTypes
  <2> QED
    BY <1>4, <2>1, PassOnly DEF PassUnchanged, IdlePass
<1> QED
  BY <1>2, <1>3, <1>4

(* The steps of a pass that write the row.                                 *)
LEMMA WriteBackStep ==
  ASSUME IInv, NEW p \in Passes,
         \/ PassClaim(p)
         \/ PassFinish(p)
         \/ \E now \in 0..clock : PassRecord(p, now)
  PROVE  IInv' /\ Mapped
<1> USE DEF clients, worker, tokens, history, shared
<1>1. row \in Row /\ OtherTypes /\ pass[p] \in PassStates
  BY DEF IInv, Core, OtherTypes
<1>2. ASSUME OtherTypes', RowMoves, UNCHANGED sweep,
             NEW q, Advance(p, q), pass[p].pc # "idle",
             q.pc = "idle" \/ q.epoch = pass[p].epoch
      PROVE  Core'
  <2>1. \A r \in Passes : PassMoves(r)
    <3> SUFFICES ASSUME NEW r \in Passes PROVE PassMoves(r)
      OBVIOUS
    <3>1. pass'[r] = IF r = p THEN q ELSE pass[r]
      BY <1>1, <1>2 DEF Advance, OtherTypes
    <3> QED
      BY <1>2, <3>1 DEF PassMoves
  <2> QED
    BY <1>2, <2>1, CoreStep DEF IInv
<1>3. ASSUME PassClaim(p)
      PROVE  IInv' /\ Mapped
  <2>1. minted + 1 \in Nat
    BY <1>1 DEF OtherTypes
  <2>2. CASE claimAdmits(row, pass[p].epoch, pass[p].observed)
    <3> DEFINE q == [pass[p] EXCEPT
               !.pc = IF pass[p].work THEN "judge" ELSE "finish",
               !.token = minted + 1, !.observed = NULL]
    <3>1. q \in PassStates /\ q.epoch = pass[p].epoch
      <4>1. q \in PassStates
        BY <1>1, <2>1, Zenon DEF PassStates, PassSteps
      <4> QED
        BY <4>1, <1>1 DEF PassStates
    <3>2. Advance(p, q) /\ UNCHANGED jobs
      BY <1>3, <2>2 DEF PassClaim
    <3>3. row' = claimSessionTriage(row, minted + 1)
      BY <1>3, <2>2 DEF PassClaim, Update
    <3> HIDE DEF q
    <3>4. Quiet(row, row') /\ row'.triageStatus # "pending"
      BY <1>1, <2>1, <3>3, ClaimQuiet
    <3>5. OtherTypes'
      BY <1>1, <1>3, <2>1, <3>1, <3>2, AdvanceType DEF PassClaim, OtherTypes
    <3>6. RowMoves
      BY <3>4, QuietIsLegal DEF RowMoves
    <3>7. Core' /\ Mapped
      BY <1>1, <1>2, <1>3, <3>1, <3>2, <3>5, <3>6, MapStep DEF PassClaim
    <3>8. HandshakeNeverBorrowed'
      BY <1>3, <3>4 DEF PassClaim, HandshakeNeverBorrowed, IInv
    <3> QED
      BY <3>5, <3>7, <3>8 DEF IInv
  <2>3. CASE ~claimAdmits(row, pass[p].epoch, pass[p].observed)
    <3>1. JobDone(p) /\ UNCHANGED row
      BY <1>3, <2>3 DEF PassClaim
    <3>2. OtherTypes' /\ Advance(p, IdlePass)
      BY <1>1, <1>3, <2>1, <3>1, JobDoneType DEF PassClaim, OtherTypes
    <3> QED
      BY <1>3, <3>1, <3>2, PassOnly DEF PassClaim, IdlePass
  <2> QED
    BY <2>2, <2>3
<1>4. ASSUME PassFinish(p)
      PROVE  IInv' /\ Mapped
  <2>1. Advance(p, IdlePass) /\ jobs' \in SUBSET Nat
        /\ pass' \in [Passes -> PassStates]
    BY <1>1, <1>4, JobDoneType DEF PassFinish
  <2>2. CASE finishAdmits(row, pass[p].epoch, pass[p].token)
    <3> DEFINE clear == pass[p].work /\ pass[p].verdict = "completed"
    <3>1. /\ row' = finishSessionTriage(row, events, pass[p].verdict,
                                         pass[p].listing, clear)
          /\ debriefed' = row.activationEpoch
      BY <1>4, <2>2 DEF PassFinish, Update, finishAdmits
    <3>2. /\ pass[p].verdict \in {"completed", "overflowed"}
          /\ pass[p].listing \in SUBSET EventIds
          /\ clear \in BOOLEAN
      BY <1>1 DEF PassStates
    <3> HIDE DEF clear
    <3>3. Quiet(row, row') /\ row'.triageStatus # "pending"
      BY <1>1, <3>1, <3>2, FinishQuiet
    <3>4. OtherTypes'
      BY <1>1, <1>4, <2>1, <3>1 DEF PassFinish, OtherTypes, Row
    <3>5. RowMoves
      BY <3>3, QuietIsLegal DEF RowMoves
    <3>6. Core'
      BY <1>2, <1>4, <2>1, <3>4, <3>5 DEF PassFinish, IdlePass
    <3>7. Closed(row) /\ Exists(row)
      BY <1>4, <2>2 DEF PassFinish, finishAdmits, IInv, Core, PassFenced
    <3>8. Mapped
      BY <1>1, <3>1, <3>3, <3>7
      DEF Mapped, Activation!ActivationNext, Activation!Debrief, Quiet,
          Closed, Exists, Row
    <3>9. HandshakeNeverBorrowed'
      BY <1>4, <3>3 DEF PassFinish, HandshakeNeverBorrowed, IInv
    <3> QED
      BY <3>4, <3>6, <3>8, <3>9 DEF IInv
  <2>3. CASE ~finishAdmits(row, pass[p].epoch, pass[p].token)
    <3>1. OtherTypes' /\ UNCHANGED <<row, debriefed>>
      BY <1>1, <1>4, <2>1, <2>3 DEF PassFinish, OtherTypes
    <3> QED
      BY <1>4, <2>1, <3>1, PassOnly DEF PassFinish, IdlePass
  <2> QED
    BY <2>2, <2>3
<1>5. ASSUME NEW now \in 0..clock, PassRecord(p, now)
      PROVE  IInv' /\ Mapped
  <2>1. now \in Instant
    BY <1>1 DEF OtherTypes, Instant
  <2>2. /\ Advance(p, IdlePass)
        /\ OtherTypes'
    BY <1>1, <1>5, JobDoneType DEF PassRecord, PassUnchanged, OtherTypes
  <2>3. row' = row \/ (Quiet(row, row') /\ Tokens(row, row'))
    <3>1. CASE failureAdmits(row, pass[p].epoch)
      <4>1. Closed(row)
        BY <1>5, <3>1 DEF PassRecord, failureAdmits, IInv, Core, PassFenced
      <4>2. /\ row.closerFailureCount < MaxFailures
            /\ row' = recordCloserFailure(row, now)
        BY <1>5, <3>1 DEF PassRecord, Update
      <4> QED
        BY <1>1, <2>1, <4>1, <4>2, RecordQuiet
    <3>2. CASE ~failureAdmits(row, pass[p].epoch)
      BY <1>5, <3>2 DEF PassRecord
    <3> QED
      BY <3>1, <3>2
  <2>4. RowMoves
    BY <2>3, QuietIsLegal DEF RowMoves
  <2>5. Core' /\ Mapped
    BY <1>1, <1>2, <1>5, <2>2, <2>4, MapStep
    DEF PassRecord, PassUnchanged, IdlePass
  <2>6. HandshakeNeverBorrowed'
    BY <1>5, <2>3, HandshakeStep DEF PassRecord, PassUnchanged, IInv
  <2> QED
    BY <2>2, <2>5, <2>6 DEF IInv
<1> QED
  BY <1>3, <1>4, <1>5

(* The steps of a pass that leave the row alone.                           *)
LEMMA PassStep ==
  ASSUME IInv, NEW p \in Passes,
         \/ PassList(p)
         \/ PassJudge(p)
         \/ PassCandidate(p)
         \/ PassResolveSkips(p)
         \/ \E proposes \in BOOLEAN : PassResolved(p, proposes)
         \/ PassRelist(p)
  PROVE  IInv' /\ Mapped
<1>1. OtherTypes /\ pass[p] \in PassStates
  BY DEF IInv, OtherTypes
<1>2. ASSUME NEW pc \in PassSteps
      PROVE  /\ [pass[p] EXCEPT !.pc = pc] \in PassStates
             /\ [pass[p] EXCEPT !.pc = pc].epoch = pass[p].epoch
  <2>1. [pass[p] EXCEPT !.pc = pc] \in PassStates
    BY <1>1, Zenon DEF PassStates
  <2> QED
    BY <1>1, <2>1 DEF PassStates
<1>3. CASE PassList(p)
  <2>1. PICK listing \in Listings(events), verdict \in {"completed", "overflowed"},
             work \in BOOLEAN :
          \/ JobDone(p)
          \/ /\ UNCHANGED jobs
             /\ Advance(p, [pass[p] EXCEPT
                  !.pc = "claim", !.listing = listing, !.verdict = verdict,
                  !.work = work, !.status = "idle", !.watermark = {},
                  !.briefed = FALSE])
    BY <1>3 DEF PassList
  <2> DEFINE q == [pass[p] EXCEPT
                  !.pc = "claim", !.listing = listing, !.verdict = verdict,
                  !.work = work, !.status = "idle", !.watermark = {},
                  !.briefed = FALSE]
  <2>2. listing \in SUBSET EventIds
    BY <1>1, ListingType DEF OtherTypes
  <2>3. q \in PassStates
    BY <1>1, <2>2, Zenon DEF PassStates, PassSteps, Statuses
  <2>4. q.epoch = pass[p].epoch
    BY <1>1, <2>3 DEF PassStates
  <2> QED
    BY <1>3, <2>1, <2>3, <2>4, GoOn DEF PassList
<1>4. CASE PassJudge(p)
  BY <1>2, <1>4, GoOn DEF PassJudge, PassSteps
<1>5. CASE PassCandidate(p)
  BY <1>2, <1>5, GoOn DEF PassCandidate, PassSteps
<1>6. CASE PassResolveSkips(p)
  BY <1>2, <1>6, GoOn DEF PassResolveSkips, PassSteps
<1>7. ASSUME NEW proposes \in BOOLEAN, PassResolved(p, proposes)
      PROVE  IInv' /\ Mapped
  BY <1>2, <1>7, GoOn DEF PassResolved, PassSteps
<1>8. CASE PassRelist(p)
  <2>1. PICK listing \in Listings(events), verdict \in {"completed", "overflowed"} :
          Advance(p, [pass[p] EXCEPT
            !.pc = "finish", !.listing = listing, !.resolved = FALSE,
            !.verdict = verdict])
    BY <1>8 DEF PassRelist
  <2> DEFINE q == [pass[p] EXCEPT
            !.pc = "finish", !.listing = listing, !.resolved = FALSE,
            !.verdict = verdict]
  <2>2. listing \in SUBSET EventIds
    BY <1>1, ListingType DEF OtherTypes
  <2>3. q \in PassStates
    BY <1>1, <2>2, Zenon DEF PassStates, PassSteps
  <2>4. q.epoch = pass[p].epoch
    BY <1>1, <2>3 DEF PassStates
  <2> QED
    BY <1>8, <2>1, <2>3, <2>4, GoOn DEF PassRelist
<1> QED
  BY <1>3, <1>4, <1>5, <1>6, <1>7, <1>8

LEMMA CloserStep ==
  ASSUME IInv, NEW p \in Passes, CloserSteps(p) \/ CloserFaults(p)
  PROVE  IInv' /\ Mapped
<1> USE DEF clients, worker, tokens, history, shared
<1>1. OtherTypes /\ pass[p] \in PassStates
  BY DEF IInv, OtherTypes
<1>2. CASE JobStart(p)
  <2>1. PICK epoch \in jobs : ReadSession(p, epoch, 1)
    BY <1>2 DEF JobStart
  <2>2. epoch \in Nat
    BY <1>1, <2>1 DEF OtherTypes
  <2> QED
    BY <1>2, <2>1, <2>2, ReadStep DEF JobStart
<1>3. CASE JobRetry(p)
  <2>1. pass[p].epoch \in Nat /\ pass[p].tries + 1 \in Nat
    BY <1>1 DEF PassStates
  <2> QED
    BY <1>3, <2>1, ReadStep DEF JobRetry
<1>4. ASSUME NEW e \in EventIds, PassResolve(p, e)
      PROVE  IInv' /\ Mapped
  <2> DEFINE q == [pass[p] EXCEPT !.pc = "resolve", !.resolved = TRUE]
  <2>1. q \in PassStates
    BY <1>1, Zenon DEF PassStates, PassSteps
  <2>2. q.epoch = pass[p].epoch /\ Advance(p, q)
    BY <1>1, <1>4, <2>1 DEF PassStates, PassResolve
  <2> HIDE DEF q
  <2>3. OtherTypes'
    BY <1>1, <1>4, <2>1, <2>2, AdvanceType
    DEF PassResolve, EventCommits, OtherTypes
  <2> QED
    BY <1>4, <2>2, <2>3, PassOnly DEF PassResolve
<1>5. CASE PassThrow(p)
  <2> DEFINE q == [IdlePass EXCEPT
       !.pc = IF pass[p].tries < MaxTries THEN "retry" ELSE "record",
       !.epoch = pass[p].epoch, !.tries = pass[p].tries]
  <2>1. pass[p].epoch \in Nat /\ pass[p].tries \in Nat
    BY <1>1 DEF PassStates
  <2>2. q \in PassStates
    BY <2>1, IdlePassType, Zenon DEF PassStates
  <2>3. q.epoch = pass[p].epoch
    BY <2>2 DEF IdlePass
  <2>4. Advance(p, q) /\ pass[p].pc # "idle"
    BY <1>5 DEF PassThrow, PassSteps
  <2> HIDE DEF q
  <2> QED
    BY <1>5, <2>2, <2>3, <2>4, GoOn DEF PassThrow
<1>6. CASE PassRecordFails(p) \/ WorkerCrash(p)
  BY <1>6, GoOn DEF PassRecordFails, WorkerCrash
<1> QED
  BY <1>2, <1>3, <1>4, <1>5, <1>6, PassStep, WriteBackStep
  DEF CloserSteps, CloserFaults

LEMMA EraseStep == IInv /\ EraseAccount => IInv' /\ Mapped
<1> SUFFICES ASSUME IInv, EraseAccount PROVE IInv' /\ Mapped
  OBVIOUS
<1> USE DEF clients, worker, tokens, history
<1>1. row \in Row /\ OtherTypes
  BY DEF IInv, Core
<1>2. OtherTypes'
  BY <1>1, RunAssumption DEF RunAssumption, EraseAccount, OtherTypes
<1>3. CASE Exists(row)
  BY <1>1, <1>2, <1>3, EraseLegal, RequestStep DEF EraseAccount, Update
<1>4. CASE ~Exists(row)
  BY <1>2, <1>4, QuietStep DEF EraseAccount
<1> QED
  BY <1>3, <1>4

LEMMA TickStep == IInv /\ Tick => IInv' /\ Mapped
<1> SUFFICES ASSUME IInv, Tick PROVE IInv' /\ Mapped
  OBVIOUS
<1> USE DEF clients, worker, tokens, history
<1>1. OtherTypes'
  BY DEF IInv, Tick, OtherTypes, Instant
<1> QED
  BY <1>1, QuietStep DEF Tick

-----------------------------------------------------------------------------
(* The theorems.                                                           *)

LEMMA InitInv == Init => IInv /\ Activation!ActivationInit
<1> SUFFICES ASSUME Init PROVE IInv /\ Activation!ActivationInit
  OBVIOUS
<1>1. NoRow \in Row
  <2>1. 0 \in 0..MaxFailures /\ 0 \in Nat
    BY RowAssumption DEF RowAssumption
  <2> QED
    BY <2>1, Zenon DEF NoRow, Row, Instant, Statuses, Excerpts
<1>2. /\ NoRow.closedAt = NULL
      /\ NoRow.activationEpoch = 0
      /\ NoRow.closerFailureCount = 0
      /\ NoRow.closerNextAttemptAt = NULL
      /\ NoRow.triageStatus = "idle"
  BY DEF NoRow
<1>3. OtherTypes
  <2>1. /\ IdleStop \in StopStates
        /\ IdleWriter \in WriterStates
        /\ IdleSweep \in SweepStates
    BY DEF StopStates, IdleStop, WriterStates, IdleWriter, SweepStates,
           IdleSweep, Instant
  <2> QED
    BY <2>1, IdlePassType DEF Init, OtherTypes, Instant
<1>4. Core
  BY <1>1, <1>2
  DEF Init, Core, BackoffOK, PassFenced, Closed, Exists, IdleSweep, IdlePass
<1>5. HandshakeNeverBorrowed
  BY <1>2 DEF Init, HandshakeNeverBorrowed
<1>6. Activation!ActivationInit
  BY <1>2 DEF Init, Activation!ActivationInit, Closed, Exists
<1> QED
  BY <1>3, <1>4, <1>5, <1>6 DEF IInv

LEMMA NextInv == IInv /\ [Next]_vars => IInv' /\ Mapped
<1> SUFFICES ASSUME IInv, [Next]_vars PROVE IInv' /\ Mapped
  OBVIOUS
<1>1. CASE Next
  BY <1>1, HookStep, WriteStep, TriageStep, SweepStep, CloserStep, EraseStep,
     TickStep DEF Next
<1>2. CASE UNCHANGED vars
  BY <1>2, QuietStep
  DEF vars, shared, clients, worker, tokens, history, IInv, OtherTypes
<1> QED
  BY <1>1, <1>2

(* The inductive invariant holds: every state has a well-formed row, passes *)
(* current only for closed runs, and a handshake nobody borrows.           *)
THEOREM Invariance == Spec => []IInv
BY InitInv, NextInv, PTL DEF Spec

(* Every variable keeps its type, whatever the interleaving.               *)
THEOREM TypeCorrect == Spec => []TypeOK
BY Invariance, IInvType, PTL

(* No pass in flight is current for an open run: the activation epoch      *)
(* fences every write-back of the closer (session-closer.ts).              *)
THEOREM ClosersAreFenced == Spec => []PassFenced
<1>1. IInv => PassFenced
  BY DEF IInv, Core
<1> QED
  BY <1>1, Invariance, PTL

(* An open run carries no closer backoff, although failures are recorded   *)
(* by workers that never lock the run they debriefed.                      *)
THEOREM BackoffEndsWithTheClose == Spec => []OpenRunHasNoBackoff
<1>1. IInv => OpenRunHasNoBackoff
  BY DEF IInv, Core, BackoffOK, OpenRunHasNoBackoff
<1> QED
  BY <1>1, Invariance, PTL

(* A closer's claim token never sits under `pending` and never reaches the *)
(* hook (session-closer.ts, claimSessionTriage).                           *)
THEOREM HandshakeIsTheHooks == Spec => []HandshakeNeverBorrowed
<1>1. IInv => HandshakeNeverBorrowed
  BY DEF IInv
<1> QED
  BY <1>1, Invariance, PTL

(* The rows, clients, sweep and closers implement the abstract series of   *)
(* activations: a debrief is credited only to the activation that ended.   *)
THEOREM ActivationsAreImplemented == Spec => ActivationFence
<1>1. Mapped => [Activation!ActivationNext]_(Activation!activationVars)
  BY DEF Mapped
<1> QED
  BY <1>1, InitInv, NextInv, Invariance, PTL
  DEF Spec, ActivationFence, Activation!ActivationSpec

-----------------------------------------------------------------------------
(* What the row operators leave of the columns that the rest rests on: the *)
(* life of the run, its user content and its triage.                       *)

SameLife(old, new) ==
  /\ new.activationEpoch = old.activationEpoch
  /\ new.closedAt = old.closedAt
  /\ new.lastSeenAt = old.lastSeenAt
SameContent(old, new) ==
  /\ new.briefedMemories = old.briefedMemories
  /\ new.lastMessageExcerpt = old.lastMessageExcerpt
SameTriage(old, new) ==
  /\ new.triageStatus = old.triageStatus
  /\ new.triageAttemptId = old.triageAttemptId
  /\ new.lastTriagedEventIds = old.lastTriagedEventIds
  /\ new.needsLook = old.needsLook

(* The life of a row that is opened again, or only beaten, at an instant.  *)
Beaten(old, new, now) ==
  /\ new.activationEpoch = old.activationEpoch
  /\ new.closedAt = old.closedAt
  /\ new.lastSeenAt = monotonicLastSeen(old.lastSeenAt, now)
Begun(old, new, now) ==
  /\ new.activationEpoch = old.activationEpoch + 1
  /\ new.closedAt = NULL
  /\ new.lastSeenAt = monotonicLastSeen(old.lastSeenAt, now)

(* Its triage, when an attributed write has touched it.                    *)
Touched(old, new) ==
  /\ new.triageStatus # "completed"
  /\ new.triageStatus = old.triageStatus
       \/ (old.triageStatus = "completed" /\ new.triageStatus = "idle")
  /\ new.triageAttemptId = old.triageAttemptId
  /\ SameContent(old, new)

Settled(new, events_) ==
  new.needsLook <=> events_ \ new.lastTriagedEventIds # {}

LEMMA ReopenedIs ==
  ASSUME NEW r \in Row, NEW now
  PROVE  LET n == Reopened(r, now)
         IN  Begun(r, n, now) /\ SameContent(r, n) /\ SameTriage(r, n)
BY DEF Row, Reopened, BackoffReset, Begun, SameContent, SameTriage

LEMMA BeatIs ==
  ASSUME NEW r \in Row, NEW now
  PROVE  LET n == [r EXCEPT !.lastSeenAt = monotonicLastSeen(@, now)]
         IN  Beaten(r, n, now) /\ SameContent(r, n) /\ SameTriage(r, n)
BY DEF Row, Beaten, SameContent, SameTriage

(* A SessionStart leaves the run open; only a resume moves a live one on.  *)
Opened(old, new, source, now) ==
  /\ new.lastSeenAt = monotonicLastSeen(old.lastSeenAt, now)
  /\ new.lastMessageExcerpt = old.lastMessageExcerpt
  /\ SameTriage(old, new)
  /\ new.closedAt = NULL
  /\ \/ /\ new.activationEpoch = old.activationEpoch
        /\ ~reopens(old, now)
     \/ /\ new.activationEpoch = old.activationEpoch + 1
        /\ reopens(old, now) \/ source = "resume"

LEMMA OpenIs ==
  ASSUME NEW r \in Row, NEW source \in Sources, NEW stamp,
         NEW now \in Instant
  PROVE  Opened(r, openSession(r, source, stamp, now), source, now)
<1> DEFINE beat == [r EXCEPT !.lastSeenAt = monotonicLastSeen(@, now)]
<1>1. PICK n : n = openSession(r, source, stamp, now)
  OBVIOUS
<1>2. beat \in Row /\ Beaten(r, beat, now)
      /\ SameContent(r, beat) /\ SameTriage(r, beat)
  BY BeatIs, BeatQuiet DEF Quiet
<1>3. CASE reopens(r, now) /\ source = "startup"
  <2>1. n = briefingStamp(Reopened(r, now), stamp)
    BY <1>1, <1>3, Zenon DEF openSession
  <2>2. PICK b : b = Reopened(r, now)
    OBVIOUS
  <2>3. b \in Row /\ Begun(r, b, now) /\ SameContent(r, b) /\ SameTriage(r, b)
    BY <2>2, ReopenedIs, ReopenedLegal DEF Legal
  <2>4. SameLife(b, n) /\ SameTriage(b, n)
        /\ n.lastMessageExcerpt = b.lastMessageExcerpt
    BY <2>1, <2>2, <2>3 DEF Row, briefingStamp, SameLife, SameTriage
  <2> QED
    BY <1>1, <1>3, <2>3, <2>4
    DEF Opened, Begun, SameLife, SameContent, SameTriage
<1>4. CASE reopens(r, now) /\ source = "resume"
  <2>1. n = Reopened(r, now)
    BY <1>1, <1>4, Zenon DEF openSession
  <2> QED
    BY <1>1, <1>4, <2>1, ReopenedIs DEF Opened, Begun, SameContent
<1>5. ~reopens(r, now) => r.closedAt = NULL
  BY DEF reopens, Closed
<1>6. CASE ~reopens(r, now) /\ source = "resume"
  <2>1. n = [beat EXCEPT !.activationEpoch = @ + 1]
    BY <1>1, <1>6, Zenon DEF openSession
  <2> HIDE DEF beat
  <2>2. /\ n.activationEpoch = beat.activationEpoch + 1
        /\ n.closedAt = beat.closedAt /\ n.lastSeenAt = beat.lastSeenAt
        /\ SameContent(beat, n) /\ SameTriage(beat, n)
    BY <1>2, <2>1 DEF Row, SameContent, SameTriage
  <2> QED
    BY <1>1, <1>2, <1>5, <1>6, <2>2
    DEF Opened, Beaten, SameContent, SameTriage
<1>7. CASE ~reopens(r, now) /\ source = "startup"
  <2>1. n = beat
    BY <1>1, <1>7, Zenon DEF openSession
  <2> HIDE DEF beat
  <2> QED
    BY <1>1, <1>2, <1>5, <1>7, <2>1 DEF Opened, Beaten, SameContent
<1> QED
  BY <1>3, <1>4, <1>6, <1>7 DEF Sources

LEMMA InsertIs ==
  ASSUME NEW stamp, NEW now
  PROVE  LET n == insertSession(stamp, now)
         IN  /\ n.activationEpoch = 1 /\ n.closedAt = NULL
             /\ n.lastSeenAt = now
             /\ n.triageStatus = "idle" /\ n.triageAttemptId = NULL
             /\ n.lastMessageExcerpt = NULL
BY DEF insertSession, briefingStamp, NoRow

LEMMA CloseIs ==
  ASSUME NEW r \in Row, NEW now
  PROVE  LET n == closeSession(r, now)
         IN  /\ SameContent(r, n) /\ SameTriage(r, n)
             /\ n.activationEpoch = r.activationEpoch
             /\ n.lastSeenAt = r.lastSeenAt
             /\ n.closedAt = IF Closed(r) THEN r.closedAt ELSE now
BY DEF Row, closeSession, SameContent, SameTriage, Closed

LEMMA RefreshIs ==
  ASSUME NEW r \in Row, NEW excerpt \in BOOLEAN, NEW tombstoned \in BOOLEAN,
         NEW now, NEW again \in BOOLEAN
  PROVE  LET n == refreshLease(r, excerpt, tombstoned, now, again)
         IN  /\ again => Begun(r, n, now)
             /\ ~again => Beaten(r, n, now)
             /\ n.briefedMemories = r.briefedMemories
             /\ n.lastMessageExcerpt = IF excerpt /\ ~tombstoned
                                       THEN "text" ELSE r.lastMessageExcerpt
             /\ SameTriage(r, n)
BY DEF Row, refreshLease, excerptPatch, Reopened, BackoffReset, Begun, Beaten,
       SameTriage

LEMMA HeartbeatIs ==
  ASSUME NEW r \in Row, NEW now
  PROVE  LET n == heartbeat(r, now) IN Beaten(r, n, now) /\ Touched(r, n)
BY DEF Row, heartbeat, Rearmed, Beaten, Touched, SameContent

LEMMA ResurrectIs ==
  ASSUME NEW r \in Row, NEW now
  PROVE  LET n == resurrect(r, now) IN Begun(r, n, now) /\ Touched(r, n)
BY DEF Row, resurrect, Rearmed, Reopened, BackoffReset, Begun, Touched,
       SameContent

LEMMA ArmIs ==
  ASSUME NEW r \in Row, NEW attempt, NEW listing, NEW truncated \in BOOLEAN,
         NEW at
  PROVE  LET n == armAttempt(r, attempt, listing, truncated, at)
         IN  /\ SameLife(r, n) /\ SameContent(r, n)
             /\ n.triageStatus # "completed"
BY DEF Row, armAttempt, SameLife, SameContent

LEMMA CompleteIs ==
  ASSUME NEW r \in Row, NEW evs, NEW listing, NEW defensive \in BOOLEAN
  PROVE  LET n == completeSessionTriage(r, evs, listing, defensive)
         IN  /\ SameLife(r, n) /\ SameContent(r, n) /\ Settled(n, evs)
             /\ n.triageAttemptId = r.triageAttemptId
<1>1. PICK n : n = completeSessionTriage(r, evs, listing, defensive)
  OBVIOUS
<1>2. PICK status, marks :
        n = settleNeedsLook(BackoffReset([r EXCEPT !.triageStatus = status,
                                !.lastTriagedEventIds = marks]), evs)
  BY <1>1, Zenon DEF completeSessionTriage
<1>3. /\ SameLife(r, n) /\ SameContent(r, n)
      /\ n.triageAttemptId = r.triageAttemptId
  BY <1>2 DEF Row, BackoffReset, SameLife, SameContent, settleNeedsLook
<1>4. Settled(n, evs)
  BY <1>2 DEF Row, BackoffReset, settleNeedsLook, hasUntriagedSessionEvent,
              Untriaged, Settled
<1> QED
  BY <1>1, <1>3, <1>4

LEMMA FinishIs ==
  ASSUME NEW r \in Row, NEW evs, NEW verdict, NEW listing, NEW clear \in BOOLEAN
  PROVE  LET n == finishSessionTriage(r, evs, verdict, listing, clear)
         IN  /\ SameLife(r, n) /\ Settled(n, evs)
             /\ n.briefedMemories = r.briefedMemories
             /\ n.lastMessageExcerpt \in {NULL, r.lastMessageExcerpt}
             /\ n.triageAttemptId = r.triageAttemptId
BY DEF Row, finishSessionTriage, settleNeedsLook, BackoffReset,
       hasUntriagedSessionEvent, Untriaged, SameLife, Settled

LEMMA ClaimIs ==
  ASSUME NEW r \in Row, NEW attempt
  PROVE  LET n == claimSessionTriage(r, attempt)
         IN  /\ SameLife(r, n) /\ SameContent(r, n)
             /\ n.triageAttemptId = attempt
             /\ n.lastTriagedEventIds = r.lastTriagedEventIds
             /\ n.needsLook = r.needsLook
             /\ n.triageStatus = IF r.triageStatus = "pending"
                                 THEN "expired" ELSE r.triageStatus
BY DEF Row, claimSessionTriage, SameLife, SameContent

LEMMA RecordIs ==
  ASSUME NEW r \in Row, NEW now
  PROVE  LET n == recordCloserFailure(r, now)
         IN  SameLife(r, n) /\ SameContent(r, n) /\ SameTriage(r, n)
BY DEF Row, recordCloserFailure, SameLife, SameContent, SameTriage

LEMMA ExpireIs ==
  ASSUME NEW r \in Row
  PROVE  LET n == expireStaleExcerpts(r)
         IN  /\ SameLife(r, n) /\ SameTriage(r, n)
             /\ n.briefedMemories = r.briefedMemories
             /\ n.lastMessageExcerpt = NULL
BY DEF Row, expireStaleExcerpts, SameLife, SameTriage

LEMMA SweepIs ==
  ASSUME NEW r \in Row, NEW now
  PROVE  LET n == sweepExpiredLeases(r, now)
         IN  /\ SameContent(r, n) /\ SameTriage(r, n)
             /\ n.activationEpoch = r.activationEpoch
             /\ n.lastSeenAt = r.lastSeenAt /\ n.closedAt = now
BY DEF Row, sweepExpiredLeases, SameContent, SameTriage

LEMMA EraseIs ==
  ASSUME NEW r \in Row
  PROVE  LET n == eraseAccountData(r)
         IN  /\ n.activationEpoch = r.activationEpoch + 1
             /\ n.closedAt = r.closedAt /\ n.lastSeenAt = r.lastSeenAt
             /\ n.triageStatus = r.triageStatus
             /\ n.lastMessageExcerpt = "erased" /\ ~n.briefedMemories
BY DEF Row, eraseAccountData, BackoffReset

-----------------------------------------------------------------------------
(* The second invariant, which rests on the first.                         *)

(* Whoever has seen the run has seen a run that is there.                  *)
BornOK ==
  /\ ~Exists(row) => row = NoRow
  /\ \A s \in Stops : stop[s].pc # "idle" => Exists(row)
  /\ \A w \in Writers : writer[w].pc # "idle" => Exists(row)

(* Captured clocks are of the past, those of writes of the recent past;    *)
(* and a write that only beats has seen the lease that it beats.           *)
StragglersOK ==
  /\ \A s \in Stops : stop[s].now <= clock
  /\ \A w \in Writers :
       /\ writer[w].now <= clock
       /\ writer[w].pc # "idle" => clock <= writer[w].now + MaxInFlight
       /\ writer[w].pc = "beat" => writer[w].now < row.lastSeenAt + Lease
  /\ sweep.now <= clock

(* A swept run is further behind its close than any write can still reach. *)
SweptOK ==
  closeKind = "sweep" =>
    /\ Closed(row)
    /\ row.closedAt <= clock
    /\ row.lastSeenAt + Lease + Grace < row.closedAt

(* A claim's token is its own, and the row that still bears it has neither *)
(* overflowed nor been armed since.                                        *)
Claimed == {"judge", "resolve", "commit", "relist", "finish"}
ClaimsOK ==
  /\ \A p \in Passes : pass[p].token <= minted
  /\ \A p \in Passes : pass[p].token # 0 <=> pass[p].pc \in Claimed
  /\ \A p, q \in Passes :
       pass[p].token # 0 /\ pass[p].token = pass[q].token => p = q
  /\ \A p \in Passes :
       pass[p].token # 0 /\ finishAdmits(row, pass[p].epoch, pass[p].token)
         => row.triageStatus \notin {"overflowed", "pending"}

Further ==
  /\ ErasureIsFinal
  /\ NoWriteLostToTriage
  /\ BornOK
  /\ StragglersOK
  /\ SweptOK
  /\ ClaimsOK

(* What the action properties say of a step.                               *)
DurableStep ==
  ExplicitlyClosed(row)
    => \/ ExplicitlyClosed(row')
       \/ /\ row'.activationEpoch > row.activationEpoch
          /\ \A w \in Writers : writer'[w] = writer[w]
StopStep ==
  \A s \in Stops :
    stop[s].pc # "idle" /\ stop'[s].pc = "idle" /\ row' # row => ~Closed(row')
EpochStep ==
  /\ Exists(row)
  /\ Live(row, clock)
  /\ row'.activationEpoch # row.activationEpoch
  => \/ erased' # erased
     \/ \E stamp \in OpenStamps, now \in Nows : Open("resume", stamp, now)
ExcerptStep ==
  row.lastMessageExcerpt = "text" /\ row'.lastMessageExcerpt = NULL
    => Closed(row)
OverflowStep ==
  row.triageStatus = "overflowed" => row'.triageStatus = "overflowed"

Kept ==
  /\ Further'
  /\ DurableStep /\ StopStep /\ EpochStep /\ ExcerptStep /\ OverflowStep

(* What a step may leave alone, and what follows for each part.            *)
LEMMA SameLifeKeeps ==
  ASSUME SweptOK, SameLife(row, row'), UNCHANGED <<clock, closeKind>>
  PROVE  SweptOK' /\ DurableStep /\ EpochStep
BY DEF SameLife, SweptOK, Closed, DurableStep, EpochStep, ExplicitlyClosed,
       isExplicitClose

LEMMA SameContentKeeps ==
  ASSUME ErasureIsFinal, SameContent(row, row'), UNCHANGED erased
  PROVE  ErasureIsFinal' /\ ExcerptStep
BY RowAssumption DEF SameContent, ErasureIsFinal, ExcerptStep

LEMMA SameTriageKeeps ==
  ASSUME NoWriteLostToTriage, SameTriage(row, row'),
         UNCHANGED <<erased, events, closerEvents>>
  PROVE  NoWriteLostToTriage' /\ OverflowStep
BY DEF SameTriage, NoWriteLostToTriage, Untriaged, OverflowStep

LEMMA BornKeeps ==
  ASSUME Exists(row')
  PROVE  BornOK'
BY DEF BornOK, Exists

(* Nothing of a run's past is too young for the clients it has in flight.  *)
LEMMA StragglersKeep ==
  ASSUME StragglersOK, OtherTypes, row \in Row, row' \in Row,
         row'.lastSeenAt >= row.lastSeenAt, UNCHANGED <<clock, sweep>>,
         \A s \in Stops : stop'[s] = stop[s] \/ stop'[s].now <= clock,
         \A w \in Writers :
           \/ writer'[w] = writer[w]
           \/ writer'[w].pc = "idle" /\ writer'[w].now <= clock
  PROVE  StragglersOK'
<1>1. row.lastSeenAt \in Nat /\ row'.lastSeenAt \in Nat /\ Lease \in Nat
      /\ \A w \in Writers : writer[w].now \in Nat
  BY LeaseAssumption DEF Row, Instant, OtherTypes, WriterStates
<1> QED
  BY <1>1 DEF StragglersOK

(* No claim is current for a run that is open, or that moves on.           *)
LEMMA ClaimsKeep ==
  ASSUME ClaimsOK, Core, OtherTypes, UNCHANGED pass,
         minted' = minted \/ minted' = minted + 1,
         \/ row'.activationEpoch = row.activationEpoch + 1
         \/ row'.activationEpoch = row.activationEpoch /\ ~Closed(row)
         \/ /\ row'.activationEpoch = row.activationEpoch
            /\ row'.triageAttemptId = row.triageAttemptId
            /\ \/ row'.triageStatus = row.triageStatus
               \/ row'.triageStatus \notin {"overflowed", "pending"}
               \/ row.triageStatus \in {"overflowed", "pending"}
  PROVE  ClaimsOK'
<1>1. ASSUME NEW p \in Passes, pass[p].token # 0,
             finishAdmits(row', pass[p].epoch, pass[p].token)
      PROVE  row'.triageStatus \notin {"overflowed", "pending"}
  <2>1. pass[p].pc # "idle" /\ pass[p].epoch \in Nat /\ row.activationEpoch \in Nat
    BY <1>1 DEF ClaimsOK, Claimed, OtherTypes, PassStates, Core, Row
  <2>2. /\ pass[p].epoch <= row.activationEpoch
        /\ pass[p].epoch = row.activationEpoch => Closed(row)
    BY <2>1 DEF Core, PassFenced
  <2> QED
    BY <1>1, <2>1, <2>2 DEF ClaimsOK, finishAdmits
<1>2. \A p \in Passes : pass[p].token <= minted'
  <2>1. minted \in Nat /\ \A p \in Passes : pass[p].token \in Nat
    BY DEF OtherTypes, PassStates
  <2> QED
    BY <2>1 DEF ClaimsOK
<1> QED
  BY <1>1, <1>2 DEF ClaimsOK, finishAdmits

(* A step that leaves the row alone.                                       *)
LEMMA RowStays ==
  ASSUME Further, BornOK', StragglersOK', ClaimsOK',
         UNCHANGED <<row, clock, events, erased, closerEvents, closeKind>>
  PROVE  Kept
<1>1. SameLife(row, row') /\ SameContent(row, row') /\ SameTriage(row, row')
  BY DEF SameLife, SameContent, SameTriage
<1>2. StopStep
  BY DEF StopStep
<1> QED
  BY <1>1, <1>2, SameLifeKeeps, SameContentKeeps, SameTriageKeeps
  DEF Kept, Further

(* A step that beats the lease, and one that begins an activation.         *)
LEMMA BeatKeeps ==
  ASSUME row \in Row, row' \in Row, NEW now \in Instant, Beaten(row, row', now),
         closeKind' # "sweep"
  PROVE  /\ SweptOK' /\ DurableStep /\ EpochStep
         /\ row'.lastSeenAt >= row.lastSeenAt
         /\ Exists(row) => Exists(row')
<1>1. /\ row.lastSeenAt \in Nat /\ row'.lastSeenAt \in Nat /\ Lease \in Nat
      /\ now \in Nat /\ row.closedAt \in Nat \cup {NULL}
  BY LeaseAssumption DEF Row, Instant
<1>2. row'.lastSeenAt >= row.lastSeenAt
  BY <1>1 DEF Beaten, monotonicLastSeen, Greatest
<1>3. DurableStep
  BY <1>1, <1>2 DEF Beaten, DurableStep, ExplicitlyClosed, isExplicitClose
<1> QED
  BY <1>2, <1>3 DEF Beaten, SweptOK, EpochStep, Exists

LEMMA BegunKeeps ==
  ASSUME row \in Row, row' \in Row, clock \in Instant, NEW now \in Instant,
         now <= clock, Begun(row, row', now), reopens(row, now),
         closeKind' # "sweep"
  PROVE  /\ SweptOK' /\ EpochStep /\ Exists(row')
         /\ row'.lastSeenAt >= row.lastSeenAt
         /\ row'.activationEpoch > row.activationEpoch
<1>1. /\ row.lastSeenAt \in Nat /\ row'.lastSeenAt \in Nat /\ Lease \in Nat
      /\ now \in Nat /\ clock \in Nat /\ row.activationEpoch \in Nat
  BY LeaseAssumption DEF Row, Instant
<1>2. row'.lastSeenAt >= row.lastSeenAt
  BY <1>1 DEF Begun, monotonicLastSeen, Greatest
<1>3. ~Live(row, clock)
  BY <1>1 DEF reopens, Live, isLeased, leaseFloor
<1> QED
  BY <1>1, <1>2, <1>3 DEF Begun, SweptOK, EpochStep, Exists

LEMMA OpenKeeps ==
  ASSUME IInv, IInv', Further,
         NEW source \in Sources, NEW stamp \in OpenStamps, NEW now \in Nows,
         Open(source, stamp, now)
  PROVE  Kept
<1> USE DEF clients, worker, tokens
<1>1. /\ row \in Row /\ row' \in Row /\ OtherTypes /\ Core
      /\ now \in Instant /\ now <= clock /\ clock \in Instant
  BY NowsType DEF IInv, Core, OtherTypes, Nows
<1>2. /\ ~erased /\ UNCHANGED <<clock, events, erased, stop, writer, sweep, pass,
                               minted, closerEvents>>
      /\ closeKind' = IF Closed(row') THEN closeKind ELSE "none"
  BY DEF Open
<1>3. ErasureIsFinal' /\ StopStep
  BY <1>2 DEF ErasureIsFinal, StopStep
<1>4. CASE Exists(row)
  <2>1. Opened(row, row', source, now)
    BY <1>1, <1>4, OpenIs DEF Open, Update
  <2>2. closeKind' = "none" /\ ~Closed(row')
    BY <1>2, <2>1 DEF Opened, Closed
  <2>3. NoWriteLostToTriage' /\ OverflowStep
    BY <1>2, <2>1, SameTriageKeeps DEF Opened, Further
  <2>4. SweptOK' /\ row'.lastSeenAt >= row.lastSeenAt /\ Exists(row')
    <3>1. row.lastSeenAt \in Nat /\ now \in Nat /\ row.activationEpoch \in Nat
      BY <1>1 DEF Row, Instant
    <3> QED
      BY <1>4, <2>1, <2>2, <3>1
      DEF SweptOK, Opened, monotonicLastSeen, Greatest, Exists
  <2>5. DurableStep
    <3>1. CASE reopens(row, now)
      BY <1>1, <1>2, <2>1, <3>1 DEF DurableStep, Opened, Row
    <3>2. CASE ~reopens(row, now)
      BY <3>2 DEF DurableStep, ExplicitlyClosed, isExplicitClose, reopens, Closed
    <3> QED
      BY <3>1, <3>2
  <2>6. EpochStep
    <3>1. SUFFICES ASSUME Live(row, clock),
                          row'.activationEpoch # row.activationEpoch
                   PROVE  \E t \in OpenStamps, n \in Nows : Open("resume", t, n)
      BY DEF EpochStep
    <3>2. ~reopens(row, now)
      <4>1. row.lastSeenAt \in Nat /\ now \in Nat /\ clock \in Nat /\ Lease \in Nat
        BY <1>1, LeaseAssumption DEF Row, Instant
      <4> QED
        BY <1>1, <3>1, <4>1 DEF Live, reopens, isLeased, leaseFloor
    <3>3. source = "resume"
      BY <2>1, <3>1, <3>2 DEF Opened
    <3> QED
      BY <3>3
  <2>7. ExcerptStep
    BY <2>1, RowAssumption DEF ExcerptStep, Opened
  <2>8. BornOK' /\ StragglersOK' /\ ClaimsOK'
    BY <1>1, <1>2, <2>1, <2>4, BornKeeps, StragglersKeep, ClaimsKeep
    DEF Further, Opened, SameTriage
  <2> QED
    BY <1>3, <2>3, <2>4, <2>5, <2>6, <2>7, <2>8 DEF Kept, Further
<1>5. CASE ~Exists(row)
  <2>1. row' = insertSession(stamp, now) /\ row = NoRow
    BY <1>5 DEF Open, Update, Further, BornOK
  <2>2. /\ row'.activationEpoch = 1 /\ row'.closedAt = NULL
        /\ row'.lastSeenAt = now /\ row'.triageStatus = "idle"
        /\ row'.lastMessageExcerpt = NULL
    BY <2>1, InsertIs
  <2>3. /\ row.activationEpoch = 0 /\ row.closedAt = NULL /\ row.lastSeenAt = 0
        /\ row.triageStatus = "idle" /\ row.lastMessageExcerpt = NULL
    BY <2>1 DEF NoRow
  <2>4. NoWriteLostToTriage' /\ OverflowStep /\ ExcerptStep
    BY <2>2, <2>3, RowAssumption
    DEF NoWriteLostToTriage, OverflowStep, ExcerptStep
  <2>5. SweptOK' /\ DurableStep /\ EpochStep
    BY <1>2, <1>5, <2>2, <2>3
    DEF SweptOK, Closed, DurableStep, ExplicitlyClosed, isExplicitClose, EpochStep
  <2>6. row'.lastSeenAt >= row.lastSeenAt
    BY <1>1, <2>2, <2>3 DEF Instant
  <2>7. row'.activationEpoch = row.activationEpoch + 1
    BY <2>2, <2>3
  <2>8. BornOK' /\ StragglersOK' /\ ClaimsOK'
    BY <1>1, <1>2, <2>2, <2>6, <2>7, BornKeeps, StragglersKeep, ClaimsKeep
    DEF Further, Exists
  <2> QED
    BY <1>3, <2>4, <2>5, <2>8 DEF Kept, Further
<1> QED
  BY <1>4, <1>5

LEMMA CloseKeeps ==
  ASSUME IInv, IInv', Further, NEW now \in Nows, Close(now)
  PROVE  Kept
<1> USE DEF clients, worker, tokens
<1>1. row \in Row /\ row' \in Row /\ OtherTypes /\ Core
  BY DEF IInv, Core
<1>2. /\ Exists(row)
      /\ UNCHANGED <<clock, events, erased, stop, writer, sweep, pass,
                     minted, closerEvents>>
      /\ closeKind' = IF Closed(row) THEN closeKind ELSE "client"
  BY DEF Close
<1>3. /\ SameContent(row, row') /\ SameTriage(row, row')
      /\ row'.activationEpoch = row.activationEpoch
      /\ row'.lastSeenAt = row.lastSeenAt
      /\ row'.closedAt = IF Closed(row) THEN row.closedAt ELSE now
  BY <1>1, CloseIs DEF Close, Update
<1>4. ErasureIsFinal' /\ ExcerptStep /\ NoWriteLostToTriage' /\ OverflowStep
  BY <1>2, <1>3, SameContentKeeps, SameTriageKeeps DEF Further
<1>5. SweptOK' /\ DurableStep /\ EpochStep
  <2>1. CASE Closed(row)
    BY <1>2, <1>3, <2>1, SameLifeKeeps DEF SameLife, Further
  <2>2. CASE ~Closed(row)
    BY <1>2, <1>3, <2>2
    DEF SweptOK, DurableStep, EpochStep, ExplicitlyClosed, isExplicitClose, Closed
  <2> QED
    BY <2>1, <2>2
<1>6. BornOK' /\ StragglersOK' /\ ClaimsOK'
  <2>1. Exists(row') /\ row'.lastSeenAt >= row.lastSeenAt
    BY <1>1, <1>2, <1>3 DEF Exists, Row, Instant
  <2> QED
    BY <1>1, <1>2, <1>3, <2>1, BornKeeps, StragglersKeep, ClaimsKeep
    DEF Further, SameTriage
<1>7. StopStep
  BY <1>2 DEF StopStep
<1> QED
  BY <1>4, <1>5, <1>6, <1>7 DEF Kept, Further

LEMMA StopProbeKeeps ==
  ASSUME IInv, IInv', Further,
         NEW s \in Stops, NEW excerpt, NEW now \in Nows, StopProbe(s, excerpt, now)
  PROVE  Kept
<1> USE DEF shared, worker, tokens, history
<1>1. OtherTypes /\ now <= clock
  BY DEF IInv, Nows
<1>2. /\ UNCHANGED <<clock, row, events, erased, writer, sweep, pass, minted,
                     closerEvents, closeKind>>
      /\ Exists(row)
      /\ \A r \in Stops : r # s => stop'[r] = stop[r]
      /\ stop'[s].now = now
  BY <1>1 DEF StopProbe, OtherTypes
<1>3. BornOK'
  BY <1>2, BornKeeps
<1>4. StragglersOK' /\ ClaimsOK'
  BY <1>1, <1>2 DEF Further, StragglersOK, ClaimsOK
<1> QED
  BY <1>2, <1>3, <1>4, RowStays

(* A Stop that leaves: its UPDATE finds the run open, or opens it.         *)
LEMMA StopKeeps ==
  ASSUME IInv, IInv', Further,
         NEW s \in Stops, StopFast(s) \/ StopSlow(s) \/ StopAborts(s)
  PROVE  Kept
<1> USE DEF shared, worker, tokens, history
<1>1. /\ row \in Row /\ row' \in Row /\ OtherTypes /\ Core /\ clock \in Instant
      /\ stop[s].now \in Instant /\ stop[s].excerpt \in BOOLEAN
      /\ erased \in BOOLEAN
  BY DEF IInv, Core, OtherTypes, StopStates
<1>2. /\ UNCHANGED <<clock, events, erased, writer, sweep, pass, minted,
                     closerEvents>>
      /\ \A r \in Stops : r # s => stop'[r] = stop[r]
      /\ stop[s].pc # "idle" /\ stop[s].now <= clock /\ Exists(row)
      /\ stop'[s] = IdleStop \/ stop'[s].now = stop[s].now
  BY <1>1 DEF StopFast, StopSlow, StopAborts, OtherTypes, StopStates,
              Further, StragglersOK, BornOK
<1>3. \A r \in Stops : stop'[r] = stop[r] \/ stop'[r].now <= clock
  BY <1>1, <1>2 DEF IdleStop, Instant
<1>4. CASE row' = row /\ closeKind' = closeKind
  <2>1. BornOK' /\ StragglersOK' /\ ClaimsOK'
    BY <1>2, <1>3, <1>4, BornKeeps DEF Further, StragglersOK, ClaimsOK
  <2> QED
    BY <1>2, <1>4, <2>1, RowStays
<1>5. ASSUME NEW again \in BOOLEAN,
             row' = refreshLease(row, stop[s].excerpt, erased, stop[s].now, again),
             again => reopens(row, stop[s].now), ~again => ~Closed(row),
             closeKind' # "sweep"
      PROVE  Kept
  <2>1. /\ again => Begun(row, row', stop[s].now)
        /\ ~again => Beaten(row, row', stop[s].now)
        /\ row'.briefedMemories = row.briefedMemories
        /\ row'.lastMessageExcerpt = IF stop[s].excerpt /\ ~erased
                                     THEN "text" ELSE row.lastMessageExcerpt
        /\ SameTriage(row, row')
    BY <1>1, <1>5, RefreshIs
  <2>2. ErasureIsFinal' /\ ExcerptStep
    BY <1>2, <2>1, RowAssumption DEF ErasureIsFinal, ExcerptStep, Further
  <2>3. NoWriteLostToTriage' /\ OverflowStep
    BY <1>2, <2>1, SameTriageKeeps DEF Further
  <2>4. /\ SweptOK' /\ DurableStep /\ EpochStep /\ Exists(row')
        /\ row'.lastSeenAt >= row.lastSeenAt
    <3>1. CASE again
      BY <1>1, <1>2, <1>5, <2>1, <3>1, BegunKeeps DEF DurableStep
    <3>2. CASE ~again
      BY <1>1, <1>2, <1>5, <2>1, <3>2, BeatKeeps
    <3> QED
      BY <3>1, <3>2
  <2>5. BornOK' /\ StragglersOK' /\ ClaimsOK'
    <3>1. row'.activationEpoch \in {row.activationEpoch, row.activationEpoch + 1}
      BY <2>1 DEF Begun, Beaten
    <3> QED
      BY <1>1, <1>2, <1>3, <2>1, <2>4, <3>1, BornKeeps, StragglersKeep, ClaimsKeep
      DEF Further, SameTriage
  <2>6. ~Closed(row')
    BY <1>5, <2>1 DEF Begun, Beaten, reopens, Closed
  <2>7. StopStep
    BY <2>6 DEF StopStep
  <2> QED
    BY <2>2, <2>3, <2>4, <2>5, <2>7 DEF Kept, Further
<1>6. CASE StopFast(s)
  <2>1. CASE onlyOpenMatches(row)
    <3>1. ~Closed(row) /\ closeKind' # "sweep"
      BY <1>6, <2>1 DEF onlyOpenMatches, StopFast, Further, SweptOK
    <3>2. row' = refreshLease(row, stop[s].excerpt, erased, stop[s].now, FALSE)
      BY <1>6, <2>1 DEF StopFast, Update
    <3> QED
      BY <1>5, <3>1, <3>2
  <2>2. CASE ~onlyOpenMatches(row)
    BY <1>4, <1>6, <2>2 DEF StopFast
  <2> QED
    BY <2>1, <2>2
<1>7. CASE StopSlow(s)
  <2>1. PICK again \in BOOLEAN : again <=> reopens(row, stop[s].now)
    OBVIOUS
  <2>2. again = reopens(row, stop[s].now) /\ (~again => ~Closed(row))
    BY <2>1 DEF reopens, Closed, isLeased
  <2> QED
    BY <1>5, <1>7, <2>1, <2>2 DEF StopSlow, Update
<1>8. CASE StopAborts(s)
  BY <1>4, <1>8 DEF StopAborts
<1> QED
  BY <1>6, <1>7, <1>8

-----------------------------------------------------------------------------
(* Attributed writes.                                                      *)

(* No write in flight can reach a run that was swept: its clock is of the  *)
(* hour of grace, and the lease ran out before that.                       *)
LEMMA BeyondReach ==
  ASSUME Core, OtherTypes, Further, closeKind = "sweep",
         NEW now \in Instant, clock <= now + MaxInFlight
  PROVE  ~isLeased(row.lastSeenAt, now)
<1>1. /\ row.lastSeenAt \in Nat /\ row.closedAt \in Nat /\ clock \in Nat
      /\ now \in Nat /\ Lease \in Nat /\ Grace \in Nat /\ MaxInFlight \in Nat
  BY LeaseAssumption, RunAssumption
  DEF Core, Row, Instant, OtherTypes, Further, SweptOK, Closed
<1>2. /\ row.closedAt <= clock /\ row.lastSeenAt + Lease + Grace < row.closedAt
  BY DEF Further, SweptOK
<1>3. MaxInFlight <= Grace
  BY InFlightAssumption
<1> QED
  BY <1>1, <1>2, <1>3 DEF isLeased, leaseFloor

LEMMA AttachProbeKeeps ==
  ASSUME IInv, IInv', Further,
         NEW w \in Writers, NEW now \in Nows, AttachProbe(w, now)
  PROVE  Kept
<1> USE DEF shared, worker, tokens, history
<1>1. /\ OtherTypes /\ now <= clock /\ clock - now <= MaxInFlight
      /\ now \in Nat /\ clock \in Nat /\ MaxInFlight \in Nat /\ Lease \in Nat
      /\ row.lastSeenAt \in Nat
  BY NowsType, LeaseAssumption, RunAssumption
  DEF IInv, Nows, OtherTypes, Instant, Core, Row
<1>2. /\ UNCHANGED <<clock, row, events, erased, stop, sweep, pass, minted,
                     closerEvents, closeKind>>
      /\ Exists(row)
      /\ \A v \in Writers : v # w => writer'[v] = writer[v]
      /\ writer'[w].now = now
      /\ writer'[w].pc = "beat" => isLeased(row.lastSeenAt, now)
  BY <1>1 DEF AttachProbe, OtherTypes
<1>3. BornOK' /\ ClaimsOK'
  BY <1>2, BornKeeps DEF Further, ClaimsOK
<1>4. writer'[w].pc = "beat" => now < row.lastSeenAt + Lease
  BY <1>1, <1>2 DEF isLeased, leaseFloor
<1>5. StragglersOK'
  BY <1>1, <1>2, <1>4 DEF Further, StragglersOK
<1> QED
  BY <1>2, <1>3, <1>5, RowStays

LEMMA AttachLeaves ==
  ASSUME IInv, IInv', Further,
         NEW w \in Writers, AttachRefused(w) \/ AttachAborts(w)
  PROVE  Kept
<1> USE DEF shared, worker, tokens, history
<1>1. /\ OtherTypes /\ clock \in Nat /\ MaxInFlight \in Nat
  BY RunAssumption DEF IInv, OtherTypes, Instant
<1>2. /\ UNCHANGED <<clock, row, events, erased, stop, sweep, pass, minted,
                     closerEvents, closeKind>>
      /\ Exists(row)
      /\ \A v \in Writers : v # w => writer'[v] = writer[v]
      /\ writer'[w] = IdleWriter
  BY <1>1 DEF AttachRefused, AttachAborts, OtherTypes, Further, BornOK
<1>3. BornOK' /\ ClaimsOK'
  BY <1>2, BornKeeps DEF Further, ClaimsOK
<1>4. StragglersOK'
  BY <1>1, <1>2 DEF Further, StragglersOK, IdleWriter
<1> QED
  BY <1>2, <1>3, <1>4, RowStays

(* A write that lands: its event commits and re-arms what was settled.     *)
LEMMA AttachLands ==
  ASSUME IInv, IInv', Further, Exists(row), Touched(row, row'),
         NEW now \in Instant, now <= clock,
         \/ Beaten(row, row', now)
         \/ /\ Begun(row, row', now) /\ reopens(row, now)
            /\ ~ExplicitlyClosed(row),
         closeKind' # "sweep",
         UNCHANGED <<clock, erased, stop, sweep, pass, minted, closerEvents>>,
         \A w \in Writers :
           \/ writer'[w] = writer[w]
           \/ writer'[w].pc = "idle" /\ writer'[w].now <= clock
  PROVE  Kept
<1>1. row \in Row /\ row' \in Row /\ OtherTypes /\ Core /\ clock \in Instant
  BY DEF IInv, Core, OtherTypes
<1>2. ErasureIsFinal' /\ ExcerptStep /\ NoWriteLostToTriage' /\ OverflowStep
  BY SameContentKeeps DEF Touched, Further, NoWriteLostToTriage, OverflowStep
<1>3. /\ SweptOK' /\ DurableStep /\ EpochStep /\ Exists(row')
      /\ row'.lastSeenAt >= row.lastSeenAt
  <2>1. CASE Beaten(row, row', now)
    BY <1>1, <2>1, BeatKeeps
  <2>2. CASE Begun(row, row', now) /\ reopens(row, now) /\ ~ExplicitlyClosed(row)
    BY <1>1, <2>2, BegunKeeps DEF DurableStep
  <2> QED
    BY <2>1, <2>2
<1>4. BornOK' /\ StragglersOK'
  BY <1>1, <1>3, BornKeeps, StragglersKeep DEF Further
<1>5. ClaimsOK'
  <2>1. \/ row'.triageStatus = row.triageStatus
        \/ row'.triageStatus \notin {"overflowed", "pending"}
    BY DEF Touched
  <2>2. row'.activationEpoch \in {row.activationEpoch, row.activationEpoch + 1}
    BY DEF Begun, Beaten
  <2> QED
    BY <1>1, <2>1, <2>2, ClaimsKeep DEF Further, Touched
<1>6. StopStep
  BY DEF StopStep
<1> QED
  BY <1>2, <1>3, <1>4, <1>5, <1>6 DEF Kept, Further

LEMMA AttachKeeps ==
  ASSUME IInv, IInv', Further, NEW e,
         \/ \E w \in Writers : AttachBeat(w, e) \/ AttachLocked(w, e)
         \/ \E now \in Nows : AttachSingleOpen(e, now)
  PROVE  Kept
<1> USE DEF clients, worker, tokens, history
<1>1. /\ row \in Row /\ row' \in Row /\ OtherTypes /\ Core
      /\ clock \in Nat /\ MaxInFlight \in Nat
  BY RunAssumption DEF IInv, Core, OtherTypes, Instant
<1>2. ASSUME NEW w \in Writers, AttachBeat(w, e) \/ AttachLocked(w, e)
      PROVE  /\ writer[w].now \in Instant /\ writer[w].now <= clock /\ Exists(row)
             /\ clock <= writer[w].now + MaxInFlight
             /\ UNCHANGED <<clock, erased, stop, sweep, pass, minted, closerEvents>>
             /\ \A v \in Writers :
                  \/ writer'[v] = writer[v]
                  \/ writer'[v].pc = "idle" /\ writer'[v].now <= clock
  <2>1. writer[w].pc # "idle" /\ writer' = [writer EXCEPT ![w] = IdleWriter]
    BY <1>2 DEF AttachBeat, AttachLocked
  <2>2. \A v \in Writers : writer'[v] = IF v = w THEN IdleWriter ELSE writer[v]
    BY <1>1, <2>1 DEF OtherTypes
  <2>3. IdleWriter.pc = "idle" /\ IdleWriter.now <= clock
    BY <1>1 DEF IdleWriter
  <2> QED
    BY <1>1, <1>2, <2>1, <2>2, <2>3
    DEF AttachBeat, AttachLocked, Further, StragglersOK, BornOK,
        OtherTypes, WriterStates
<1>3. ASSUME NEW w \in Writers, AttachBeat(w, e)
      PROVE  Kept
  <2>1. Beaten(row, row', writer[w].now) /\ Touched(row, row')
    BY <1>1, <1>3, HeartbeatIs DEF AttachBeat, Update
  <2>2. isLeased(row.lastSeenAt, writer[w].now)
    <3>1. /\ row.lastSeenAt \in Nat /\ Lease \in Nat /\ writer[w].now \in Nat
          /\ writer[w].now < row.lastSeenAt + Lease
      BY <1>1, <1>2, <1>3, LeaseAssumption
      DEF AttachBeat, Further, StragglersOK, Row, Instant
    <3> QED
      BY <3>1 DEF isLeased, leaseFloor
  <2>3. closeKind' # "sweep"
    BY <1>1, <1>2, <1>3, <2>2, BeyondReach DEF AttachBeat
  <2> QED
    BY <1>2, <1>3, <2>1, <2>3, AttachLands
<1>4. ASSUME NEW w \in Writers, AttachLocked(w, e)
      PROVE  Kept
  <2>1. /\ ~ExplicitlyClosed(row)
        /\ row' = lockedAttach(row, writer[w].now)
        /\ closeKind' = IF Closed(row') THEN closeKind ELSE "none"
    BY <1>4 DEF AttachLocked, lockedRefuses, Update
  <2>2. CASE isLeased(row.lastSeenAt, writer[w].now)
    <3>1. Beaten(row, row', writer[w].now) /\ Touched(row, row')
      BY <1>1, <2>1, <2>2, HeartbeatIs DEF lockedAttach
    <3>2. closeKind' # "sweep"
      BY <1>1, <1>2, <1>4, <2>1, <2>2, BeyondReach
    <3> QED
      BY <1>2, <1>4, <3>1, <3>2, AttachLands
  <2>3. CASE ~isLeased(row.lastSeenAt, writer[w].now)
    <3>1. Begun(row, row', writer[w].now) /\ Touched(row, row')
      BY <1>1, <2>1, <2>3, ResurrectIs DEF lockedAttach
    <3>2. closeKind' # "sweep"
      BY <2>1, <3>1 DEF Begun, Closed
    <3>3. reopens(row, writer[w].now)
      BY <2>3 DEF reopens
    <3> QED
      BY <1>2, <1>4, <2>1, <3>1, <3>2, <3>3, AttachLands
  <2> QED
    BY <2>2, <2>3
<1>5. ASSUME NEW now \in Nows, AttachSingleOpen(e, now)
      PROVE  Kept
  <2>1. now \in Instant /\ now <= clock
    BY <1>1, NowsType DEF Nows, Instant
  <2>2. Beaten(row, row', now) /\ Touched(row, row')
    BY <1>1, <1>5, HeartbeatIs DEF AttachSingleOpen, Update
  <2>3. closeKind' # "sweep"
    BY <1>5 DEF AttachSingleOpen, Live, Further, SweptOK
  <2>4. /\ UNCHANGED <<clock, erased, stop, writer, sweep, pass, minted, closerEvents>>
        /\ Exists(row)
    BY <1>5 DEF AttachSingleOpen
  <2> QED
    BY <2>1, <2>2, <2>3, <2>4, AttachLands
<1> QED
  BY <1>3, <1>4, <1>5

-----------------------------------------------------------------------------
(* The handshake and the sweep.                                            *)

LEMMA TriageKeeps ==
  ASSUME IInv, IInv', Further, Triage
  PROVE  Kept
<1> USE DEF clients, worker, history, shared
<1>1. row \in Row /\ row' \in Row /\ OtherTypes /\ Core
  BY DEF IInv, Core
<1>2. /\ UNCHANGED <<clock, events, erased, stop, writer, sweep, pass,
                     closerEvents, closeKind>>
      /\ Exists(row)
  <2>1. ASSUME NEW a, NEW defensive, TriageComplete(a, defensive)
        PROVE  Exists(row)
    <3>1. row.triageStatus = "pending" /\ NoRow.triageStatus = "idle"
      BY <2>1 DEF TriageComplete, AttemptCurrent, NoRow
    <3> QED
      BY <3>1 DEF Further, BornOK
  <2>2. Exists(row)
    BY <2>1, Zenon DEF Triage, TriageArm, TriagePending
  <2>3. UNCHANGED <<clock, events, erased, stop, writer, sweep, pass,
                    closerEvents, closeKind>>
    <3>1. ASSUME NEW substantial, NEW active, NEW delivered, NEW now,
                 TriageArm(substantial, active, delivered, now)
          PROVE  UNCHANGED <<clock, events, erased, stop, writer, sweep, pass,
                             closerEvents, closeKind>>
      BY <3>1 DEF TriageArm
    <3>2. ASSUME NEW active, NEW now, TriagePending(active, now)
          PROVE  UNCHANGED <<clock, events, erased, stop, writer, sweep, pass,
                             closerEvents, closeKind>>
      BY <3>2 DEF TriagePending
    <3>3. ASSUME NEW a, NEW defensive, TriageComplete(a, defensive)
          PROVE  UNCHANGED <<clock, events, erased, stop, writer, sweep, pass,
                             closerEvents, closeKind>>
      BY <3>3 DEF TriageComplete
    <3> QED
      BY <3>1, <3>2, <3>3 DEF Triage
  <2> QED
    BY <2>2, <2>3
<1>3. ASSUME SameLife(row, row'), SameContent(row, row'), ClaimsOK',
             NoWriteLostToTriage', OverflowStep
      PROVE  Kept
  <2>1. SweptOK' /\ DurableStep /\ EpochStep /\ ErasureIsFinal' /\ ExcerptStep
    BY <1>2, <1>3, SameLifeKeeps, SameContentKeeps DEF Further
  <2>2. Exists(row') /\ row'.lastSeenAt >= row.lastSeenAt
    BY <1>1, <1>2, <1>3 DEF SameLife, Exists, Row, Instant
  <2>3. BornOK' /\ StragglersOK' /\ StopStep
    BY <1>1, <1>2, <2>2, BornKeeps, StragglersKeep DEF Further, StopStep
  <2> QED
    BY <1>3, <2>1, <2>3 DEF Kept, Further
<1>4. ASSUME NEW substantial, NEW active, NEW delivered, NEW now,
             TriageArm(substantial, active, delivered, now)
      PROVE  Kept
  <2>1. ~Closed(row) /\ row.triageStatus # "overflowed"
    BY <1>4 DEF TriageArm, evaluateTriageEntry, Live
  <2>2. PICK listing \in Listings(events) :
          row' = armAttempt(row, minted + 1, listing, Truncated(events), clock)
    BY <1>4 DEF TriageArm, Update
  <2>3. /\ SameLife(row, row') /\ SameContent(row, row')
        /\ row'.triageStatus # "completed"
    <3>1. Truncated(events) \in BOOLEAN
      BY DEF Truncated
    <3> QED
      BY <1>1, <2>2, <3>1, ArmIs
  <2>4. ClaimsOK'
    BY <1>1, <1>2, <1>4, <2>1, <2>3, ClaimsKeep DEF TriageArm, SameLife, Further
  <2> QED
    BY <1>3, <2>1, <2>3, <2>4 DEF OverflowStep, NoWriteLostToTriage
<1>5. ASSUME NEW active, NEW now, TriagePending(active, now)
      PROVE  Kept
  <2>1. UNCHANGED <<row, minted>>
    BY <1>5 DEF TriagePending
  <2>2. BornOK' /\ StragglersOK' /\ ClaimsOK'
    BY <1>2, <2>1, BornKeeps DEF Further, StragglersOK, ClaimsOK
  <2> QED
    BY <1>2, <2>1, <2>2, RowStays
<1>6. ASSUME NEW a, NEW defensive \in BOOLEAN, TriageComplete(a, defensive)
      PROVE  Kept
  <2>1. row.triageStatus = "pending" /\ UNCHANGED minted
    BY <1>6 DEF TriageComplete, AttemptCurrent, tokens
  <2>2. PICK listing \in Listings(events) :
          row' = completeSessionTriage(row, events, listing, defensive)
    BY <1>6 DEF TriageComplete, Update
  <2>3. /\ SameLife(row, row') /\ SameContent(row, row') /\ Settled(row', events)
        /\ row'.triageAttemptId = row.triageAttemptId
    BY <1>1, <2>2, CompleteIs
  <2>4. ClaimsOK'
    BY <1>1, <1>2, <2>1, <2>3, ClaimsKeep DEF SameLife, Further
  <2> QED
    BY <1>2, <1>3, <2>1, <2>3, <2>4
    DEF OverflowStep, NoWriteLostToTriage, Settled, Untriaged
<1> QED
  BY <1>4, <1>5, <1>6 DEF Triage

LEMMA SweepKeeps ==
  ASSUME IInv, IInv', Further, Sweep
  PROVE  Kept
<1> USE DEF clients, worker, tokens, history, shared
<1>1. row \in Row /\ row' \in Row /\ OtherTypes /\ Core /\ clock \in Instant
  BY DEF IInv, Core, OtherTypes
<1>2. /\ UNCHANGED <<clock, events, erased, stop, writer, pass, minted, closerEvents>>
      /\ sweep'.now <= clock
  <2>1. sweep'.now = sweep.now \/ sweep'.now \in Nows \/ sweep' = IdleSweep
    BY <1>1 DEF Sweep, SweepSelect, SweepClose, SweepList, SweepTtlSelect,
                SweepTtlExpire, OtherTypes, SweepStates
  <2>2. sweep'.now <= clock
    BY <1>1, <2>1 DEF Nows, IdleSweep, Further, StragglersOK, Instant
  <2> QED
    BY <2>2 DEF Sweep, SweepSelect, SweepClose, SweepList, SweepTtlSelect,
                SweepTtlExpire
<1>3. CASE row' = row /\ closeKind' = closeKind
  <2>1. BornOK' /\ StragglersOK' /\ ClaimsOK'
    BY <1>2, <1>3 DEF Further, BornOK, StragglersOK, ClaimsOK
  <2> QED
    BY <1>2, <1>3, <2>1, RowStays
<1>4. ASSUME SameTriage(row, row'), Exists(row),
             row'.activationEpoch = row.activationEpoch,
             row'.lastSeenAt = row.lastSeenAt
      PROVE  /\ BornOK' /\ StragglersOK' /\ ClaimsOK' /\ StopStep
             /\ NoWriteLostToTriage' /\ OverflowStep
  <2>1. BornOK'
    BY <1>4, BornKeeps DEF Exists
  <2>2. StragglersOK' /\ StopStep
    BY <1>2, <1>4 DEF Further, StragglersOK, StopStep
  <2>3. ClaimsOK'
    BY <1>1, <1>2, <1>4, ClaimsKeep DEF SameTriage, Further
  <2> QED
    BY <1>2, <1>4, <2>1, <2>2, <2>3, SameTriageKeeps DEF Further
<1>5. CASE SweepClose /\ Sweepable(row, sweep.now)
  <2>1. /\ row' = sweepExpiredLeases(row, sweep.now) /\ closeKind' = "sweep"
        /\ sweep.pc = "close"
    BY <1>5 DEF SweepClose, Update
  <2>2. /\ SameContent(row, row') /\ SameTriage(row, row')
        /\ row'.activationEpoch = row.activationEpoch
        /\ row'.lastSeenAt = row.lastSeenAt /\ row'.closedAt = sweep.now
    BY <1>1, <2>1, SweepIs
  <2>3. /\ row.lastSeenAt \in Nat /\ sweep.now \in Nat /\ clock \in Nat
        /\ Lease \in Nat /\ Grace \in Nat
    BY <1>1, LeaseAssumption DEF Row, Instant, OtherTypes, SweepStates
  <2>4. /\ ~Closed(row) /\ sweep.now <= clock
        /\ row.lastSeenAt + Lease + Grace < sweep.now
    BY <1>5, <2>3 DEF Sweepable, sweepFloor, Further, StragglersOK
  <2>5. SweptOK' /\ DurableStep /\ EpochStep
    BY <1>2, <2>2, <2>3, <2>4, NullAssumption
    DEF SweptOK, DurableStep, EpochStep, ExplicitlyClosed, isExplicitClose, Closed
  <2>6. Exists(row) /\ ErasureIsFinal' /\ ExcerptStep
    BY <1>1, <1>2, <2>1, <2>2, SameContentKeeps DEF Core, Further
  <2> QED
    BY <1>4, <2>2, <2>5, <2>6 DEF Kept, Further
<1>6. CASE SweepTtlExpire /\ ExcerptExpirable(row)
  <2>1. row' = expireStaleExcerpts(row) /\ closeKind' = closeKind /\ Closed(row)
    BY <1>6 DEF SweepTtlExpire, Update, ExcerptExpirable
  <2>2. /\ SameLife(row, row') /\ SameTriage(row, row')
        /\ row'.briefedMemories = row.briefedMemories
        /\ row'.lastMessageExcerpt = NULL
    BY <1>1, <2>1, ExpireIs
  <2>3. ErasureIsFinal' /\ ExcerptStep
    BY <1>2, <2>1, <2>2, RowAssumption DEF Further, ErasureIsFinal, ExcerptStep
  <2>4. SweptOK' /\ DurableStep /\ EpochStep
    BY <1>2, <2>1, <2>2, SameLifeKeeps DEF Further
  <2>5. Exists(row)
    BY <1>1, <2>1 DEF Core
  <2> QED
    BY <1>4, <2>2, <2>3, <2>4, <2>5 DEF Kept, Further, SameLife
<1> QED
  BY <1>3, <1>5, <1>6
  DEF Sweep, SweepSelect, SweepClose, SweepList, SweepTtlSelect, SweepTtlExpire,
      Update

-----------------------------------------------------------------------------
(* The closer.                                                             *)

(* A pass that gives its claim up, or goes on under it.                    *)
LEMMA PassGoesOn ==
  ASSUME IInv, Further, NEW p \in Passes, NEW q, Advance(p, q),
         UNCHANGED <<row, minted>>,
         \/ q.token = 0 /\ q.pc \notin Claimed
         \/ /\ q.token = pass[p].token /\ q.epoch = pass[p].epoch
            /\ q.pc \in Claimed <=> pass[p].pc \in Claimed
  PROVE  ClaimsOK'
<1>1. /\ minted \in Nat
      /\ \A r \in Passes : pass'[r] = IF r = p THEN q ELSE pass[r]
      /\ \A r \in Passes : pass[r].token \in Nat
  BY DEF IInv, OtherTypes, Advance, PassStates
<1>2. \A r \in Passes :
        \/ pass'[r].token = 0 /\ pass'[r].pc \notin Claimed
        \/ /\ pass'[r].token = pass[r].token /\ pass'[r].epoch = pass[r].epoch
           /\ pass'[r].pc \in Claimed <=> pass[r].pc \in Claimed
  BY <1>1
<1> QED
  BY <1>1, <1>2 DEF Further, ClaimsOK

LEMMA PassAlone ==
  ASSUME IInv, Further, NEW p \in Passes, NEW q, Advance(p, q),
         UNCHANGED <<row, clock, events, erased, clients, sweep, minted,
                     closerEvents, closeKind>>,
         \/ q.token = 0 /\ q.pc \notin Claimed
         \/ /\ q.token = pass[p].token /\ q.epoch = pass[p].epoch
            /\ q.pc \in Claimed <=> pass[p].pc \in Claimed
  PROVE  Kept
<1>1. ClaimsOK'
  BY PassGoesOn
<1>2. BornOK' /\ StragglersOK'
  BY DEF clients, Further, BornOK, StragglersOK
<1> QED
  BY <1>1, <1>2, RowStays

LEMMA IdleGivesUp == IdlePass.token = 0 /\ IdlePass.pc \notin Claimed
BY DEF IdlePass, Claimed

(* A step of a pass that only reads.                                       *)
LEMMA PassReads ==
  ASSUME IInv, Further, NEW p \in Passes,
         \/ JobStart(p) \/ JobRetry(p) \/ PassList(p) \/ PassJudge(p)
         \/ PassCandidate(p) \/ PassResolveSkips(p) \/ PassRelist(p)
         \/ \E proposes \in BOOLEAN : PassResolved(p, proposes)
         \/ CloserFaults(p)
  PROVE  Kept
<1> USE DEF tokens, history
<1>1. pass[p] \in PassStates
  BY DEF IInv, OtherTypes
<1>2. UNCHANGED <<row, clock, events, erased, clients, sweep, minted,
                  closerEvents, closeKind>>
  BY DEF JobStart, JobRetry, PassList, PassJudge, PassCandidate,
         PassResolveSkips, PassRelist, PassResolved, CloserFaults, PassThrow,
         PassRecordFails, WorkerCrash, PassUnchanged
<1>3. ASSUME NEW q, Advance(p, q), q.token = 0, q.pc \notin Claimed
      PROVE  Kept
  BY <1>2, <1>3, PassAlone
<1>4. ASSUME NEW q, Advance(p, q),
             q.token = pass[p].token, q.epoch = pass[p].epoch,
             q.pc \in Claimed <=> pass[p].pc \in Claimed
      PROVE  Kept
  BY <1>2, <1>4, PassAlone
<1>5. CASE JobDone(p) \/ Advance(p, IdlePass)
  BY <1>3, <1>5, IdleGivesUp DEF JobDone
<1>6. ASSUME NEW pc, Advance(p, [pass[p] EXCEPT !.pc = pc]),
             pc \in Claimed, pass[p].pc \in Claimed
      PROVE  Kept
  <2>1. PICK q : q = [pass[p] EXCEPT !.pc = pc]
    OBVIOUS
  <2>2. q.token = pass[p].token /\ q.epoch = pass[p].epoch /\ q.pc = pc
    BY <1>1, <2>1 DEF PassStates
  <2> QED
    BY <1>4, <1>6, <2>1, <2>2
<1>7. ASSUME NEW epoch, NEW tries, ReadSession(p, epoch, tries)
      PROVE  Kept
  <2>1. CASE Advance(p, IdlePass)
    BY <1>5, <2>1
  <2>2. CASE ~Advance(p, IdlePass)
    <3>1. PICK q :
            /\ q = [IdlePass EXCEPT
                      !.pc = "list", !.epoch = epoch, !.tries = tries,
                      !.observed = row.triageAttemptId, !.status = row.triageStatus,
                      !.watermark = row.lastTriagedEventIds,
                      !.briefed = row.briefedMemories]
            /\ Advance(p, q)
      BY <1>7, <2>2 DEF ReadSession
    <3>2. q.token = 0 /\ q.pc \notin Claimed
      BY <3>1 DEF IdlePass, Claimed
    <3> QED
      BY <1>3, <3>1, <3>2
  <2> QED
    BY <2>1, <2>2
<1>8. CASE JobStart(p) \/ JobRetry(p)
  BY <1>7, <1>8 DEF JobStart, JobRetry
<1>9. CASE PassList(p)
  <2>1. pass[p].pc = "list" /\ pass[p].token = 0
    BY <1>1, <1>9 DEF PassList, Further, ClaimsOK, Claimed
  <2>2. CASE JobDone(p)
    BY <1>5, <2>2
  <2>3. CASE ~JobDone(p)
    <3>1. PICK listing, verdict, work :
            Advance(p, [pass[p] EXCEPT
              !.pc = "claim", !.listing = listing, !.verdict = verdict,
              !.work = work, !.status = "idle", !.watermark = {},
              !.briefed = FALSE])
      BY <1>9, <2>3 DEF PassList
    <3> PICK q : q = [pass[p] EXCEPT
              !.pc = "claim", !.listing = listing, !.verdict = verdict,
              !.work = work, !.status = "idle", !.watermark = {},
              !.briefed = FALSE]
      OBVIOUS
    <3>2. q.token = 0 /\ q.pc \notin Claimed
      BY <1>1, <2>1, <3>1 DEF PassStates, Claimed
    <3> QED
      BY <1>3, <3>1, <3>2
  <2> QED
    BY <2>2, <2>3
<1>10. CASE PassJudge(p)
  BY <1>5, <1>6, <1>10 DEF PassJudge, Claimed
<1>11. CASE PassCandidate(p)
  BY <1>5, <1>6, <1>11 DEF PassCandidate, Claimed
<1>12. CASE PassResolveSkips(p)
  BY <1>6, <1>12 DEF PassResolveSkips, Claimed
<1>13. ASSUME NEW proposes \in BOOLEAN, PassResolved(p, proposes)
       PROVE  Kept
  BY <1>5, <1>6, <1>13 DEF PassResolved, Claimed
<1>14. CASE PassRelist(p)
  <2>1. PICK listing, verdict :
          Advance(p, [pass[p] EXCEPT !.pc = "finish", !.listing = listing,
                                     !.resolved = FALSE, !.verdict = verdict])
    BY <1>14 DEF PassRelist
  <2> PICK q : q = [pass[p] EXCEPT !.pc = "finish", !.listing = listing,
                                   !.resolved = FALSE, !.verdict = verdict]
    OBVIOUS
  <2>2. /\ q.token = pass[p].token /\ q.epoch = pass[p].epoch
        /\ q.pc = "finish" /\ pass[p].pc = "relist"
    BY <1>1, <1>14, <2>1 DEF PassStates, PassRelist
  <2> QED
    BY <1>4, <2>1, <2>2 DEF Claimed
<1>15. CASE CloserFaults(p)
  <2>1. CASE PassThrow(p)
    <3>1. PICK q :
            /\ q = [IdlePass EXCEPT
                     !.pc = IF pass[p].tries < MaxTries THEN "retry" ELSE "record",
                     !.epoch = pass[p].epoch, !.tries = pass[p].tries]
            /\ Advance(p, q)
      BY <2>1 DEF PassThrow
    <3>2. q.token = 0 /\ q.pc \notin Claimed
      BY <3>1 DEF IdlePass, Claimed
    <3> QED
      BY <1>3, <3>1, <3>2
  <2> QED
    BY <1>5, <1>15, <2>1 DEF CloserFaults, PassRecordFails, WorkerCrash
<1> QED
  BY <1>8, <1>9, <1>10, <1>11, <1>12, <1>13, <1>14, <1>15

(* The closer's own resolve: its event is no write that triage may lose.   *)
LEMMA PassResolveKeeps ==
  ASSUME IInv, Further, NEW p \in Passes, NEW e \in EventIds, PassResolve(p, e)
  PROVE  Kept
<1> USE DEF tokens, clients
<1>1. pass[p] \in PassStates
  BY DEF IInv, OtherTypes
<1>2. /\ UNCHANGED <<row, clock, erased, stop, writer, sweep, minted, closeKind>>
      /\ events' = events \cup {e} /\ closerEvents' = closerEvents \cup {e}
  BY DEF PassResolve, EventCommits
<1>3. ClaimsOK'
  <2>1. PICK q : /\ q = [pass[p] EXCEPT !.pc = "resolve", !.resolved = TRUE]
                 /\ Advance(p, q)
    BY DEF PassResolve
  <2>2. /\ q.token = pass[p].token /\ q.epoch = pass[p].epoch
        /\ q.pc \in Claimed /\ pass[p].pc \in Claimed
    BY <1>1, <2>1 DEF PassStates, PassResolve, Claimed
  <2> QED
    BY <1>2, <2>1, <2>2, PassGoesOn
<1>4. BornOK' /\ StragglersOK'
  BY <1>2 DEF Further, BornOK, StragglersOK
<1>5. NoWriteLostToTriage' /\ OverflowStep
  BY <1>2 DEF Further, NoWriteLostToTriage, Untriaged, OverflowStep
<1>6. SameLife(row, row') /\ SameContent(row, row') /\ StopStep
  BY <1>2 DEF SameLife, SameContent, StopStep
<1> QED
  BY <1>2, <1>3, <1>4, <1>5, <1>6, SameLifeKeeps, SameContentKeeps
  DEF Kept, Further

(* A claim that lands takes a token nobody else has.                       *)
LEMMA PassClaimKeeps ==
  ASSUME IInv, IInv', Further, NEW p \in Passes, PassClaim(p)
  PROVE  Kept
<1> USE DEF history
<1>1. /\ row \in Row /\ pass[p] \in PassStates /\ minted \in Nat /\ Core
      /\ \A r \in Passes : pass[r].token \in Nat
  BY DEF IInv, Core, OtherTypes, PassStates
<1>2. /\ UNCHANGED <<clock, events, erased, stop, writer, sweep, closerEvents,
                     closeKind>>
      /\ minted' = minted + 1 /\ pass[p].pc = "claim"
  BY DEF PassClaim, clients
<1>3. CASE claimAdmits(row, pass[p].epoch, pass[p].observed)
  <2>1. row' = claimSessionTriage(row, minted + 1)
    BY <1>3 DEF PassClaim, Update
  <2>2. /\ SameLife(row, row') /\ SameContent(row, row')
        /\ row'.triageAttemptId = minted + 1
        /\ row'.lastTriagedEventIds = row.lastTriagedEventIds
        /\ row'.needsLook = row.needsLook
        /\ row'.triageStatus = IF row.triageStatus = "pending"
                               THEN "expired" ELSE row.triageStatus
    BY <1>1, <2>1, ClaimIs
  <2>3. row.triageStatus # "overflowed" /\ Closed(row)
    BY <1>3 DEF claimAdmits, CLOSER_ELIGIBLE_STATUSES
  <2>4. NoWriteLostToTriage' /\ OverflowStep
    BY <1>2, <2>2, <2>3
    DEF Further, NoWriteLostToTriage, Untriaged, OverflowStep
  <2>5. BornOK' /\ StragglersOK'
    <3>1. Exists(row')
      BY <1>1, <2>2, <2>3 DEF Core, SameLife, Exists
    <3> QED
      BY <1>2, <2>2, <3>1, BornKeeps DEF Further, StragglersOK, SameLife
  <2>6. ClaimsOK'
    <3>1. PICK q : /\ q = [pass[p] EXCEPT
                           !.pc = IF pass[p].work THEN "judge" ELSE "finish",
                           !.token = minted + 1, !.observed = NULL]
                   /\ Advance(p, q)
      BY <1>3 DEF PassClaim
    <3>2. q.token = minted + 1 /\ q.pc \in Claimed
      BY <1>1, <3>1 DEF PassStates, Claimed
    <3>3. \A r \in Passes : pass'[r] = IF r = p THEN q ELSE pass[r]
      BY <3>1 DEF Advance, IInv, OtherTypes
    <3>4. \A r \in Passes : pass[r].token <= minted
      BY DEF Further, ClaimsOK
    <3>5. \A r \in Passes : pass'[r].token <= minted'
      BY <1>1, <1>2, <3>2, <3>3, <3>4
    <3>6. \A r \in Passes : pass'[r].token # 0 <=> pass'[r].pc \in Claimed
      BY <1>1, <3>2, <3>3 DEF Further, ClaimsOK
    <3>7. ASSUME NEW r \in Passes, NEW t \in Passes,
                 pass'[r].token # 0, pass'[r].token = pass'[t].token
          PROVE  r = t
      <4>1. pass[r].token # minted + 1 /\ pass[t].token # minted + 1
        BY <1>1, <3>4
      <4> QED
        BY <3>2, <3>3, <3>7, <4>1 DEF Further, ClaimsOK
    <3>8. row'.triageStatus \notin {"overflowed", "pending"}
      BY <2>2, <2>3
    <3> QED
      BY <3>5, <3>6, <3>7, <3>8 DEF ClaimsOK
  <2>7. StopStep
    BY <1>2 DEF StopStep
  <2> QED
    BY <1>2, <2>2, <2>4, <2>5, <2>6, <2>7, SameLifeKeeps, SameContentKeeps
    DEF Kept, Further
<1>4. CASE ~claimAdmits(row, pass[p].epoch, pass[p].observed)
  <2>1. Advance(p, IdlePass) /\ UNCHANGED row
    BY <1>4 DEF PassClaim, JobDone
  <2>2. \A r \in Passes : pass'[r] = IF r = p THEN IdlePass ELSE pass[r]
    BY <2>1 DEF Advance, IInv, OtherTypes
  <2>3. \A r \in Passes : pass[r].token <= minted /\ pass'[r].token <= minted'
    BY <1>1, <1>2, <2>2, IdleGivesUp DEF Further, ClaimsOK
  <2>4. ClaimsOK'
    BY <1>1, <2>1, <2>2, <2>3, IdleGivesUp DEF Further, ClaimsOK
  <2>5. BornOK' /\ StragglersOK'
    BY <1>2, <2>1 DEF Further, BornOK, StragglersOK
  <2> QED
    BY <1>2, <2>1, <2>4, <2>5, RowStays
<1> QED
  BY <1>3, <1>4

(* A write-back that lands has claimed the closed run and holds it still.  *)
LEMMA PassFinishKeeps ==
  ASSUME IInv, IInv', Further, NEW p \in Passes, PassFinish(p)
  PROVE  Kept
<1> USE DEF tokens
<1>1. row \in Row /\ pass[p] \in PassStates /\ Core
  BY DEF IInv, Core, OtherTypes
<1>2. /\ UNCHANGED <<clock, events, erased, clients, stop, writer, sweep, minted,
                     closerEvents, closeKind>>
      /\ pass[p].pc = "finish" /\ Advance(p, IdlePass)
  BY DEF PassFinish, clients, JobDone
<1>3. CASE finishAdmits(row, pass[p].epoch, pass[p].token)
  <2>1. PICK clear \in BOOLEAN :
          row' = finishSessionTriage(row, events, pass[p].verdict,
                                     pass[p].listing, clear)
    <3>1. PICK clear : /\ clear = (pass[p].work /\ pass[p].verdict = "completed")
                       /\ row' = finishSessionTriage(row, events, pass[p].verdict,
                                                     pass[p].listing, clear)
      BY <1>3 DEF PassFinish, Update
    <3> QED
      BY <3>1
  <2>2. /\ SameLife(row, row') /\ Settled(row', events)
        /\ row'.briefedMemories = row.briefedMemories
        /\ row'.lastMessageExcerpt \in {NULL, row.lastMessageExcerpt}
        /\ row'.triageAttemptId = row.triageAttemptId
    BY <1>1, <2>1, FinishIs
  <2>3. Closed(row) /\ Exists(row)
    BY <1>1, <1>2, <1>3 DEF Core, PassFenced, finishAdmits
  <2>4. pass[p].token # 0 /\ row.triageStatus # "overflowed"
    BY <1>2, <1>3 DEF Further, ClaimsOK, Claimed
  <2>5. ErasureIsFinal' /\ ExcerptStep
    BY <1>2, <2>2, <2>3, RowAssumption DEF Further, ErasureIsFinal, ExcerptStep
  <2>6. NoWriteLostToTriage' /\ OverflowStep
    BY <1>2, <2>2, <2>4
    DEF NoWriteLostToTriage, Settled, Untriaged, OverflowStep
  <2>7. BornOK' /\ StragglersOK'
    <3>1. Exists(row')
      BY <2>2, <2>3 DEF SameLife, Exists
    <3> QED
      BY <1>2, <2>2, <3>1, BornKeeps DEF Further, StragglersOK, SameLife
  <2>8. ClaimsOK'
    <3>1. \A r \in Passes : pass'[r] = IF r = p THEN IdlePass ELSE pass[r]
      BY <1>2 DEF Advance, IInv, OtherTypes
    <3>2. ASSUME NEW r \in Passes, pass'[r].token # 0
          PROVE  r # p /\ ~finishAdmits(row', pass'[r].epoch, pass'[r].token)
      <4>1. r # p /\ pass'[r] = pass[r]
        BY <3>1, <3>2, IdleGivesUp
      <4>2. pass[r].token # pass[p].token
        BY <3>2, <4>1 DEF Further, ClaimsOK
      <4> QED
        BY <1>3, <2>2, <4>1, <4>2 DEF finishAdmits
    <3>3. \A r \in Passes : pass'[r].token <= minted'
      <4>1. minted \in Nat
        BY DEF IInv, OtherTypes
      <4> QED
        BY <1>2, <3>1, <4>1, IdleGivesUp DEF Further, ClaimsOK
    <3> QED
      BY <3>1, <3>2, <3>3, IdleGivesUp DEF Further, ClaimsOK
  <2>9. StopStep
    BY <1>2 DEF StopStep
  <2> QED
    BY <1>2, <2>2, <2>5, <2>6, <2>7, <2>8, <2>9, SameLifeKeeps DEF Kept, Further
<1>4. CASE ~finishAdmits(row, pass[p].epoch, pass[p].token)
  <2>1. row' = row
    BY <1>4 DEF PassFinish
  <2> QED
    BY <1>2, <2>1, PassAlone, IdleGivesUp
<1> QED
  BY <1>3, <1>4

LEMMA PassRecordKeeps ==
  ASSUME IInv, IInv', Further, NEW p \in Passes, NEW now, PassRecord(p, now)
  PROVE  Kept
<1> USE DEF tokens, history
<1>1. row \in Row /\ Core
  BY DEF IInv, Core
<1>2. /\ UNCHANGED <<clock, events, erased, clients, stop, writer, sweep, minted,
                     closerEvents, closeKind>>
      /\ pass[p].pc = "record" /\ Advance(p, IdlePass)
  BY DEF PassRecord, PassUnchanged, clients, JobDone
<1>3. CASE failureAdmits(row, pass[p].epoch)
  <2>1. SameLife(row, row') /\ SameContent(row, row') /\ SameTriage(row, row')
    BY <1>1, <1>3, RecordIs DEF PassRecord, Update
  <2>2. BornOK' /\ StragglersOK'
    <3>1. Exists(row)
      BY <1>1, <1>2, <1>3 DEF Core, PassFenced, failureAdmits
    <3>2. Exists(row')
      BY <2>1, <3>1 DEF SameLife, Exists
    <3> QED
      BY <1>2, <2>1, <3>2, BornKeeps DEF Further, StragglersOK, SameLife
  <2>3. ClaimsOK'
    <3>1. \A r \in Passes : pass'[r] = IF r = p THEN IdlePass ELSE pass[r]
      BY <1>2 DEF Advance, IInv, OtherTypes
    <3>2. \A r \in Passes : pass'[r].token <= minted'
      <4>1. minted \in Nat
        BY DEF IInv, OtherTypes
      <4> QED
        BY <1>2, <3>1, <4>1, IdleGivesUp DEF Further, ClaimsOK
    <3>3. ASSUME NEW r \in Passes, pass'[r].token # 0,
                 finishAdmits(row', pass'[r].epoch, pass'[r].token)
          PROVE  row'.triageStatus \notin {"overflowed", "pending"}
      <4>1. pass'[r] = pass[r]
        BY <3>1, <3>3, IdleGivesUp
      <4> QED
        BY <2>1, <3>3, <4>1
        DEF Further, ClaimsOK, finishAdmits, SameLife, SameTriage
    <3> QED
      BY <3>1, <3>2, <3>3, IdleGivesUp DEF Further, ClaimsOK
  <2>4. StopStep
    BY <1>2 DEF StopStep
  <2> QED
    BY <1>2, <2>1, <2>2, <2>3, <2>4, SameLifeKeeps, SameContentKeeps,
       SameTriageKeeps
    DEF Kept, Further
<1>4. CASE ~failureAdmits(row, pass[p].epoch)
  <2>1. row' = row
    BY <1>4 DEF PassRecord
  <2> QED
    BY <1>2, <2>1, PassAlone, IdleGivesUp
<1> QED
  BY <1>3, <1>4

-----------------------------------------------------------------------------
(* Erasure, the clock, and every step.                                     *)

LEMMA EraseKeeps ==
  ASSUME IInv, IInv', Further, EraseAccount
  PROVE  Kept
<1> USE DEF clients, worker, tokens, history
<1>1. row \in Row /\ row' \in Row /\ OtherTypes /\ Core
  BY DEF IInv, Core
<1>2. /\ UNCHANGED <<clock, events, stop, writer, sweep, pass, minted,
                     closerEvents, closeKind>>
      /\ ~erased /\ erased' = TRUE
  BY RunAssumption DEF EraseAccount
<1>3. CASE Exists(row)
  <2>1. /\ row'.activationEpoch = row.activationEpoch + 1
        /\ row'.closedAt = row.closedAt /\ row'.lastSeenAt = row.lastSeenAt
        /\ row'.triageStatus = row.triageStatus
        /\ row'.lastMessageExcerpt = "erased" /\ ~row'.briefedMemories
    BY <1>1, <1>3, EraseIs DEF EraseAccount, Update
  <2>2. /\ ErasureIsFinal' /\ NoWriteLostToTriage' /\ SweptOK' /\ DurableStep
        /\ StopStep /\ EpochStep /\ OverflowStep
    BY <1>2, <2>1
    DEF ErasureIsFinal, NoWriteLostToTriage, Further, SweptOK, Closed,
        DurableStep, ExplicitlyClosed, StopStep, EpochStep, OverflowStep
  <2>3. ExcerptStep
    BY <2>1, RowAssumption DEF ExcerptStep
  <2>4. BornOK' /\ StragglersOK' /\ ClaimsOK'
    <3>1. Exists(row') /\ row'.lastSeenAt >= row.lastSeenAt
      BY <1>1, <2>1 DEF Exists, Row, Instant
    <3> QED
      BY <1>1, <1>2, <2>1, <3>1, BornKeeps, StragglersKeep, ClaimsKeep
      DEF Further
  <2> QED
    BY <2>2, <2>3, <2>4 DEF Kept, Further
<1>4. CASE ~Exists(row)
  <2>1. row' = row
    BY <1>4 DEF EraseAccount
  <2>2. ErasureIsFinal'
    <3>1. NoRow.lastMessageExcerpt = NULL /\ ~NoRow.briefedMemories
      BY DEF NoRow
    <3> QED
      BY <1>4, <2>1, <3>1, RowAssumption DEF Further, BornOK, ErasureIsFinal
  <2>3. /\ NoWriteLostToTriage' /\ StopStep /\ OverflowStep /\ ExcerptStep
        /\ SameLife(row, row')
    BY <1>2, <2>1, RowAssumption
    DEF NoWriteLostToTriage, StopStep, OverflowStep, ExcerptStep, SameLife
  <2>4. BornOK' /\ StragglersOK' /\ ClaimsOK'
    BY <1>2, <2>1 DEF Further, BornOK, StragglersOK, ClaimsOK
  <2> QED
    BY <1>2, <2>2, <2>3, <2>4, SameLifeKeeps DEF Kept, Further
<1> QED
  BY <1>3, <1>4

LEMMA TickKeeps ==
  ASSUME IInv, IInv', Further, Tick
  PROVE  Kept
<1> USE DEF clients, worker, tokens, history
<1>1. row \in Row /\ OtherTypes /\ clock \in Nat /\ MaxInFlight \in Nat
  BY RunAssumption DEF IInv, Core, OtherTypes, Instant
<1>2. /\ UNCHANGED <<row, events, erased, stop, writer, sweep, pass, minted,
                     closerEvents, closeKind>>
      /\ clock' = clock + 1
  BY DEF Tick
<1>3. /\ \A s \in Stops : stop[s].now \in Nat
      /\ \A w \in Writers : writer[w].now \in Nat
      /\ sweep.now \in Nat
  BY <1>1 DEF OtherTypes, StopStates, WriterStates, SweepStates, Instant
<1>4. StragglersOK'
  <2>1. \A w \in Writers :
          writer[w].pc # "idle" => clock < writer[w].now + MaxInFlight
    BY DEF Tick
  <2> QED
    BY <1>1, <1>2, <1>3, <2>1 DEF Further, StragglersOK
<1>5. SweptOK'
  <2>1. closeKind = "sweep" => row.closedAt \in Nat
    BY <1>1 DEF Further, SweptOK, Closed, Row, Instant
  <2> QED
    BY <1>1, <1>2, <2>1 DEF Further, SweptOK, Closed
<1>6. BornOK' /\ ClaimsOK'
  BY <1>2 DEF Further, BornOK, ClaimsOK
<1>7. DurableStep /\ EpochStep /\ StopStep /\ SameContent(row, row') /\ SameTriage(row, row')
  BY <1>2 DEF DurableStep, ExplicitlyClosed, EpochStep, StopStep, SameContent,
              SameTriage
<1> QED
  BY <1>2, <1>4, <1>5, <1>6, <1>7, SameContentKeeps, SameTriageKeeps
  DEF Kept, Further

LEMMA InitFurther == Init => Further
<1> SUFFICES ASSUME Init PROVE Further
  OBVIOUS
<1>1. /\ row = NoRow /\ ~erased /\ closeKind = "none" /\ minted = 0 /\ clock = 0
      /\ \A s \in Stops : stop[s] = IdleStop
      /\ \A w \in Writers : writer[w] = IdleWriter
      /\ \A p \in Passes : pass[p] = IdlePass
      /\ sweep = IdleSweep
  BY DEF Init
<1>2. ErasureIsFinal /\ NoWriteLostToTriage
  <2>1. NoRow.triageStatus = "idle"
    BY DEF NoRow
  <2> QED
    BY <1>1, <2>1 DEF ErasureIsFinal, NoWriteLostToTriage
<1>3. BornOK /\ SweptOK
  BY <1>1 DEF BornOK, SweptOK, IdleStop, IdleWriter
<1>4. StragglersOK
  BY <1>1 DEF StragglersOK, IdleStop, IdleWriter, IdleSweep
<1>5. ClaimsOK
  BY <1>1, IdleGivesUp DEF ClaimsOK
<1> QED
  BY <1>2, <1>3, <1>4, <1>5 DEF Further

LEMMA NextKeeps == IInv /\ Further /\ [Next]_vars => Kept
<1> SUFFICES ASSUME IInv, Further, [Next]_vars PROVE Kept
  OBVIOUS
<1>1. IInv'
  BY NextInv
<1>2. CASE Hook
  BY <1>1, <1>2, OpenKeeps, CloseKeeps, StopProbeKeeps, StopKeeps DEF Hook
<1>3. CASE MemoryWrites
  BY <1>1, <1>3, AttachProbeKeeps, AttachLeaves, AttachKeeps DEF MemoryWrites
<1>4. CASE Triage
  BY <1>1, <1>4, TriageKeeps
<1>5. CASE Sweep
  BY <1>1, <1>5, SweepKeeps
<1>6. ASSUME NEW p \in Passes, CloserSteps(p)
      PROVE  Kept
  BY <1>1, <1>6, PassReads, PassClaimKeeps, PassResolveKeeps, PassFinishKeeps,
     PassRecordKeeps
  DEF CloserSteps
<1>7. ASSUME NEW p \in Passes, CloserFaults(p)
      PROVE  Kept
  BY <1>7, PassReads
<1>8. CASE EraseAccount
  BY <1>1, <1>8, EraseKeeps
<1>9. CASE Tick
  BY <1>1, <1>9, TickKeeps
<1>10. CASE UNCHANGED vars
  <2>1. UNCHANGED <<row, clock, events, erased, stop, writer, sweep, pass, minted,
                    closerEvents, closeKind>>
    BY <1>10 DEF vars, shared, clients, worker, tokens, history
  <2>2. BornOK' /\ StragglersOK' /\ ClaimsOK'
    BY <2>1 DEF Further, BornOK, StragglersOK, ClaimsOK
  <2> QED
    BY <2>1, <2>2, RowStays
<1> QED
  BY <1>2, <1>3, <1>4, <1>5, <1>6, <1>7, <1>8, <1>9, <1>10 DEF Next

-----------------------------------------------------------------------------
(* Both invariants together hold in every reachable state.                 *)
THEOREM FurtherInvariance == Spec => [](IInv /\ Further)
<1>1. Init => IInv /\ Further
  BY InitInv, InitFurther
<1>2. IInv /\ Further /\ [Next]_vars => (IInv /\ Further)'
  BY NextInv, NextKeeps DEF Kept
<1> QED
  BY <1>1, <1>2, PTL DEF Spec

(* Erasure is the final write of user content on the row, whatever         *)
(* heartbeat, open or write-back was in flight (account-delete.ts).        *)
THEOREM ErasureIsLast == Spec => []ErasureIsFinal
<1>1. Further => ErasureIsFinal
  BY DEF Further
<1> QED
  BY <1>1, FurtherInvariance, PTL

(* An attributed write that no watermark holds keeps a settled run in the  *)
(* closer's scan, however claims, resurrections and writes interleave      *)
(* (session-provenance.ts, flagNeedsLook; settleNeedsLook).                *)
THEOREM WritesReachTriage == Spec => []NoWriteLostToTriage
<1>1. Further => NoWriteLostToTriage
  BY DEF Further
<1> QED
  BY <1>1, FurtherInvariance, PTL

(* A close that the sweep stamped never reads as a SessionEnd, as long as  *)
(* no request outlives the grace (session-closer.ts, sweepExpiredLeases).  *)
THEOREM SweptCloseIsImplicit == Spec => []SweptCloseStaysImplicit
<1>1. IInv /\ Further => SweptCloseStaysImplicit
  <2> SUFFICES ASSUME IInv, Further, closeKind = "sweep"
               PROVE  ~ExplicitlyClosed(row)
    BY DEF SweptCloseStaysImplicit
  <2>1. /\ row.closedAt # NULL
        /\ row.lastSeenAt + Lease + Grace < row.closedAt
    BY DEF Further, SweptOK, Closed
  <2>2. /\ row.closedAt \in Nat /\ row.lastSeenAt \in Nat
        /\ Lease \in Nat /\ Grace \in Nat
    BY <2>1, LeaseAssumption DEF IInv, Core, Row, Instant
  <2> QED
    BY <2>1, <2>2 DEF ExplicitlyClosed, isExplicitClose
<1> QED
  BY <1>1, FurtherInvariance, PTL

LEMMA EveryStep == IInv /\ Further /\ [Next]_vars
  => DurableStep /\ StopStep /\ EpochStep /\ ExcerptStep /\ OverflowStep
BY NextKeeps DEF Kept

(* An explicit SessionEnd is undone only by the next activation of its own *)
(* client, and by no memory write that had probed the run before it.       *)
THEOREM SessionEndIsDurable == Spec => ExplicitCloseIsDurable
<1>1. IInv /\ Further /\ [Next]_vars => [DurableStep]_vars
  BY EveryStep
<1> QED
  BY <1>1, FurtherInvariance, PTL DEF Spec, ExplicitCloseIsDurable, DurableStep

(* A Stop that lands leaves the run open, whatever committed between its   *)
(* unlocked probe and its UPDATE (session-lifecycle.ts, heartbeatSession). *)
THEOREM StopKeepsTheRunOpen == Spec => StopLeavesRunOpen
<1>1. IInv /\ Further /\ [Next]_vars => [StopStep]_vars
  BY EveryStep
<1> QED
  BY <1>1, FurtherInvariance, PTL DEF Spec, StopLeavesRunOpen, StopStep

(* The fence of a live run moves only for a resume or an erasure: two      *)
(* requests that saw the same death advance it once.                       *)
THEOREM DeathsAdvanceOnce == Spec => OneEpochPerDeath
<1>1. IInv /\ Further /\ [Next]_vars => [EpochStep]_vars
  BY EveryStep
<1> QED
  BY <1>1, FurtherInvariance, PTL DEF Spec, OneEpochPerDeath, EpochStep

(* Neither the retention sweep nor a closer that started before the run    *)
(* came back drops the excerpt of an open run.                             *)
THEOREM OpenExcerptIsKept == Spec => OpenExcerptSurvives
<1>1. IInv /\ Further /\ [Next]_vars => [ExcerptStep]_vars
  BY EveryStep
<1> QED
  BY <1>1, FurtherInvariance, PTL DEF Spec, OpenExcerptSurvives, ExcerptStep

(* No handshake, write or closer moves a run on from `overflowed`.         *)
THEOREM OverflowStays == Spec => OverflowIsTerminal
<1>1. IInv /\ Further /\ [Next]_vars => [OverflowStep]_vars
  BY EveryStep
<1> QED
  BY <1>1, FurtherInvariance, PTL DEF Spec, OverflowIsTerminal, OverflowStep
=============================================================================
