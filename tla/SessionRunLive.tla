--------------------------- MODULE SessionRunLive ---------------------------
(***************************************************************************)
(* SessionRun with the fairness the worker's scheduling justifies: a       *)
(* repeatable sweep job that keeps running, a queue that keeps handing out *)
(* jobs, passes that keep stepping, and a clock that keeps ticking.        *)
(* Nothing is asked of a client but that its requests end.  Faults of the  *)
(* worker (a step that throws, a failure that cannot be recorded, a crash) *)
(* are finitely many.                                                      *)
(***************************************************************************)
EXTENDS SessionRun

CONSTANT MaxFaults  \* bound: faults of the worker in one behaviour

ASSUME FaultAssumption == MaxFaults \in Nat

VARIABLE faults     \* faults so far

liveVars == <<vars, faults>>

LiveInit == Init /\ faults = 0

Orderly ==
  /\ \/ Hook
     \/ MemoryWrites
     \/ Triage
     \/ Sweep
     \/ \E p \in Passes : CloserSteps(p)
     \/ Tick
  /\ UNCHANGED faults

Faulty ==
  /\ faults < MaxFaults
  /\ faults' = faults + 1
  /\ \E p \in Passes : CloserFaults(p)

LiveNext == Orderly \/ Faulty

(* upsertJobScheduler repeats the sweep; each run of it goes to its end.   *)
SweepFairness ==
  /\ WF_liveVars(SweepSelect(clock) /\ UNCHANGED faults)
  /\ WF_liveVars(/\ SweepClose \/ SweepList \/ SweepTtlSelect \/ SweepTtlExpire
                 /\ UNCHANGED faults)

(* A queued job is delivered and a delivered pass steps on; it walks a     *)
(* finite list of candidates, so it does not look at one more for ever.    *)
PassFairness(p) ==
  /\ WF_liveVars(CloserSteps(p) /\ UNCHANGED faults)
  /\ SF_liveVars(PassResolved(p, FALSE) /\ UNCHANGED faults)

(* A request does not stay in flight for ever: it commits or rolls back.   *)
ClientFairness ==
  /\ \A s \in Stops : WF_liveVars(StopAborts(s) /\ UNCHANGED faults)
  /\ \A w \in Writers : WF_liveVars(AttachAborts(w) /\ UNCHANGED faults)

(* Tick is strongly fair: the model's clock waits for a request in flight, *)
(* the real one does not.                                                  *)
Fairness ==
  /\ SweepFairness
  /\ ClientFairness
  /\ \A p \in Passes : PassFairness(p)
  /\ SF_liveVars(Tick /\ UNCHANGED faults)

LiveSpec == LiveInit /\ [][LiveNext]_liveVars /\ Fairness

-----------------------------------------------------------------------------
(* A dead run triage has not dealt with: never settled, or settled and     *)
(* then written to by anybody but a closer.                                *)
Owed ==
  /\ Exists(row)
  /\ Closed(row)
  /\ \/ row.triageStatus \notin {"completed", "overflowed"}
     \/ /\ row.triageStatus = "completed"
        /\ Untriaged(row, events) \ closerEvents # {}

(* Its backoff ends before the model's last instant.                       *)
Due ==
  row.closerNextAttemptAt = NULL \/ row.closerNextAttemptAt <= MaxTime

(* Every death is triaged: whatever handshake its client abandoned, however *)
(* its writes interleaved and wherever the worker died, a run that stays    *)
(* closed is settled in the end (session-closer.ts, the candidate scan, the *)
(* claim and the write-backs; queues.ts, removal on both terminal states).  *)
EveryDeathIsTriaged == Owed ~> (~Owed \/ ~Due)
=============================================================================
