---------------------------- MODULE MeteredCalls ----------------------------
(***************************************************************************)
(* The usage budget of one user and the calls it meters: embeddings of     *)
(* memories, queries of searches, judgments of closers and forgetting      *)
(* passes.  A call reserves its worst case under a per-user advisory lock, *)
(* is sent, writes what it cost to llm_usage and drops its reservation.    *)
(*                                                                         *)
(* Money is counted in cents; a sum of prices is the number of cents they  *)
(* make up.  Of a memory, only whether it is live and has its vector.      *)
(***************************************************************************)
EXTENDS Integers, FiniteSets

CONSTANTS
  Calls,            \* calls to the model, each made once
  Memories,         \* ids of memories to embed
  Estimate,         \* llmOperations: the registered maxCost of a call
  Fallback,         \* maxRegisteredCostUsd
  Caps,             \* the caps that an operator or a tier may set
  Windows,          \* the cycle windows, each from .from until before .to
  DefaultCap,       \* config.defaultCapUsd
  TTL,              \* RESERVATION_TTL_SECONDS
  WindowDays,       \* length of the rolling window
  Faults,           \* what may go wrong, of AllFaults
  MaxTime,          \* bound: ticks of the clock
  NULL

AllFaults == {"lookup", "gateway", "accounting", "crash"}

ASSUME BudgetAssumption ==
  /\ IsFiniteSet(Calls)
  /\ Fallback \in Nat \ {0}
  /\ Estimate \in [Calls -> 1..Fallback]
  /\ Caps \subseteq Nat /\ DefaultCap \in Nat
  /\ Windows \subseteq [from : Nat, to : Nat]
  /\ TTL \in Nat \ {0} /\ WindowDays \in Nat \ {0} /\ MaxTime \in Nat
  /\ Faults \subseteq AllFaults
  /\ NULL \notin Nat \cup Memories \cup Calls \cup Windows
  /\ NULL \notin [at : Nat, cost : Nat \cup {NULL}]

VARIABLES
  clock,
  budget,  \* user_budgets and plan_tiers: override, tier cap, window
  lock,    \* who holds the user's advisory lock
  call,    \* each call: where it is, what it has read
  held,    \* budget_reservations: created_at by call
  usage,   \* llm_usage: created_at and cost by call
  memory,  \* the memories' live bit, vector and embed_failed event
  cost,    \* history: what the provider bills for a call once it is sent
  lost,    \* history: calls whose spend the tables do not show
  cut      \* history: memories whose embed task was cut short, or skipped

vars == <<clock, budget, lock, call, held, usage, memory, cost, lost, cut>>

ledger == <<held, usage, cost, lost>>

-----------------------------------------------------------------------------
Time == 0..MaxTime
Window == [from : Time, to : Time]
Step == {"idle", "checked", "begin", "locked", "sum", "verdict", "reserved",
         "sent", "vector", "failed", "release", "done"}

Reserving == {"locked", "sum", "verdict"}

Fresh == [ pc |-> "idle", mem |-> NULL, kind |-> "search", now |-> 0,
           limit |-> 0, window |-> NULL, seen |-> {},
           booked |-> {}, during |-> {} ]

CallStates ==
  [ pc : Step, mem : Memories \cup {NULL},
    kind : {"embed", "search", "judgment"}, now : Time, limit : Nat,
    window : Windows \cup {NULL}, seen : SUBSET Calls, booked : SUBSET Calls,
    during : SUBSET Calls ]

MemoryStates ==
  [ live : BOOLEAN, born : BOOLEAN, vector : BOOLEAN, failed : BOOLEAN ]

TypeOK ==
  /\ clock \in Time
  /\ budget \in [ override : Caps \cup {NULL}, tier : Caps \cup {NULL},
                  window : Windows \cup {NULL} ]
  /\ lock \in Calls \cup {NULL}
  /\ call \in [Calls -> CallStates]
  /\ held \in [Calls -> Time \cup {NULL}]
  /\ usage \in [Calls -> [at : Time, cost : Nat \cup {NULL}] \cup {NULL}]
  /\ memory \in [Memories -> MemoryStates]
  /\ cost \in [Calls -> Nat]
  /\ lost \in SUBSET Calls
  /\ cut \in SUBSET Memories

Init ==
  /\ clock = 0
  /\ budget = [override |-> NULL, tier |-> NULL, window |-> NULL]
  /\ lock = NULL
  /\ call = [c \in Calls |-> Fresh]
  /\ held = [c \in Calls |-> NULL]
  /\ usage = [c \in Calls |-> NULL]
  /\ memory = [m \in Memories |-> [live |-> FALSE, born |-> FALSE,
                                   vector |-> FALSE, failed |-> FALSE]]
  /\ cost = [c \in Calls |-> 0]
  /\ lost = {}
  /\ cut = {}

-----------------------------------------------------------------------------
(* Sums.                                                                   *)

Cents(price) == {x \in Calls \X (1..Fallback) : x[2] <= price[x[1]]}
Total(price) == Cardinality(Cents(price))

(* COALESCE(SUM(cost_usd)) and the unpriced rows at the fallback.          *)
chargeOf(c) ==
  IF usage[c].cost = NULL THEN Fallback ELSE usage[c].cost

charges(S) == [c \in Calls |-> IF c \in S THEN chargeOf(c) ELSE 0]
estimates(S) == [c \in Calls |-> IF c \in S THEN Estimate[c] ELSE 0]

Logged == {c \in Calls : usage[c] # NULL}

(* created_at within the user's window, or within the last days.           *)
inWindow(c, window, now) ==
  IF window # NULL
  THEN window.from <= usage[c].at /\ usage[c].at < window.to
  ELSE usage[c].at >= now - WindowDays

(* sumActiveReservations.                                                  *)
activeReservations(now) ==
  {c \in Calls : held[c] # NULL /\ held[c] > now - TTL}

(* cap_usd_override ?? plan_tiers.cap_usd ?? defaultCapUsd.                *)
effectiveCap ==
  IF budget.override # NULL THEN budget.override
  ELSE IF budget.tier # NULL THEN budget.tier
  ELSE DefaultCap

overCap(charged, reserved, estimate, limit) ==
  Total(charged) + Total(reserved) + estimate > limit

-----------------------------------------------------------------------------
Become(c, state) == call' = [call EXCEPT ![c] = state]
Go(c, step) == Become(c, [call[c] EXCEPT !.pc = step])
Task(m, kind) == [Fresh EXCEPT !.mem = m, !.kind = kind]

(* The reservation's transaction ends; the call ends.                      *)
Decided(c, step) ==
  Become(c, [Task(call[c].mem, call[c].kind) EXCEPT !.pc = step])
Finish(c) == Become(c, [Fresh EXCEPT !.pc = "done"])

Unlock(c) == lock' = IF lock = c THEN NULL ELSE lock

(* assertWithinBudget: a read before the write is accepted; a lookup that  *)
(* fails lets it through.                                                  *)
assertWithinBudget(c) ==
  \/ ~overCap(charges({d \in Logged : inWindow(d, budget.window, clock)}),
              estimates(activeReservations(clock)), Estimate[c], effectiveCap)
  \/ "lookup" \in Faults

PreCheck(c) ==
  /\ call[c].pc = "idle"
  /\ assertWithinBudget(c)
  /\ Become(c, [Task(NULL, "embed") EXCEPT !.pc = "checked"])
  /\ UNCHANGED <<clock, budget, lock, ledger, memory, cut>>

Born(m) == [memory EXCEPT ![m] = [@ EXCEPT !.born = TRUE, !.live = TRUE]]

(* kickEmbed starts the memory's task; an empty text has failed at once.   *)
KickEmbed(c, m) ==
  \E step \in {"begin", "failed"} :
    Become(c, [Task(m, "embed") EXCEPT !.pc = step])

(* remember: the memory is there and acknowledged before its task starts.  *)
Remember(c, m) ==
  /\ call[c].pc = "checked"
  /\ ~memory[m].born
  /\ memory' = Born(m)
  /\ KickEmbed(c, m)
  /\ UNCHANGED <<clock, budget, lock, ledger, cut>>

(* revise closes the predecessor in the transaction that writes m.         *)
Revise(c, old, m) ==
  /\ call[c].pc = "checked"
  /\ memory[old].live /\ ~memory[m].born
  /\ memory' = [Born(m) EXCEPT ![old].live = FALSE]
  /\ KickEmbed(c, m)
  /\ UNCHANGED <<clock, budget, lock, ledger, cut>>

(* importMemory with skipEmbed: neither checked nor embedded.              *)
ImportSkips(c, m) ==
  /\ call[c].pc = "idle"
  /\ ~memory[m].born
  /\ memory' = Born(m)
  /\ cut' = cut \cup {m}
  /\ Finish(c)
  /\ UNCHANGED <<clock, budget, lock, ledger>>

(* retryFailedEmbeds walks a list it has read: the memory failed once, and *)
(* may have its vector or be superseded by now.                            *)
Repair(c, m) ==
  /\ call[c].pc = "idle"
  /\ memory[m].failed
  /\ KickEmbed(c, m)
  /\ UNCHANGED <<clock, budget, lock, ledger, memory, cut>>

Asks(c, kind) ==
  /\ call[c].pc = "idle"
  /\ Become(c, [Task(NULL, kind) EXCEPT !.pc = "begin"])
  /\ UNCHANGED <<clock, budget, lock, ledger, memory, cut>>

(* embedQuery; meteredCall of the closer; judgeBatch of a forgetting pass. *)
Search(c) == Asks(c, "search")
JudgeRun(c) == Asks(c, "judgment")
JudgeBatch(c) == Asks(c, "judgment")

(* materializeEdgeIn closes a memory whatever its task is doing.           *)
Supersede(m) ==
  /\ memory[m].live
  /\ memory' = [memory EXCEPT ![m].live = FALSE]
  /\ UNCHANGED <<clock, budget, lock, call, ledger, cut>>

-----------------------------------------------------------------------------
(* reserveBudget.  now() is the start of the transaction, which then waits *)
(* for the advisory lock.  `during` are the calls logged since.            *)
ReserveBegin(c) ==
  /\ call[c].pc = "begin"
  /\ Become(c, [call[c] EXCEPT !.pc = "locked", !.now = clock])
  /\ UNCHANGED <<clock, budget, lock, ledger, memory, cut>>

lockFreeAlways == TRUE
lockFree == lock = NULL

(* The budget row and the sum of usage; created_at < now() leaves out of a *)
(* rolling window what was logged while the lock was waited for.           *)
ReserveSum(c) ==
  LET own == call[c]
      logged == IF budget.window = NULL THEN Logged \ own.during ELSE Logged
  IN  /\ own.pc = "locked"
      /\ lockFree
      /\ lock' = c
      /\ Become(c, [own EXCEPT
           !.pc = "sum", !.limit = effectiveCap, !.window = budget.window,
           !.seen = {d \in logged : inWindow(d, budget.window, own.now)}])
      /\ UNCHANGED <<clock, budget, ledger, memory, cut>>

(* A statement of its own sums the reservations.                           *)
ReserveHolds(c) ==
  /\ call[c].pc = "sum"
  /\ Become(c, [call[c] EXCEPT !.pc = "verdict",
                               !.booked = activeReservations(call[c].now)])
  /\ UNCHANGED <<clock, budget, lock, ledger, memory, cut>>

(* The verdict, and the reservation if there is room.                      *)
Admits(c) ==
  ~overCap(charges(call[c].seen), estimates(call[c].booked), Estimate[c],
           call[c].limit)

expiresAt(now) == now + TTL
createdAt(now) == now

Admit(c) ==
  /\ call[c].pc = "verdict"
  /\ Admits(c)
  /\ held' = [held EXCEPT ![c] = createdAt(call[c].now)]
  /\ Decided(c, "reserved")
  /\ Unlock(c)
  /\ UNCHANGED <<clock, budget, usage, cost, lost, memory, cut>>

(* BudgetExceededError.                                                    *)
Refuse(c) ==
  /\ call[c].pc = "verdict"
  /\ ~Admits(c)
  /\ IF call[c].kind = "embed" THEN Decided(c, "failed") ELSE Finish(c)
  /\ Unlock(c)
  /\ UNCHANGED <<clock, budget, ledger, memory, cut>>

(* Any error of the lookup fails open, without a reservation.              *)
FailOpen(c) ==
  /\ "lookup" \in Faults
  /\ call[c].pc \in Reserving
  /\ lost' = lost \cup {c}
  /\ Decided(c, "reserved")
  /\ Unlock(c)
  /\ UNCHANGED <<clock, budget, held, usage, cost, memory, cut>>

-----------------------------------------------------------------------------
(* The round-trip.  A judgment may find its run or its consent gone.       *)
Send(c) ==
  /\ call[c].pc = "reserved"
  /\ \E bill \in 0..Estimate[c] : cost' = [cost EXCEPT ![c] = bill]
  /\ Go(c, "sent")
  /\ UNCHANGED <<clock, budget, lock, held, usage, lost, memory, cut>>

Withhold(c) ==
  /\ call[c].pc = "reserved"
  /\ call[c].kind = "judgment"
  /\ Go(c, "release")
  /\ UNCHANGED <<clock, budget, lock, ledger, memory, cut>>

(* insertLlmUsage once the answer is there: priced, or NULL for a model    *)
(* without a price.                                                        *)
Record(c) ==
  /\ call[c].pc = "sent"
  /\ \E price \in {cost[c], NULL} :
       usage' = [usage EXCEPT ![c] = [at |-> clock, cost |-> price]]
  /\ lost' = lost \ {c}
  /\ call' = [d \in Calls |->
       IF d = c THEN [call[c] EXCEPT !.pc = IF call[c].kind = "embed"
                                            THEN "vector" ELSE "release"]
       ELSE IF call[d].pc \in Reserving
            THEN [call[d] EXCEPT !.during = @ \cup {c}]
       ELSE call[d]]
  /\ UNCHANGED <<clock, budget, lock, held, cost, memory, cut>>

(* The insert fails, which breaks nothing.                                 *)
RecordFails(c) ==
  /\ "accounting" \in Faults
  /\ call[c].pc = "sent"
  /\ lost' = lost \cup {c}
  /\ Go(c, IF call[c].kind = "embed" THEN "vector" ELSE "release")
  /\ UNCHANGED <<clock, budget, lock, held, usage, cost, memory, cut>>

(* A timeout, an error status, an answer of the wrong shape: the provider  *)
(* may have billed it.                                                     *)
GatewayFails(c) ==
  /\ "gateway" \in Faults
  /\ call[c].pc = "sent"
  /\ lost' = lost \cup {c}
  /\ Go(c, IF call[c].kind = "embed" THEN "failed" ELSE "release")
  /\ UNCHANGED <<clock, budget, lock, held, usage, cost, memory, cut>>

-----------------------------------------------------------------------------
(* updateMemoryEmbedding: a superseded row keeps what it had.              *)

Embed(c) ==
  LET m == call[c].mem
  IN  /\ call[c].pc = "vector"
      /\ memory' = IF memory[m].live
                   THEN [memory EXCEPT ![m].vector = TRUE] ELSE memory
      /\ Go(c, "release")
      /\ UNCHANGED <<clock, budget, lock, ledger, cut>>

(* No vector in the answer, or the UPDATE fails.                           *)
EmbedFails(c) ==
  /\ "gateway" \in Faults
  /\ call[c].pc = "vector"
  /\ Go(c, "failed")
  /\ UNCHANGED <<clock, budget, lock, ledger, memory, cut>>

(* recordEmbedFailure, best effort; a refused task has nothing to release. *)
recordsNothing(m) == memory
recordsFailure(m) == [memory EXCEPT ![m].failed = TRUE]

RecordEmbedFailure(c) ==
  /\ call[c].pc = "failed"
  /\ memory' = recordsFailure(call[c].mem)
  /\ Go(c, "release")
  /\ UNCHANGED <<clock, budget, lock, ledger, cut>>

RecordEmbedFailureFails(c) ==
  /\ "accounting" \in Faults
  /\ call[c].pc = "failed"
  /\ cut' = cut \cup {call[c].mem}
  /\ Go(c, "release")
  /\ UNCHANGED <<clock, budget, lock, ledger, memory>>

(* releaseBudgetReservation in a finally; its failure leaves the row.      *)
Release(c) ==
  /\ call[c].pc = "release"
  /\ \/ held' = [held EXCEPT ![c] = NULL]
     \/ "accounting" \in Faults /\ UNCHANGED held
  /\ Finish(c)
  /\ UNCHANGED <<clock, budget, lock, usage, cost, lost, memory, cut>>

(* The process dies: an open transaction rolls back, what has committed    *)
(* stays.                                                                  *)
Crash(c) ==
  /\ "crash" \in Faults
  /\ call[c].pc \notin {"idle", "done"}
  /\ lost' = IF call[c].pc = "sent" THEN lost \cup {c} ELSE lost
  /\ cut' = IF call[c].mem = NULL \/ call[c].pc = "release" THEN cut
            ELSE cut \cup {call[c].mem}
  /\ Finish(c)
  /\ Unlock(c)
  /\ UNCHANGED <<clock, budget, held, usage, cost, memory>>

-----------------------------------------------------------------------------
(* setUserBudget: an override or its removal; a window is kept when it is  *)
(* not given.                                                              *)
SetUserBudget ==
  /\ \E cap \in Caps \cup {NULL}, window \in Windows \cup {NULL, budget.window} :
       budget' = [budget EXCEPT !.override = cap, !.window = window]
  /\ UNCHANGED <<clock, lock, call, ledger, memory, cut>>

(* setBudgetWindow: a renewal, which keeps the override.                   *)
SetBudgetWindow ==
  /\ \E window \in Windows : budget' = [budget EXCEPT !.window = window]
  /\ UNCHANGED <<clock, lock, call, ledger, memory, cut>>

SetTierCap ==
  /\ \E cap \in Caps \cup {NULL} : budget' = [budget EXCEPT !.tier = cap]
  /\ UNCHANGED <<clock, lock, call, ledger, memory, cut>>

Tick ==
  /\ clock < MaxTime
  /\ clock' = clock + 1
  /\ UNCHANGED <<budget, lock, call, ledger, memory, cut>>

Starts(c) ==
  \/ PreCheck(c)
  \/ \E m \in Memories : Remember(c, m)
  \/ \E old, m \in Memories : Revise(c, old, m)
  \/ \E m \in Memories : ImportSkips(c, m)
  \/ \E m \in Memories : Repair(c, m)
  \/ Search(c)
  \/ JudgeRun(c)
  \/ JudgeBatch(c)

Reserves(c) ==
  \/ ReserveBegin(c)
  \/ ReserveSum(c)
  \/ ReserveHolds(c)
  \/ Admit(c)
  \/ Refuse(c)
  \/ FailOpen(c)

Settles(c) ==
  \/ Send(c)
  \/ Withhold(c)
  \/ Record(c)
  \/ RecordFails(c)
  \/ GatewayFails(c)
  \/ Embed(c)
  \/ EmbedFails(c)
  \/ RecordEmbedFailure(c)
  \/ RecordEmbedFailureFails(c)
  \/ Release(c)
  \/ Crash(c)

Next ==
  \/ \E c \in Calls : Starts(c)
  \/ \E c \in Calls : Reserves(c)
  \/ \E c \in Calls : Settles(c)
  \/ \E m \in Memories : Supersede(m)
  \/ SetUserBudget
  \/ SetBudgetWindow
  \/ SetTierCap
  \/ Tick

Spec == Init /\ [][Next]_vars

-----------------------------------------------------------------------------
(* Properties.                                                             *)

(* What a call will or did cost: its worst case until it is sent.          *)
exposure(d) == IF call[d].pc = "reserved" THEN Estimate[d] ELSE cost[d]

(* Logged in the window that c has read, or not logged yet.                *)
Relevant(c) ==
  {d \in Calls : usage[d] # NULL => inWindow(d, call[c].window, clock)}

(* Still not logged when the reservation no longer counts.                 *)
Outlived == {d \in Calls : usage[d] = NULL /\ held[d] # NULL
                           /\ held[d] <= clock - TTL}

exposures(S) == [d \in Calls |-> IF d \in S THEN exposure(d) ELSE 0]

Admitted(c) == call[c].pc = "verdict" /\ call'[c].pc = "reserved"
               /\ held'[c] # NULL

(* reserveBudget: however calls overlap, one is admitted only if all that  *)
(* was really billed or promised before, with its own worst case, is       *)
(* within the cap it read: except what was billed without a trace, what    *)
(* outlived its reservation, and what was logged during the decision.      *)
AdmissionRespectsCap ==
  [][\A c \in Calls :
       Admitted(c) =>
         Total(exposures(Relevant(c) \ (lost \cup Outlived \cup call[c].during)))
           + Estimate[c] <= call[c].limit]_vars

(* What reserveBudgetSlot's comment says: "concurrent near-cap requests    *)
(* cannot all pass and overshoot the cap".                                 *)
CapIsCeiling ==
  Total(cost) <= DefaultCap

(* embed.ts, contract 1: a live memory without a vector has its task under *)
(* way or the event that repair looks for, unless the process died or the  *)
(* event itself could not be written.                                      *)
NoSilentVectorLoss ==
  \A m \in Memories :
    memory[m].live /\ ~memory[m].vector /\ ~memory[m].failed /\ m \notin cut
      => \E c \in Calls : call[c].mem = m /\ call[c].pc \notin {"done", "release"}
=============================================================================
