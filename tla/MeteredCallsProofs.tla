-------------------------- MODULE MeteredCallsProofs --------------------------
(***************************************************************************)
(* What the budget rests on: whoever decides holds the advisory lock, has  *)
(* seen what was logged before it asked, and knows every reservation that  *)
(* still counts; and a call that was admitted is reserved, logged, or one  *)
(* of those whose spend the tables do not show.                            *)
(***************************************************************************)
EXTENDS MeteredCalls, FiniteSetTheorems, TLAPS

Deciding == {"sum", "verdict"}
Asking == {"idle", "checked", "begin", "locked", "sum", "verdict"}

(* A task is about a memory that is there; only embeddings are tasks.      *)
TaskOK(c) ==
  /\ call[c].now <= clock
  /\ call[c].mem \in Memories => call[c].kind = "embed" /\ memory[call[c].mem].born
  /\ call[c].pc \in {"idle", "checked", "done"} => call[c].mem = NULL
  /\ call[c].kind = "embed" => call[c].pc \in {"idle", "checked", "done"}
                                 \/ call[c].mem \in Memories
  /\ call[c].pc \in {"vector", "failed"} => call[c].kind = "embed"

(* A call costs nothing before it is sent, and at most its estimate then;  *)
(* until it is logged its reservation stands for it, or it is lost.        *)
SpendOK(c) ==
  /\ cost[c] <= Estimate[c]
  /\ call[c].pc \in Asking => held[c] = NULL
  /\ call[c].pc \in Asking \cup {"reserved"} => cost[c] = 0
  /\ call[c].pc \in Asking \cup {"reserved", "sent"} => usage[c] = NULL
  /\ call[c].pc \in {"reserved", "sent"} => held[c] # NULL \/ c \in lost
  /\ usage[c] # NULL => usage[c].cost \in {cost[c], NULL}
  /\ cost[c] > 0 /\ usage[c] = NULL => call[c].pc = "sent" \/ c \in lost

(* Whoever decides under the lock has seen the log and the reservations.   *)
DecisionOK(c) ==
  call[c].pc \in Deciding =>
    /\ lock = c
    /\ \A d \in Calls :
         usage[d] # NULL /\ inWindow(d, call[c].window, call[c].now)
           => d \in call[c].seen \cup call[c].during
    /\ call[c].pc = "verdict" => activeReservations(call[c].now) \subseteq call[c].booked

IInv ==
  /\ TypeOK
  /\ \A c \in Calls : TaskOK(c) /\ SpendOK(c) /\ DecisionOK(c)
  /\ \A m \in Memories : memory[m].live \/ memory[m].failed => memory[m].born
  /\ NoSilentVectorLoss

-----------------------------------------------------------------------------
Budgets == [ override : Caps \cup {NULL}, tier : Caps \cup {NULL},
             window : Windows \cup {NULL} ]
Logs == [at : Time, cost : Nat \cup {NULL}]

LEMMA Types ==
  ASSUME TypeOK
  PROVE  /\ clock \in Time /\ clock \in Nat
         /\ budget \in Budgets
         /\ lock \in Calls \cup {NULL}
         /\ call \in [Calls -> CallStates]
         /\ held \in [Calls -> Time \cup {NULL}]
         /\ usage \in [Calls -> Logs \cup {NULL}]
         /\ memory \in [Memories -> MemoryStates]
         /\ cost \in [Calls -> Nat]
         /\ lost \in SUBSET Calls
         /\ cut \in SUBSET Memories
         /\ NULL \notin Nat /\ NULL \notin Calls /\ NULL \notin Memories /\ NULL \notin Logs
<1>1. NULL \notin Logs
  BY BudgetAssumption DEF Logs, Time
<1> QED BY <1>1, BudgetAssumption DEF TypeOK, Budgets, Logs, Time

(* The call that a step leaves behind.                                     *)
LEMMA Rows ==
  ASSUME TypeOK, NEW c \in Calls
  PROVE  /\ call[c] \in CallStates
         /\ Fresh \in CallStates
         /\ [Fresh EXCEPT !.pc = "done"] \in CallStates
         /\ [Fresh EXCEPT !.pc = "done"].pc = "done"
         /\ [Fresh EXCEPT !.pc = "done"].mem = NULL
         /\ [Fresh EXCEPT !.pc = "done"].kind = "search"
         /\ [Fresh EXCEPT !.pc = "done"].now = 0
<1>1. Fresh \in CallStates
  BY BudgetAssumption DEF Fresh, CallStates, Step, Time
<1>2. call[c] \in CallStates
  BY Types
<1> QED BY <1>1, <1>2 DEF CallStates, Step, Fresh

Doing(m, kind, step) == [Task(m, kind) EXCEPT !.pc = step]

LEMMA Tasks ==
  ASSUME NEW m \in Memories \cup {NULL}, NEW kind \in {"embed", "search", "judgment"},
         NEW step \in Step
  PROVE  /\ Doing(m, kind, step) \in CallStates
         /\ Doing(m, kind, step).pc = step
         /\ Doing(m, kind, step).mem = m
         /\ Doing(m, kind, step).kind = kind
         /\ Doing(m, kind, step).now = 0
<1>1. Fresh \in CallStates
  BY BudgetAssumption DEF Fresh, CallStates, Step, Time
<1> QED BY <1>1 DEF Doing, Task, CallStates, Step, Fresh

LEMMA Moved ==
  ASSUME TypeOK, NEW c \in Calls, NEW row \in CallStates, Become(c, row)
  PROVE  /\ call' \in [Calls -> CallStates]
         /\ call'[c] = row
         /\ \A d \in Calls : d # c => call'[d] = call[d]
BY Types DEF Become

-----------------------------------------------------------------------------
(* A memory whose vector is missing and of which nothing tells.            *)
Silent(m) == memory[m].live /\ ~memory[m].vector /\ ~memory[m].failed /\ m \notin cut
Tasked(c, m) == call[c].mem = m /\ call[c].pc \notin {"done", "release"}

(* What the others know is not touched, but for what a call logs while     *)
(* they decide.                                                            *)
Same(d) ==
  /\ call'[d].pc = call[d].pc /\ call'[d].mem = call[d].mem
  /\ call'[d].kind = call[d].kind /\ call'[d].now = call[d].now
  /\ call'[d].window = call[d].window /\ call'[d].seen = call[d].seen
  /\ call'[d].booked = call[d].booked /\ call[d].during \subseteq call'[d].during
  /\ held'[d] = held[d] /\ usage'[d] = usage[d] /\ cost'[d] = cost[d]
  /\ d \in lost' <=> d \in lost
  /\ lock = d => lock' = d

(* A step of c, with what it must show of itself.                          *)
LEMMA StepPreserves ==
  ASSUME IInv, TypeOK', NEW c \in Calls, UNCHANGED clock,
         \A d \in Calls : d # c => Same(d),
         \/ usage'[c] = usage[c]
         \/ \A d \in Calls : d # c /\ call[d].pc \in Deciding => c \in call'[d].during,
         \/ held'[c] \in {held[c], NULL}
         \/ \A d \in Calls : d # c => call[d].pc # "verdict",
         TaskOK(c)', SpendOK(c)', DecisionOK(c)',
         \A m \in Memories : /\ memory[m].born => memory'[m].born
                             /\ memory'[m].live \/ memory'[m].failed => memory'[m].born,
         \A m \in Memories : Silent(m)' =>
           \/ Silent(m) /\ (Tasked(c, m) => Tasked(c, m)')
           \/ Tasked(c, m)'
  PROVE  IInv'
<1>1. /\ NULL \notin Nat /\ NULL \notin Memories
      /\ held \in [Calls -> Time \cup {NULL}]
  BY Types DEF IInv
<1>2. ASSUME NEW d \in Calls, d # c PROVE TaskOK(d)' /\ SpendOK(d)' /\ DecisionOK(d)'
  <2>1. Same(d) /\ TaskOK(d) /\ SpendOK(d) /\ DecisionOK(d)
    BY <1>2 DEF IInv
  <2>2. TaskOK(d)'
    BY <2>1 DEF TaskOK, Same
  <2>3. SpendOK(d)'
    BY <2>1 DEF SpendOK, Same
  <2>4. DecisionOK(d)'
    <3>1. SUFFICES ASSUME call[d].pc \in Deciding PROVE DecisionOK(d)'
      BY <2>1 DEF DecisionOK, Same
    <3>2. lock' = d
      BY <2>1, <3>1 DEF DecisionOK, Same
    <3>3. ASSUME NEW e \in Calls, usage'[e] # NULL,
                 inWindow(e, call[d].window, call[d].now)'
          PROVE  e \in call'[d].seen \cup call'[d].during
      <4>1. CASE usage'[e] = usage[e]
        BY <4>1, <3>1, <3>3, <2>1 DEF DecisionOK, inWindow, Same
      <4>2. CASE usage'[e] # usage[e]
        <5>1. e = c
          BY <4>2 DEF Same
        <5> QED BY <5>1, <4>2, <3>1, <1>2
      <4> QED BY <4>1, <4>2
    <3>4. ASSUME call[d].pc = "verdict", NEW e \in activeReservations(call[d].now)'
          PROVE  e \in call'[d].booked
      <4>1. e \in Calls /\ held'[e] # NULL /\ held'[e] > call[d].now - TTL
        BY <2>1 DEF activeReservations, Same
      <4>2. held'[e] = held[e]
        BY <4>1, <3>4, <1>2 DEF Same
      <4> QED BY <4>1, <4>2, <3>4, <2>1 DEF DecisionOK, activeReservations, Same, Deciding
    <3> QED BY <2>1, <3>2, <3>3, <3>4 DEF DecisionOK, Same, inWindow, activeReservations
  <2> QED BY <2>2, <2>3, <2>4
<1>3. ASSUME NEW d \in Calls PROVE TaskOK(d)' /\ SpendOK(d)' /\ DecisionOK(d)'
  BY <1>2
<1>4. NoSilentVectorLoss'
  <2>1. ASSUME NEW m \in Memories, Silent(m)' PROVE \E d \in Calls : Tasked(d, m)'
    <3>1. CASE Tasked(c, m)'
      BY <3>1
    <3>2. CASE ~Tasked(c, m)'
      <4>1. Silent(m) /\ ~Tasked(c, m)
        BY <2>1, <3>2
      <4>2. PICK d \in Calls : Tasked(d, m)
        BY <4>1 DEF IInv, NoSilentVectorLoss, Silent, Tasked
      <4>3. d # c
        BY <4>1, <4>2
      <4> QED BY <4>2, <4>3 DEF Same, Tasked
    <3> QED BY <3>1, <3>2
  <2> QED BY <2>1 DEF NoSilentVectorLoss, Silent, Tasked
<1> QED BY <1>3, <1>4 DEF IInv

(* The budget's row and the clock concern nobody who has read them.        *)
LEMMA OutsidePreserves ==
  ASSUME IInv, TypeOK', UNCHANGED <<lock, call, ledger, cut>>, clock <= clock',
         \A m \in Memories : /\ memory'[m].born = memory[m].born
                             /\ memory'[m].live => memory[m].live
                             /\ memory'[m].failed = memory[m].failed
                             /\ Silent(m)' => Silent(m)
  PROVE  IInv'
<1>1. ASSUME NEW d \in Calls PROVE TaskOK(d)' /\ SpendOK(d)' /\ DecisionOK(d)'
  <2>1. TaskOK(d) /\ SpendOK(d) /\ DecisionOK(d)
    BY DEF IInv
  <2>2. call[d].now \in Nat /\ clock \in Nat /\ clock' \in Nat
    BY Types, Rows DEF IInv, CallStates, Time, TypeOK
  <2>3. TaskOK(d)'
    BY <2>1, <2>2 DEF TaskOK
  <2>4. SpendOK(d)' /\ DecisionOK(d)'
    BY <2>1 DEF SpendOK, DecisionOK, inWindow, activeReservations, ledger
  <2> QED BY <2>3, <2>4
<1>2. NoSilentVectorLoss'
  <2>1. \A m \in Memories : Silent(m)' => \E d \in Calls : Tasked(d, m)
    BY DEF IInv, NoSilentVectorLoss, Silent, Tasked
  <2> QED BY <2>1 DEF NoSilentVectorLoss, Silent, Tasked
<1> QED BY <1>1, <1>2 DEF IInv

(* A step that touches neither the ledger nor the lock and does not decide. *)
LEMMA QuietStep ==
  ASSUME IInv, NEW c \in Calls, NEW row \in CallStates, Become(c, row),
         UNCHANGED <<clock, budget, lock, ledger>>,
         memory' \in [Memories -> MemoryStates], cut' \in SUBSET Memories,
         row.pc \notin Deciding,
         TaskOK(c)', SpendOK(c)',
         \A m \in Memories : /\ memory[m].born => memory'[m].born
                             /\ memory'[m].live \/ memory'[m].failed => memory'[m].born,
         \A m \in Memories : Silent(m)' =>
           \/ Silent(m) /\ (Tasked(c, m) => Tasked(c, m)')
           \/ Tasked(c, m)'
  PROVE  IInv'
<1>1. /\ call' \in [Calls -> CallStates] /\ call'[c] = row
      /\ \A d \in Calls : d # c => call'[d] = call[d]
  BY Moved DEF IInv
<1>2. TypeOK'
  BY <1>1 DEF IInv, TypeOK, ledger
<1>3. \A d \in Calls : d # c => Same(d)
  BY <1>1 DEF Same, ledger
<1>4. DecisionOK(c)'
  BY <1>1 DEF DecisionOK
<1>5. /\ usage'[c] = usage[c] /\ held'[c] \in {held[c], NULL} /\ UNCHANGED clock
  BY DEF ledger
<1> QED BY <1>2, <1>3, <1>4, <1>5, StepPreserves

(* Calls that start.                                                       *)
LEMMA Spendless ==
  ASSUME IInv, NEW c \in Calls, call[c].pc \in {"idle", "checked"},
         UNCHANGED ledger, call'[c].pc \in Asking \cup {"failed", "done"}
  PROVE  SpendOK(c)'
<1>1. SpendOK(c) /\ cost[c] = 0 /\ usage[c] = NULL /\ held[c] = NULL
  BY DEF IInv, SpendOK, Asking
<1> QED BY <1>1 DEF SpendOK, Asking, ledger

LEMMA Asked ==
  ASSUME IInv, NEW c \in Calls, NEW row \in CallStates, Become(c, row),
         call[c].pc = "idle", row.pc \in {"checked", "begin"}, row.mem = NULL,
         row.now = 0, row.pc = "begin" => row.kind # "embed",
         UNCHANGED <<clock, budget, lock, ledger, memory, cut>>
  PROVE  IInv'
<1>1. call'[c] = row /\ NULL \notin Memories /\ clock \in Nat
  BY Moved, Types DEF IInv
<1>2. SpendOK(c)'
  BY <1>1, Spendless DEF Asking
<1>3. TaskOK(c)'
  BY <1>1 DEF TaskOK
<1>4. memory' \in [Memories -> MemoryStates] /\ cut' \in SUBSET Memories
  BY Types DEF IInv
<1>5. /\ row.pc \notin Deciding
      /\ \A m \in Memories : /\ memory[m].born => memory'[m].born
                             /\ memory'[m].live \/ memory'[m].failed => memory'[m].born
  BY DEF Deciding, IInv
<1>6. \A m \in Memories : ~Tasked(c, m)
  BY <1>1 DEF IInv, TaskOK, Tasked
<1>7. \A m \in Memories : Silent(m)' => Silent(m)
  BY DEF Silent
<1> QED BY <1>2, <1>3, <1>4, <1>5, <1>6, <1>7, QuietStep

(* A memory gets its task.                                                 *)
LEMMA Kicked ==
  ASSUME IInv, NEW c \in Calls, NEW m \in Memories, KickEmbed(c, m),
         call[c].pc \in {"idle", "checked"},
         UNCHANGED <<clock, budget, lock, ledger, cut>>,
         memory' \in [Memories -> MemoryStates], memory'[m].born,
         \A n \in Memories : /\ memory[n].born => memory'[n].born
                             /\ memory'[n].live \/ memory'[n].failed => memory'[n].born
                             /\ n # m => (Silent(n)' => Silent(n))
  PROVE  IInv'
<1>1. PICK step \in {"begin", "failed"} :
        Become(c, [Task(m, "embed") EXCEPT !.pc = step])
  BY DEF KickEmbed
<1> DEFINE row == Doing(m, "embed", step)
<1>2. /\ row \in CallStates /\ row.pc = step /\ row.mem = m /\ row.kind = "embed"
      /\ row.now = 0
  BY Tasks DEF Step
<1>3. Become(c, row)
  BY <1>1 DEF Doing
<1> HIDE DEF row
<1>4. call'[c] = row /\ NULL \notin Memories /\ clock \in Nat
  BY <1>2, <1>3, Moved, Types DEF IInv
<1>5. SpendOK(c)'
  BY <1>2, <1>4, Spendless DEF Asking
<1>6. TaskOK(c)'
  BY <1>2, <1>4 DEF TaskOK
<1>7. Tasked(c, m)' /\ row.pc \notin Deciding /\ cut' \in SUBSET Memories
  BY <1>2, <1>4, Types DEF Tasked, Deciding, IInv
<1>8. \A n \in Memories : ~Tasked(c, n)
  BY <1>4 DEF IInv, TaskOK, Tasked
<1> QED BY <1>2, <1>3, <1>5, <1>6, <1>7, <1>8, QuietStep

LEMMA BornTyped ==
  ASSUME TypeOK, NEW m \in Memories
  PROVE  /\ Born(m) \in [Memories -> MemoryStates]
         /\ Born(m)[m].born /\ Born(m)[m].live
         /\ \A n \in Memories : n # m => Born(m)[n] = memory[n]
BY Types DEF Born, MemoryStates

LEMMA StartsOK ==
  ASSUME IInv, NEW c \in Calls, Starts(c)
  PROVE  IInv'
<1>1. TypeOK /\ memory \in [Memories -> MemoryStates] /\ NULL \notin Memories
  BY Types DEF IInv
<1>2. \A n \in Memories : memory[n].live \/ memory[n].failed => memory[n].born
  BY DEF IInv
<1>3. CASE PreCheck(c)
  <2> DEFINE row == Doing(NULL, "embed", "checked")
  <2>1. row \in CallStates /\ row.pc = "checked" /\ row.mem = NULL /\ row.now = 0
    BY Tasks DEF Step
  <2>2. /\ Become(c, row) /\ call[c].pc = "idle"
        /\ UNCHANGED <<clock, budget, lock, ledger, memory, cut>>
    BY <1>3 DEF PreCheck, Doing
  <2> HIDE DEF row
  <2> QED BY <2>1, <2>2, Asked
<1>4. ASSUME NEW kind \in {"search", "judgment"}, Asks(c, kind) PROVE IInv'
  <2> DEFINE row == Doing(NULL, kind, "begin")
  <2>1. /\ row \in CallStates /\ row.pc = "begin" /\ row.mem = NULL /\ row.kind = kind
        /\ row.now = 0
    BY Tasks DEF Step
  <2>2. /\ Become(c, row) /\ call[c].pc = "idle"
        /\ UNCHANGED <<clock, budget, lock, ledger, memory, cut>>
    BY <1>4 DEF Asks, Doing
  <2> HIDE DEF row
  <2> QED BY <2>1, <2>2, Asked
<1>5. ASSUME NEW m \in Memories, Remember(c, m) PROVE IInv'
  <2>1. /\ call[c].pc = "checked" /\ memory' = Born(m) /\ KickEmbed(c, m)
        /\ UNCHANGED <<clock, budget, lock, ledger, cut>>
    BY <1>5 DEF Remember
  <2>2. \A n \in Memories : n # m => (Silent(n)' => Silent(n))
    BY <2>1, <1>1, BornTyped DEF Silent
  <2> QED BY <2>1, <2>2, <1>1, <1>2, BornTyped, Kicked
<1>6. ASSUME NEW old \in Memories, NEW m \in Memories, Revise(c, old, m) PROVE IInv'
  <2>1. /\ call[c].pc = "checked" /\ KickEmbed(c, m)
        /\ memory' = [Born(m) EXCEPT ![old].live = FALSE]
        /\ memory[old].live /\ ~memory[m].born /\ old # m
        /\ UNCHANGED <<clock, budget, lock, ledger, cut>>
    BY <1>6, <1>2 DEF Revise
  <2>2. /\ memory' \in [Memories -> MemoryStates] /\ memory'[m].born
        /\ ~memory'[old].live /\ memory'[old].born
        /\ \A n \in Memories : n # m /\ n # old => memory'[n] = memory[n]
    <3> DEFINE born == Born(m)
    <3>1. /\ born \in [Memories -> MemoryStates] /\ born[m].born
          /\ \A n \in Memories : n # m => born[n] = memory[n]
      BY <1>1, BornTyped
    <3>2. memory' = [born EXCEPT ![old].live = FALSE]
      BY <2>1
    <3> HIDE DEF born
    <3>3. born[old] \in MemoryStates /\ born[old].born
      BY <2>1, <3>1, <1>2
    <3>4. /\ memory'[old] = [born[old] EXCEPT !.live = FALSE]
          /\ \A n \in Memories : n # old => memory'[n] = born[n]
          /\ memory' = [born EXCEPT ![old] = memory'[old]]
      BY <3>1, <3>2
    <3>5. /\ memory'[old] \in MemoryStates /\ ~memory'[old].live /\ memory'[old].born
      BY <3>3, <3>4 DEF MemoryStates
    <3> QED BY <2>1, <3>1, <3>4, <3>5
  <2>3. \A n \in Memories : n # m => (Silent(n)' => Silent(n))
    BY <2>1, <2>2 DEF Silent
  <2> QED BY <2>1, <2>2, <2>3, <1>1, <1>2, Kicked
<1>7. ASSUME NEW m \in Memories, ImportSkips(c, m) PROVE IInv'
  <2> DEFINE row == [Fresh EXCEPT !.pc = "done"]
  <2>1. /\ row \in CallStates /\ row.pc = "done" /\ row.mem = NULL
        /\ row.kind = "search" /\ row.now = 0
    BY <1>1, Rows
  <2>2. /\ Become(c, row) /\ call[c].pc = "idle" /\ memory' = Born(m)
        /\ cut' = cut \cup {m} /\ UNCHANGED <<clock, budget, lock, ledger>>
    BY <1>7 DEF ImportSkips, Finish
  <2> HIDE DEF row
  <2>3. call'[c] = row /\ clock \in Nat /\ cut' \in SUBSET Memories
    BY <2>1, <2>2, <1>1, Moved, Types
  <2>4. SpendOK(c)' /\ TaskOK(c)' /\ row.pc \notin Deciding
    BY <2>1, <2>2, <2>3, <1>1, Spendless DEF Asking, TaskOK, Deciding
  <2>5. \A n \in Memories : Silent(n)' => Silent(n)
    BY <2>2, <1>1, BornTyped DEF Silent
  <2>6. \A n \in Memories : ~Tasked(c, n)
    BY <2>2, <1>1 DEF IInv, TaskOK, Tasked
  <2>7. /\ memory' \in [Memories -> MemoryStates]
        /\ \A n \in Memories : /\ memory[n].born => memory'[n].born
                               /\ memory'[n].live \/ memory'[n].failed => memory'[n].born
    BY <2>2, <1>1, <1>2, BornTyped
  <2> QED BY <2>1, <2>2, <2>3, <2>4, <2>5, <2>6, <2>7, QuietStep
<1>8. ASSUME NEW m \in Memories, Repair(c, m) PROVE IInv'
  <2>1. /\ call[c].pc = "idle" /\ KickEmbed(c, m) /\ memory[m].failed
        /\ UNCHANGED <<clock, budget, lock, ledger, memory, cut>>
    BY <1>8 DEF Repair
  <2>2. memory[m].born
    BY <2>1, <1>2
  <2> QED BY <2>1, <2>2, <1>1, <1>2, Kicked DEF Silent
<1> QED BY <1>3, <1>4, <1>5, <1>6, <1>7, <1>8 DEF Starts, Search, JudgeRun, JudgeBatch

-----------------------------------------------------------------------------
(* Steps of a call under way that leave the memories alone.                *)
LEMMA OwnStep ==
  ASSUME IInv, NEW c \in Calls, NEW row \in CallStates, Become(c, row),
         UNCHANGED <<clock, budget, usage, memory>>,
         lock' \in Calls \cup {NULL}, \A d \in Calls : d # c /\ lock = d => lock' = d,
         held' \in [Calls -> Time \cup {NULL}], \A d \in Calls : d # c => held'[d] = held[d],
         cost' \in [Calls -> Nat], \A d \in Calls : d # c => cost'[d] = cost[d],
         lost' \in SUBSET Calls, \A d \in Calls : d # c => (d \in lost' <=> d \in lost),
         \/ held'[c] \in {held[c], NULL}
         \/ \A d \in Calls : d # c => call[d].pc # "verdict",
         TaskOK(c)', SpendOK(c)', DecisionOK(c)',
         cut' \in SUBSET Memories, cut \subseteq cut',
         \A m \in Memories \ cut' : Tasked(c, m) => Tasked(c, m)'
  PROVE  IInv'
<1>1. /\ call' \in [Calls -> CallStates] /\ call'[c] = row
      /\ \A d \in Calls : d # c => call'[d] = call[d]
  BY Moved DEF IInv
<1>2. TypeOK'
  BY <1>1 DEF IInv, TypeOK
<1>3. \A d \in Calls : d # c => Same(d)
  BY <1>1 DEF Same
<1>4. \A m \in Memories : /\ memory[m].born => memory'[m].born
                          /\ memory'[m].live \/ memory'[m].failed => memory'[m].born
  BY DEF IInv
<1>5. \A m \in Memories : Silent(m)' => Silent(m) /\ m \in Memories \ cut'
  BY DEF Silent
<1>6. \A m \in Memories : Silent(m)' =>
           \/ Silent(m) /\ (Tasked(c, m) => Tasked(c, m)')
           \/ Tasked(c, m)'
  BY <1>5
<1>7. UNCHANGED clock /\ usage'[c] = usage[c]
  OBVIOUS
<1> QED BY <1>2, <1>3, <1>4, <1>6, <1>7, StepPreserves

LEMMA Going ==
  ASSUME TypeOK, NEW c \in Calls, NEW step \in Step, Go(c, step)
  PROVE  /\ call' \in [Calls -> CallStates]
         /\ [call[c] EXCEPT !.pc = step] \in CallStates
         /\ Become(c, [call[c] EXCEPT !.pc = step])
         /\ call'[c].pc = step /\ call'[c].mem = call[c].mem
         /\ call'[c].kind = call[c].kind /\ call'[c].now = call[c].now
         /\ \A d \in Calls : d # c => call'[d] = call[d]
<1> DEFINE row == [call[c] EXCEPT !.pc = step]
<1>1. /\ row \in CallStates /\ row.pc = step /\ row.mem = call[c].mem
      /\ row.kind = call[c].kind /\ row.now = call[c].now
  BY Rows DEF CallStates
<1>2. Become(c, row)
  BY DEF Go
<1>3. row = [call[c] EXCEPT !.pc = step]
  OBVIOUS
<1> HIDE DEF row
<1>4. /\ call' \in [Calls -> CallStates] /\ call'[c] = row
      /\ \A d \in Calls : d # c => call'[d] = call[d]
  BY <1>1, <1>2, Moved
<1> QED BY <1>1, <1>2, <1>3, <1>4

LEMMA ReserveBeginOK ==
  ASSUME IInv, NEW c \in Calls, ReserveBegin(c)
  PROVE  IInv'
<1> DEFINE row == [call[c] EXCEPT !.pc = "locked", !.now = clock]
<1>1. /\ TypeOK /\ call[c] \in CallStates /\ clock \in Time /\ clock \in Nat
      /\ TaskOK(c) /\ SpendOK(c)
  BY Types, Rows DEF IInv
<1>2. /\ row \in CallStates /\ row.pc = "locked" /\ row.now = clock
      /\ row.mem = call[c].mem /\ row.kind = call[c].kind
  BY <1>1 DEF CallStates, Step
<1>3. /\ Become(c, row) /\ call[c].pc = "begin"
      /\ UNCHANGED <<clock, budget, lock, ledger, memory, cut>>
  BY DEF ReserveBegin
<1> HIDE DEF row
<1>4. call'[c] = row
  BY <1>1, <1>2, <1>3, Moved
<1>5. TaskOK(c)' /\ SpendOK(c)' /\ DecisionOK(c)'
  BY <1>1, <1>2, <1>3, <1>4 DEF TaskOK, SpendOK, DecisionOK, Deciding, Asking, ledger
<1>6. \A m \in Memories : Tasked(c, m) => Tasked(c, m)'
  BY <1>2, <1>4 DEF Tasked
<1>7. /\ UNCHANGED <<clock, budget, lock, usage, memory, cut, held, cost, lost>>
      /\ lock' \in Calls \cup {NULL} /\ held' \in [Calls -> Time \cup {NULL}]
      /\ cost' \in [Calls -> Nat] /\ lost' \in SUBSET Calls /\ cut' \in SUBSET Memories
  BY <1>1, <1>3, Types DEF ledger
<1> QED BY <1>2, <1>3, <1>5, <1>6, <1>7, OwnStep

LEMMA CapTyped == ASSUME TypeOK PROVE effectiveCap \in Nat
BY Types, BudgetAssumption DEF effectiveCap, Budgets

LEMMA ReserveSumOK ==
  ASSUME IInv, NEW c \in Calls, ReserveSum(c)
  PROVE  IInv'
<1> DEFINE logged == IF budget.window = NULL THEN Logged \ call[c].during ELSE Logged
           seen == {d \in logged : inWindow(d, budget.window, call[c].now)}
           row == [call[c] EXCEPT !.pc = "sum", !.limit = effectiveCap,
                                  !.window = budget.window, !.seen = seen]
<1>1. /\ TypeOK /\ call[c] \in CallStates /\ clock \in Nat
      /\ budget \in Budgets /\ effectiveCap \in Nat
      /\ TaskOK(c) /\ SpendOK(c)
  BY Types, Rows, CapTyped DEF IInv
<1>2. \A d \in Calls : usage[d] # NULL /\ inWindow(d, budget.window, call[c].now)
                         => d \in seen \cup call[c].during
  BY DEF Logged
<1>3. seen \subseteq Calls
  BY DEF Logged
<1>4. /\ Become(c, row) /\ call[c].pc = "locked" /\ lock = NULL /\ lock' = c
      /\ UNCHANGED <<clock, budget, ledger, memory, cut>>
  BY DEF ReserveSum, lockFree
<1> HIDE DEF seen
<1>5. /\ row \in CallStates /\ row.pc = "sum" /\ row.now = call[c].now
      /\ row.mem = call[c].mem /\ row.kind = call[c].kind
      /\ row.window = budget.window /\ row.seen = seen /\ row.during = call[c].during
  BY <1>1, <1>3 DEF CallStates, Step, Budgets
<1> HIDE DEF row
<1>6. call'[c] = row
  BY <1>1, <1>4, <1>5, Moved
<1>7. TaskOK(c)' /\ SpendOK(c)'
  BY <1>1, <1>4, <1>5, <1>6 DEF TaskOK, SpendOK, Asking, ledger
<1>8. DecisionOK(c)'
  BY <1>2, <1>4, <1>5, <1>6 DEF DecisionOK, inWindow, ledger
<1>9. \A m \in Memories : Tasked(c, m) => Tasked(c, m)'
  BY <1>4, <1>5, <1>6 DEF Tasked
<1>10. /\ UNCHANGED <<clock, budget, usage, memory, cut, held, cost, lost>>
       /\ held' \in [Calls -> Time \cup {NULL}] /\ NULL \notin Calls
       /\ cost' \in [Calls -> Nat] /\ lost' \in SUBSET Calls /\ cut' \in SUBSET Memories
  BY <1>1, <1>4, Types DEF ledger
<1> QED BY <1>4, <1>5, <1>7, <1>8, <1>9, <1>10, OwnStep

LEMMA ReserveHoldsOK ==
  ASSUME IInv, NEW c \in Calls, ReserveHolds(c)
  PROVE  IInv'
<1> DEFINE booked == activeReservations(call[c].now)
           row == [call[c] EXCEPT !.pc = "verdict", !.booked = booked]
<1>1. /\ TypeOK /\ call[c] \in CallStates /\ clock \in Nat
      /\ TaskOK(c) /\ SpendOK(c) /\ DecisionOK(c)
  BY Types, Rows DEF IInv
<1>2. booked \subseteq Calls
  BY DEF activeReservations
<1>3. /\ Become(c, row) /\ call[c].pc = "sum"
      /\ UNCHANGED <<clock, budget, lock, ledger, memory, cut>>
  BY DEF ReserveHolds
<1>4. booked = activeReservations(call[c].now)
  OBVIOUS
<1> HIDE DEF booked
<1>5. /\ row \in CallStates /\ row.pc = "verdict" /\ row.now = call[c].now
      /\ row.mem = call[c].mem /\ row.kind = call[c].kind /\ row.booked = booked
      /\ row.window = call[c].window /\ row.seen = call[c].seen
      /\ row.during = call[c].during
  BY <1>1, <1>2 DEF CallStates, Step
<1> HIDE DEF row
<1>6. call'[c] = row
  BY <1>1, <1>3, <1>5, Moved
<1>7. TaskOK(c)' /\ SpendOK(c)'
  BY <1>1, <1>3, <1>5, <1>6 DEF TaskOK, SpendOK, Asking, ledger
<1>8. DecisionOK(c)'
  BY <1>1, <1>3, <1>4, <1>5, <1>6
  DEF DecisionOK, Deciding, inWindow, activeReservations, ledger
<1>9. \A m \in Memories : Tasked(c, m) => Tasked(c, m)'
  BY <1>3, <1>5, <1>6 DEF Tasked
<1>10. /\ UNCHANGED <<clock, budget, lock, usage, memory, cut, held, cost, lost>>
       /\ lock' \in Calls \cup {NULL} /\ held' \in [Calls -> Time \cup {NULL}]
       /\ cost' \in [Calls -> Nat] /\ lost' \in SUBSET Calls /\ cut' \in SUBSET Memories
  BY <1>1, <1>3, Types DEF ledger
<1> QED BY <1>3, <1>5, <1>7, <1>8, <1>9, <1>10, OwnStep

(* A transaction that ends lets go of the lock if it is its own.           *)
LEMMA Unlocked ==
  ASSUME TypeOK, NEW c \in Calls, Unlock(c)
  PROVE  lock' \in Calls \cup {NULL} /\ \A d \in Calls : d # c /\ lock = d => lock' = d
BY Types DEF Unlock

LEMMA DecidedRow ==
  ASSUME IInv, NEW c \in Calls, NEW step \in Step, Decided(c, step)
  PROVE  \E row \in CallStates :
           /\ Become(c, row) /\ row.pc = step /\ row.now = 0
           /\ row.mem = call[c].mem /\ row.kind = call[c].kind
<1> DEFINE row == Doing(call[c].mem, call[c].kind, step)
<1>1. call[c] \in CallStates
  BY Rows DEF IInv
<1>2. /\ call[c].mem \in Memories \cup {NULL}
      /\ call[c].kind \in {"embed", "search", "judgment"}
  BY <1>1 DEF CallStates
<1>3. /\ row \in CallStates /\ row.pc = step /\ row.now = 0
      /\ row.mem = call[c].mem /\ row.kind = call[c].kind
  BY <1>2, Tasks
<1>4. Become(c, row)
  BY DEF Decided, Doing
<1> HIDE DEF row
<1> QED BY <1>3, <1>4

LEMMA FinishRow ==
  ASSUME IInv, NEW c \in Calls, Finish(c)
  PROVE  \E row \in CallStates :
           /\ Become(c, row) /\ row.pc = "done" /\ row.now = 0
           /\ row.mem = NULL /\ row.kind = "search"
<1> DEFINE row == [Fresh EXCEPT !.pc = "done"]
<1>1. /\ row \in CallStates /\ row.pc = "done" /\ row.now = 0
      /\ row.mem = NULL /\ row.kind = "search"
  BY Rows DEF IInv
<1>2. Become(c, row)
  BY DEF Finish
<1> HIDE DEF row
<1> QED BY <1>1, <1>2

LEMMA ReserveEnds ==
  ASSUME IInv, NEW c \in Calls, Admit(c) \/ Refuse(c) \/ FailOpen(c)
  PROVE  IInv'
<1>1. /\ TypeOK /\ call[c] \in CallStates /\ clock \in Nat
      /\ TaskOK(c) /\ SpendOK(c) /\ NULL \notin Memories /\ NULL \notin Nat
  BY Types, Rows DEF IInv
<1>2. /\ held \in [Calls -> Time \cup {NULL}] /\ cost \in [Calls -> Nat]
      /\ lost \in SUBSET Calls /\ cut \in SUBSET Memories
  BY <1>1, Types
<1>3. call[c].pc \in Reserving /\ UNCHANGED <<clock, budget, usage, cost, memory, cut>>
  BY DEF Admit, Refuse, FailOpen, Reserving, ledger
<1>4. call[c].pc \in Asking /\ call[c].pc \notin {"idle", "checked", "done", "release"}
  BY <1>3 DEF Reserving, Asking
<1>5. lock' \in Calls \cup {NULL} /\ \A d \in Calls : d # c /\ lock = d => lock' = d
  BY <1>1, Unlocked DEF Admit, Refuse, FailOpen
<1>6. ASSUME NEW step \in {"reserved", "failed"}, Decided(c, step),
             step = "failed" => call[c].kind = "embed",
             held' \in [Calls -> Time \cup {NULL}],
             \A d \in Calls : d # c => held'[d] = held[d],
             held'[c] = held[c] \/ call[c].pc = "verdict",
             lost' \in SUBSET Calls, \A d \in Calls : d # c => (d \in lost' <=> d \in lost),
             step = "reserved" => held'[c] # NULL \/ c \in lost'
      PROVE  IInv'
  <2>1. step \in Step
    BY DEF Step
  <2>2. PICK row \in CallStates :
          /\ Become(c, row) /\ row.pc = step /\ row.now = 0
          /\ row.mem = call[c].mem /\ row.kind = call[c].kind
    BY <2>1, <1>6, DecidedRow
  <2>3. call'[c] = row
    BY <2>2, <1>1, Moved
  <2>4. TaskOK(c)'
    BY <2>2, <2>3, <1>1, <1>3, <1>4, <1>6 DEF TaskOK
  <2>5. SpendOK(c)' /\ DecisionOK(c)'
    BY <2>2, <2>3, <1>1, <1>3, <1>4, <1>6 DEF SpendOK, DecisionOK, Asking, Deciding
  <2>6. \A m \in Memories : Tasked(c, m) => Tasked(c, m)'
    BY <2>2, <2>3 DEF Tasked
  <2>7. \/ held'[c] \in {held[c], NULL}
        \/ \A d \in Calls : d # c => call[d].pc # "verdict"
    <3>1. call[c].pc = "verdict" => lock = c
      BY DEF IInv, DecisionOK, Deciding
    <3>2. \A d \in Calls : call[d].pc = "verdict" => lock = d
      BY DEF IInv, DecisionOK, Deciding
    <3> QED BY <3>1, <3>2, <1>6
  <2> QED BY <2>2, <2>4, <2>5, <2>6, <2>7, <1>2, <1>3, <1>5, <1>6, OwnStep
<1>7. CASE Admit(c)
  <2>1. /\ held' = [held EXCEPT ![c] = call[c].now] /\ call[c].pc = "verdict"
        /\ Decided(c, "reserved") /\ UNCHANGED lost
    BY <1>7 DEF Admit, createdAt
  <2>2. call[c].now \in Time /\ call[c].now # NULL
    BY <1>1 DEF CallStates, Time
  <2>3. /\ held' \in [Calls -> Time \cup {NULL}]
        /\ \A d \in Calls : d # c => held'[d] = held[d]
        /\ held'[c] # NULL
    BY <2>1, <2>2, <1>2
  <2> QED BY <2>1, <2>3, <1>2, <1>6
<1>8. CASE Refuse(c) /\ call[c].kind = "embed"
  <2>1. Decided(c, "failed") /\ UNCHANGED <<held, lost>>
    BY <1>8 DEF Refuse, ledger
  <2> QED BY <2>1, <1>2, <1>6, <1>8
<1>9. CASE Refuse(c) /\ call[c].kind # "embed"
  <2>1. Finish(c) /\ UNCHANGED <<held, lost>>
    BY <1>9 DEF Refuse, ledger
  <2>2. PICK row \in CallStates :
          /\ Become(c, row) /\ row.pc = "done" /\ row.now = 0
          /\ row.mem = NULL /\ row.kind = "search"
    BY <2>1, FinishRow
  <2>3. call'[c] = row
    BY <2>2, <1>1, Moved
  <2>4. TaskOK(c)' /\ SpendOK(c)' /\ DecisionOK(c)'
    BY <2>1, <2>2, <2>3, <1>1, <1>3, <1>4
    DEF TaskOK, SpendOK, DecisionOK, Asking, Deciding
  <2>5. \A m \in Memories : ~Tasked(c, m)
    BY <1>1, <1>9 DEF TaskOK, Tasked
  <2> QED BY <2>1, <2>2, <2>4, <2>5, <1>2, <1>3, <1>5, OwnStep
<1>10. CASE FailOpen(c)
  <2>1. Decided(c, "reserved") /\ lost' = lost \cup {c} /\ UNCHANGED held
    BY <1>10 DEF FailOpen
  <2> QED BY <2>1, <1>2, <1>6
<1> QED BY <1>7, <1>8, <1>9, <1>10

LEMMA ReservesOK == ASSUME IInv, NEW c \in Calls, Reserves(c) PROVE IInv'
BY ReserveBeginOK, ReserveSumOK, ReserveHoldsOK, ReserveEnds DEF Reserves

-----------------------------------------------------------------------------
(* The round-trip: a step that leaves the memories alone.                  *)
LEMMA GoStep ==
  ASSUME IInv, NEW c \in Calls, NEW step \in {"sent", "vector", "failed", "release"},
         Go(c, step), call[c].pc \in {"reserved", "sent"},
         UNCHANGED <<clock, budget, lock, held, usage, memory, cut>>,
         cost' \in [Calls -> Nat], \A d \in Calls : d # c => cost'[d] = cost[d],
         lost' \in SUBSET Calls, \A d \in Calls : d # c => (d \in lost' <=> d \in lost),
         step \in {"vector", "failed"} => call[c].kind = "embed",
         step = "release" => call[c].kind # "embed",
         SpendOK(c)'
  PROVE  IInv'
<1> DEFINE row == [call[c] EXCEPT !.pc = step]
<1>1. /\ TypeOK /\ TaskOK(c) /\ NULL \notin Memories /\ step \in Step
  BY Types DEF IInv, Step
<1>2. /\ row \in CallStates /\ Become(c, row)
      /\ call'[c].pc = step /\ call'[c].mem = call[c].mem
      /\ call'[c].kind = call[c].kind /\ call'[c].now = call[c].now
  BY <1>1, Going
<1> HIDE DEF row
<1>3. TaskOK(c)' /\ DecisionOK(c)'
  BY <1>1, <1>2 DEF TaskOK, DecisionOK, Deciding
<1>4. \A m \in Memories : Tasked(c, m) => Tasked(c, m)'
  BY <1>1, <1>2 DEF TaskOK, Tasked
<1>5. /\ lock' \in Calls \cup {NULL} /\ held' \in [Calls -> Time \cup {NULL}]
      /\ cut' \in SUBSET Memories
  BY <1>1, Types
<1> QED BY <1>2, <1>3, <1>4, <1>5, OwnStep

LEMMA SendsOK ==
  ASSUME IInv, NEW c \in Calls,
         Send(c) \/ Withhold(c) \/ RecordFails(c) \/ GatewayFails(c)
  PROVE  IInv'
<1>1. /\ TypeOK /\ SpendOK(c) /\ TaskOK(c)
      /\ cost \in [Calls -> Nat] /\ lost \in SUBSET Calls
  BY Types DEF IInv
<1>2. CASE Send(c)
  <2>1. PICK bill \in 0..Estimate[c] : cost' = [cost EXCEPT ![c] = bill]
    BY <1>2 DEF Send
  <2>2. /\ Go(c, "sent") /\ call[c].pc = "reserved"
        /\ UNCHANGED <<clock, budget, lock, held, usage, lost, memory, cut>>
    BY <1>2 DEF Send
  <2>3. Estimate[c] \in Nat /\ bill \in Nat /\ bill <= Estimate[c]
    BY BudgetAssumption
  <2>4. /\ cost' \in [Calls -> Nat] /\ cost'[c] = bill
        /\ \A d \in Calls : d # c => cost'[d] = cost[d]
    BY <2>1, <2>3, <1>1
  <2>5. call'[c].pc = "sent"
    BY <2>2, <1>1, Going DEF Step
  <2>6. SpendOK(c)'
    BY <2>2, <2>3, <2>4, <2>5, <1>1 DEF SpendOK, Asking
  <2> QED BY <2>2, <2>4, <2>6, <1>1, GoStep
<1>3. CASE Withhold(c)
  <2>1. /\ Go(c, "release") /\ call[c].pc = "reserved" /\ call[c].kind = "judgment"
        /\ UNCHANGED <<clock, budget, lock, held, usage, cost, lost, memory, cut>>
    BY <1>3 DEF Withhold, ledger
  <2>2. call'[c].pc = "release"
    BY <2>1, <1>1, Going DEF Step
  <2>3. SpendOK(c)'
    BY <2>1, <2>2, <1>1 DEF SpendOK, Asking
  <2> QED BY <2>1, <2>3, <1>1, GoStep
<1>4. ASSUME NEW step \in {"vector", "failed", "release"}, Go(c, step),
             step = "release" <=> call[c].kind # "embed",
             call[c].pc = "sent", lost' = lost \cup {c},
             UNCHANGED <<clock, budget, lock, held, usage, cost, memory, cut>>
      PROVE  IInv'
  <2>1. call'[c].pc = step
    BY <1>1, <1>4, Going DEF Step
  <2>2. SpendOK(c)'
    BY <2>1, <1>1, <1>4 DEF SpendOK, Asking
  <2> QED BY <2>2, <1>1, <1>4, GoStep
<1>5. CASE RecordFails(c)
  BY <1>4, <1>5 DEF RecordFails
<1>6. CASE GatewayFails(c)
  BY <1>4, <1>6 DEF GatewayFails
<1> QED BY <1>2, <1>3, <1>5, <1>6

(* insertLlmUsage: whoever decides meanwhile notes it.                     *)
LEMMA RecordOK ==
  ASSUME IInv, NEW c \in Calls, Record(c)
  PROVE  IInv'
<1>1. /\ TypeOK /\ SpendOK(c) /\ TaskOK(c) /\ DecisionOK(c) /\ clock \in Time
      /\ call \in [Calls -> CallStates] /\ usage \in [Calls -> Logs \cup {NULL}]
      /\ lost \in SUBSET Calls /\ cost \in [Calls -> Nat]
      /\ NULL \notin Memories /\ NULL \notin Logs
  BY Types DEF IInv
<1>2. PICK price \in {cost[c], NULL} :
        usage' = [usage EXCEPT ![c] = [at |-> clock, cost |-> price]]
  BY DEF Record
<1> DEFINE log == [at |-> clock, cost |-> price]
<1>3. log \in Logs /\ log.cost \in {cost[c], NULL} /\ log # NULL
  BY <1>1 DEF Logs
<1>4. usage' = [usage EXCEPT ![c] = log]
  BY <1>2
<1> HIDE DEF log
<1>5. /\ usage' \in [Calls -> Logs \cup {NULL}] /\ usage'[c] = log
      /\ \A d \in Calls : d # c => usage'[d] = usage[d]
  BY <1>1, <1>3, <1>4
<1>6. /\ call[c].pc = "sent" /\ lost' = lost \ {c}
      /\ UNCHANGED <<clock, budget, lock, held, cost, memory, cut>>
  BY DEF Record
<1>7. PICK next \in {"vector", "release"} : next = IF call[c].kind = "embed"
                                                  THEN "vector" ELSE "release"
  OBVIOUS
<1>8. ASSUME NEW d \in Calls
      PROVE  /\ [call[d] EXCEPT !.pc = next] \in CallStates
             /\ [call[d] EXCEPT !.during = @ \cup {c}] \in CallStates
  <2>1. call[d] \in CallStates
    BY <1>1
  <2> QED BY <2>1 DEF CallStates, Step
<1>9. call' = [d \in Calls |->
         IF d = c THEN [call[c] EXCEPT !.pc = next]
         ELSE IF call[d].pc \in Reserving
              THEN [call[d] EXCEPT !.during = @ \cup {c}]
         ELSE call[d]]
  BY <1>7 DEF Record
<1>10. /\ call' \in [Calls -> CallStates]
       /\ call'[c] = [call[c] EXCEPT !.pc = next]
       /\ \A d \in Calls : d # c => call'[d] = IF call[d].pc \in Reserving
                                              THEN [call[d] EXCEPT !.during = @ \cup {c}]
                                              ELSE call[d]
  BY <1>1, <1>8, <1>9
<1>11. /\ call'[c].pc = next /\ call'[c].mem = call[c].mem
       /\ call'[c].kind = call[c].kind /\ call'[c].now = call[c].now
  <2>1. call[c] \in CallStates
    BY <1>1
  <2> QED BY <2>1, <1>10 DEF CallStates
<1>12. ASSUME NEW d \in Calls, d # c
       PROVE  /\ Same(d)
              /\ call[d].pc \in Deciding => c \in call'[d].during
  <2>1. call[d] \in CallStates
    BY <1>1
  <2>2. CASE call[d].pc \in Reserving
    <3>1. call'[d] = [call[d] EXCEPT !.during = @ \cup {c}]
      BY <2>2, <1>10, <1>12
    <3>2. /\ call'[d].pc = call[d].pc /\ call'[d].mem = call[d].mem
          /\ call'[d].kind = call[d].kind /\ call'[d].now = call[d].now
          /\ call'[d].window = call[d].window /\ call'[d].seen = call[d].seen
          /\ call'[d].booked = call[d].booked
          /\ call'[d].during = call[d].during \cup {c}
      BY <2>1, <3>1 DEF CallStates
    <3> QED BY <3>2, <1>5, <1>6, <1>12 DEF Same
  <2>3. CASE call[d].pc \notin Reserving
    BY <2>3, <1>5, <1>6, <1>10, <1>12 DEF Same, Reserving, Deciding
  <2> QED BY <2>2, <2>3
<1>13. TypeOK'
  BY <1>1, <1>5, <1>6, <1>10 DEF TypeOK, Logs
<1>14. TaskOK(c)' /\ DecisionOK(c)'
  BY <1>1, <1>6, <1>7, <1>11 DEF TaskOK, DecisionOK, Deciding
<1>15. SpendOK(c)'
  BY <1>1, <1>3, <1>5, <1>6, <1>11 DEF SpendOK, Asking
<1>16. \A m \in Memories : Silent(m)' => Silent(m) /\ (Tasked(c, m) => Tasked(c, m)')
  BY <1>1, <1>6, <1>7, <1>11 DEF Silent, Tasked, TaskOK
<1>17. \A m \in Memories : /\ memory[m].born => memory'[m].born
                           /\ memory'[m].live \/ memory'[m].failed => memory'[m].born
  BY <1>6 DEF IInv
<1>18. held'[c] \in {held[c], NULL} /\ UNCHANGED clock
  BY <1>6
<1> QED BY <1>12, <1>13, <1>14, <1>15, <1>16, <1>17, <1>18, StepPreserves

-----------------------------------------------------------------------------
(* The vector, or the event in its place; the end of the call.             *)
LEMMA EmbedsOK ==
  ASSUME IInv, NEW c \in Calls,
         \/ Embed(c) \/ EmbedFails(c)
         \/ RecordEmbedFailure(c) \/ RecordEmbedFailureFails(c)
  PROVE  IInv'
<1>1. PICK m : m = call[c].mem
  OBVIOUS
<1>2. /\ TypeOK /\ SpendOK(c) /\ TaskOK(c) /\ NULL \notin Memories
      /\ memory \in [Memories -> MemoryStates] /\ cut \in SUBSET Memories
  BY Types DEF IInv
<1>3. /\ call[c].pc \in {"vector", "failed"}
      /\ UNCHANGED <<clock, budget, lock, ledger>>
  BY DEF Embed, EmbedFails, RecordEmbedFailure, RecordEmbedFailureFails
<1>4. m \in Memories /\ call[c].kind = "embed" /\ memory[m].born
  BY <1>1, <1>2, <1>3 DEF TaskOK
<1>5. memory[m] \in MemoryStates
  BY <1>2, <1>4
<1>6. ASSUME NEW step \in {"failed", "release"}, Go(c, step),
             memory' \in [Memories -> MemoryStates],
             \A n \in Memories : /\ memory'[n].born = memory[n].born
                                 /\ memory'[n].live = memory[n].live
                                 /\ n # m => memory'[n].failed = memory[n].failed,
             cut' \in SUBSET Memories,
             \A n \in Memories : Silent(n)' => Silent(n) /\ (step = "release" => n # m)
      PROVE  IInv'
  <2> DEFINE row == [call[c] EXCEPT !.pc = step]
  <2>1. /\ row \in CallStates /\ Become(c, row) /\ row.pc \notin Deciding
        /\ call'[c].pc = step /\ call'[c].mem = call[c].mem
        /\ call'[c].kind = call[c].kind /\ call'[c].now = call[c].now
    <3>1. step \in Step
      BY DEF Step
    <3>2. /\ row \in CallStates /\ Become(c, row)
          /\ call'[c].pc = step /\ call'[c].mem = call[c].mem
          /\ call'[c].kind = call[c].kind /\ call'[c].now = call[c].now
      BY <3>1, <1>2, <1>6, Going
    <3>3. row.pc = step
      BY <3>2, <1>2, Rows DEF CallStates
    <3> QED BY <3>2, <3>3 DEF Deciding
  <2> HIDE DEF row
  <2>2. TaskOK(c)' /\ SpendOK(c)'
    BY <2>1, <1>2, <1>3, <1>4, <1>6 DEF TaskOK, SpendOK, Asking, ledger
  <2>3. \A n \in Memories : Silent(n)' => Silent(n) /\ (Tasked(c, n) => Tasked(c, n)')
    BY <2>1, <1>1, <1>6 DEF Tasked
  <2>4. \A n \in Memories : /\ memory[n].born => memory'[n].born
                            /\ memory'[n].live \/ memory'[n].failed => memory'[n].born
    BY <1>4, <1>6 DEF IInv
  <2> QED BY <2>1, <2>2, <2>3, <2>4, <1>3, <1>6, QuietStep
<1>7. CASE Embed(c) /\ memory[m].live
  <2>1. /\ Go(c, "release") /\ UNCHANGED cut
        /\ memory' = [memory EXCEPT ![m].vector = TRUE]
    BY <1>1, <1>7 DEF Embed
  <2>2. /\ memory' = [memory EXCEPT ![m] = memory'[m]]
        /\ memory'[m] = [memory[m] EXCEPT !.vector = TRUE]
        /\ \A n \in Memories : n # m => memory'[n] = memory[n]
    BY <2>1, <1>2, <1>4
  <2>3. /\ memory'[m] \in MemoryStates /\ memory'[m].vector
        /\ memory'[m].born = memory[m].born /\ memory'[m].live = memory[m].live
    BY <2>2, <1>5 DEF MemoryStates
  <2>4. memory' \in [Memories -> MemoryStates]
    BY <2>2, <2>3, <1>2, <1>4
  <2>5. \A n \in Memories : Silent(n)' => Silent(n) /\ n # m
    BY <2>1, <2>2, <2>3 DEF Silent
  <2> QED BY <2>1, <2>2, <2>3, <2>4, <2>5, <1>2, <1>6
<1>8. CASE Embed(c) /\ ~memory[m].live
  <2>1. Go(c, "release") /\ UNCHANGED <<memory, cut>>
    BY <1>1, <1>8 DEF Embed
  <2>2. \A n \in Memories : Silent(n)' => Silent(n) /\ n # m
    BY <2>1, <1>8 DEF Silent
  <2> QED BY <2>1, <2>2, <1>2, <1>6
<1>9. CASE EmbedFails(c)
  <2>1. Go(c, "failed") /\ UNCHANGED <<memory, cut>>
    BY <1>9 DEF EmbedFails
  <2>2. \A n \in Memories : Silent(n)' => Silent(n)
    BY <2>1 DEF Silent
  <2> QED BY <2>1, <2>2, <1>2, <1>6
<1>10. CASE RecordEmbedFailure(c)
  <2>1. /\ Go(c, "release") /\ UNCHANGED cut
        /\ memory' = [memory EXCEPT ![m].failed = TRUE]
    BY <1>1, <1>10 DEF RecordEmbedFailure, recordsFailure
  <2>2. /\ memory' = [memory EXCEPT ![m] = memory'[m]]
        /\ memory'[m] = [memory[m] EXCEPT !.failed = TRUE]
        /\ \A n \in Memories : n # m => memory'[n] = memory[n]
    BY <2>1, <1>2, <1>4
  <2>3. /\ memory'[m] \in MemoryStates /\ memory'[m].failed
        /\ memory'[m].born = memory[m].born /\ memory'[m].live = memory[m].live
    BY <2>2, <1>5 DEF MemoryStates
  <2>4. memory' \in [Memories -> MemoryStates]
    BY <2>2, <2>3, <1>2, <1>4
  <2>5. \A n \in Memories : Silent(n)' => Silent(n) /\ n # m
    BY <2>1, <2>2, <2>3 DEF Silent
  <2> QED BY <2>1, <2>2, <2>3, <2>4, <2>5, <1>2, <1>6
<1>11. CASE RecordEmbedFailureFails(c)
  <2>1. Go(c, "release") /\ UNCHANGED memory /\ cut' = cut \cup {m}
    BY <1>1, <1>11 DEF RecordEmbedFailureFails
  <2>2. \A n \in Memories : Silent(n)' => Silent(n) /\ n # m
    BY <2>1 DEF Silent
  <2>3. cut' \in SUBSET Memories
    BY <2>1, <1>2, <1>4
  <2> QED BY <2>1, <2>2, <2>3, <1>2, <1>6
<1> QED BY <1>7, <1>8, <1>9, <1>10, <1>11

LEMMA EndsOK ==
  ASSUME IInv, NEW c \in Calls, Release(c) \/ Crash(c)
  PROVE  IInv'
<1>1. /\ TypeOK /\ SpendOK(c) /\ TaskOK(c) /\ NULL \notin Memories
      /\ held \in [Calls -> Time \cup {NULL}] /\ cost \in [Calls -> Nat]
      /\ lost \in SUBSET Calls /\ cut \in SUBSET Memories /\ clock \in Nat
      /\ lock \in Calls \cup {NULL} /\ call[c] \in CallStates
  BY Types, Rows DEF IInv
<1>2. PICK row \in CallStates :
        /\ Become(c, row) /\ row.pc = "done" /\ row.now = 0
        /\ row.mem = NULL /\ row.kind = "search"
  BY FinishRow DEF Release, Crash
<1>3. call'[c] = row
  BY <1>1, <1>2, Moved
<1>4. TaskOK(c)' /\ DecisionOK(c)'
  BY <1>1, <1>2, <1>3 DEF TaskOK, DecisionOK, Deciding, Release, Crash
<1>5. UNCHANGED <<clock, budget, usage, cost, memory>>
  BY DEF Release, Crash
<1>6. CASE Release(c)
  <2>1. held' = [held EXCEPT ![c] = NULL] \/ UNCHANGED held
    BY <1>6 DEF Release
  <2>2. call[c].pc = "release" /\ UNCHANGED <<lock, lost, cut>>
    BY <1>6 DEF Release
  <2>3. /\ held' \in [Calls -> Time \cup {NULL}] /\ held'[c] \in {held[c], NULL}
        /\ \A d \in Calls : d # c => held'[d] = held[d]
    BY <2>1, <1>1
  <2>4. SpendOK(c)'
    BY <2>2, <1>1, <1>2, <1>3, <1>5 DEF SpendOK, Asking
  <2>5. \A m \in Memories : ~Tasked(c, m)
    BY <2>2 DEF Tasked
  <2> QED BY <2>2, <2>3, <2>4, <2>5, <1>1, <1>2, <1>4, <1>5, OwnStep
<1>7. CASE Crash(c)
  <2>1. /\ lost' = IF call[c].pc = "sent" THEN lost \cup {c} ELSE lost
        /\ cut' = IF call[c].mem = NULL \/ call[c].pc = "release" THEN cut
                  ELSE cut \cup {call[c].mem}
        /\ Unlock(c) /\ UNCHANGED held
    BY <1>7 DEF Crash
  <2>2. lock' \in Calls \cup {NULL} /\ \A d \in Calls : d # c /\ lock = d => lock' = d
    BY <2>1, <1>1, Unlocked
  <2>3. SpendOK(c)'
    BY <2>1, <1>1, <1>2, <1>3, <1>5 DEF SpendOK, Asking
  <2>4. call[c].mem \in Memories \cup {NULL}
    BY <1>1 DEF CallStates
  <2>5. /\ cut' \in SUBSET Memories /\ cut \subseteq cut'
        /\ \A m \in Memories \ cut' : ~Tasked(c, m)
    BY <2>1, <2>4, <1>1 DEF Tasked
  <2>6. lost' \in SUBSET Calls /\ \A d \in Calls : d # c => (d \in lost' <=> d \in lost)
    BY <2>1, <1>1
  <2> QED BY <2>1, <2>2, <2>3, <2>5, <2>6, <1>1, <1>2, <1>4, <1>5, OwnStep
<1> QED BY <1>6, <1>7

LEMMA SettlesOK == ASSUME IInv, NEW c \in Calls, Settles(c) PROVE IInv'
BY SendsOK, RecordOK, EmbedsOK, EndsOK DEF Settles

LEMMA OutsideOK ==
  ASSUME IInv,
         \/ \E m \in Memories : Supersede(m)
         \/ SetUserBudget \/ SetBudgetWindow \/ SetTierCap \/ Tick
  PROVE  IInv'
<1>1. /\ TypeOK /\ memory \in [Memories -> MemoryStates] /\ budget \in Budgets
      /\ clock \in Time /\ clock \in Nat
  BY Types DEF IInv
<1>2. ASSUME NEW m \in Memories, Supersede(m) PROVE IInv'
  <2>1. /\ memory' = [memory EXCEPT ![m].live = FALSE]
        /\ UNCHANGED <<clock, budget, lock, call, ledger, cut>>
    BY <1>2 DEF Supersede
  <2>2. /\ memory' = [memory EXCEPT ![m] = memory'[m]]
        /\ memory'[m] = [memory[m] EXCEPT !.live = FALSE]
        /\ \A n \in Memories : n # m => memory'[n] = memory[n]
        /\ memory[m] \in MemoryStates
    BY <2>1, <1>1
  <2>3. /\ memory'[m] \in MemoryStates /\ ~memory'[m].live
        /\ memory'[m].born = memory[m].born /\ memory'[m].failed = memory[m].failed
    BY <2>2 DEF MemoryStates
  <2>4. memory' \in [Memories -> MemoryStates]
    BY <2>2, <2>3, <1>1
  <2>5. TypeOK'
    BY <2>1, <2>4, <1>1 DEF TypeOK, ledger
  <2>6. \A n \in Memories : /\ memory'[n].born = memory[n].born
                            /\ memory'[n].live => memory[n].live
                            /\ memory'[n].failed = memory[n].failed
                            /\ Silent(n)' => Silent(n)
    BY <2>1, <2>2, <2>3 DEF Silent
  <2>7. clock <= clock'
    BY <2>1, <1>1
  <2> QED BY <2>1, <2>5, <2>6, <2>7, OutsidePreserves
<1>3. ASSUME UNCHANGED <<lock, call, ledger, memory, cut>>, clock <= clock',
             clock' \in Time, budget' \in Budgets
      PROVE  IInv'
  <2>1. TypeOK'
    BY <1>1, <1>3 DEF TypeOK, ledger, Budgets
  <2>2. \A n \in Memories : /\ memory'[n].born = memory[n].born
                            /\ memory'[n].live => memory[n].live
                            /\ memory'[n].failed = memory[n].failed
                            /\ Silent(n)' => Silent(n)
    BY <1>3 DEF Silent
  <2> QED BY <2>1, <2>2, <1>3, OutsidePreserves
<1>4. CASE Tick
  BY <1>1, <1>3, <1>4, BudgetAssumption DEF Tick, Time
<1>5. CASE SetUserBudget
  <2>1. PICK cap \in Caps \cup {NULL}, window \in Windows \cup {NULL, budget.window} :
          budget' = [budget EXCEPT !.override = cap, !.window = window]
    BY <1>5 DEF SetUserBudget
  <2>2. window \in Windows \cup {NULL}
    <3>1. budget.window \in Windows \cup {NULL}
      BY <1>1 DEF Budgets
    <3> QED BY <3>1
  <2>3. budget' \in Budgets
    <3>1. [budget EXCEPT !.override = cap, !.window = window] \in Budgets
      BY <2>2, <1>1 DEF Budgets
    <3> QED BY <2>1, <3>1
  <2>4. UNCHANGED <<clock, lock, call, ledger, memory, cut>>
    BY <1>5 DEF SetUserBudget
  <2> QED BY <2>3, <2>4, <1>1, <1>3
<1>6. CASE SetBudgetWindow
  <2>1. PICK window \in Windows : budget' = [budget EXCEPT !.window = window]
    BY <1>6 DEF SetBudgetWindow
  <2>2. budget' \in Budgets
    BY <2>1, <1>1 DEF Budgets
  <2> QED BY <2>2, <1>1, <1>3, <1>6 DEF SetBudgetWindow
<1>7. CASE SetTierCap
  <2>1. PICK cap \in Caps \cup {NULL} : budget' = [budget EXCEPT !.tier = cap]
    BY <1>7 DEF SetTierCap
  <2>2. budget' \in Budgets
    BY <2>1, <1>1 DEF Budgets
  <2> QED BY <2>2, <1>1, <1>3, <1>7 DEF SetTierCap
<1> QED BY <1>2, <1>4, <1>5, <1>6, <1>7

LEMMA InitOK == Init => IInv
<1> SUFFICES ASSUME Init PROVE IInv
  OBVIOUS
<1>1. /\ Fresh \in CallStates /\ Fresh.pc = "idle" /\ Fresh.mem = NULL
      /\ Fresh.kind = "search" /\ Fresh.now = 0
  BY BudgetAssumption DEF Fresh, CallStates, Step, Time
<1>2. /\ clock = 0 /\ lock = NULL /\ lost = {} /\ cut = {}
      /\ budget = [override |-> NULL, tier |-> NULL, window |-> NULL]
  BY DEF Init
<1>3. \A c \in Calls : /\ call[c] = Fresh /\ held[c] = NULL /\ usage[c] = NULL
                       /\ cost[c] = 0 /\ Estimate[c] \in Nat
  BY BudgetAssumption DEF Init
<1>4. /\ memory \in [Memories -> MemoryStates]
      /\ \A m \in Memories : ~memory[m].live /\ ~memory[m].failed
  BY DEF Init, MemoryStates
<1>5. TypeOK
  <2>1. call \in [Calls -> CallStates]
    BY <1>1 DEF Init
  <2>2. budget \in Budgets
    BY <1>2 DEF Budgets
  <2>3. /\ held \in [Calls -> Time \cup {NULL}] /\ usage \in [Calls -> Logs \cup {NULL}]
        /\ cost \in [Calls -> Nat] /\ clock \in Time
    BY <1>2, BudgetAssumption DEF Init, Time
  <2> QED BY <1>2, <1>4, <2>1, <2>2, <2>3 DEF TypeOK, Budgets, Logs
<1>6. ASSUME NEW c \in Calls PROVE TaskOK(c) /\ SpendOK(c) /\ DecisionOK(c)
  <2>1. call[c].pc = "idle" /\ call[c].mem = NULL /\ call[c].kind = "search"
        /\ call[c].now = 0 /\ NULL \notin Memories
    BY <1>1, <1>3, BudgetAssumption
  <2>2. held[c] = NULL /\ usage[c] = NULL /\ cost[c] = 0 /\ Estimate[c] \in Nat
    BY <1>3
  <2>3. TaskOK(c) /\ DecisionOK(c)
    BY <1>2, <2>1 DEF TaskOK, DecisionOK, Deciding
  <2>4. SpendOK(c)
    BY <2>1, <2>2 DEF SpendOK, Asking
  <2> QED BY <2>3, <2>4
<1> QED BY <1>4, <1>5, <1>6 DEF IInv, NoSilentVectorLoss

LEMMA NextOK == IInv /\ [Next]_vars => IInv'
<1> SUFFICES ASSUME IInv, [Next]_vars PROVE IInv'
  OBVIOUS
<1>1. CASE UNCHANGED vars
  BY <1>1 DEF vars, ledger, IInv, TypeOK, TaskOK, SpendOK, DecisionOK, NoSilentVectorLoss,
              inWindow, activeReservations
<1> QED BY <1>1, StartsOK, ReservesOK, SettlesOK, OutsideOK DEF Next

LEMMA Inductive == Spec => []IInv
BY InitOK, NextOK, PTL DEF Spec

-----------------------------------------------------------------------------
(* Sums: a set of calls, each charged no more than in one of two others.   *)
LEMMA CentsFinite ==
  ASSUME NEW price
  PROVE  IsFiniteSet(Cents(price)) /\ Total(price) \in Nat
<1>1. IsFiniteSet(1..Fallback)
  BY FS_Interval, BudgetAssumption
<1>2. IsFiniteSet(Calls \X (1..Fallback))
  BY <1>1, FS_Product, BudgetAssumption
<1>3. Cents(price) \subseteq Calls \X (1..Fallback)
  BY DEF Cents
<1> QED BY <1>2, <1>3, FS_Subset, FS_CardinalityType DEF Total

LEMMA Covers ==
  ASSUME NEW price, NEW p, NEW q, \A x \in Cents(price) : x \in Cents(p) \cup Cents(q)
  PROVE  Total(price) <= Total(p) + Total(q)
<1>1. /\ IsFiniteSet(Cents(p)) /\ IsFiniteSet(Cents(q))
      /\ Total(price) \in Nat /\ Total(p) \in Nat /\ Total(q) \in Nat
  BY CentsFinite
<1>2. /\ IsFiniteSet(Cents(p) \cup Cents(q))
      /\ Cardinality(Cents(p) \cup Cents(q)) \in Nat
      /\ Cardinality(Cents(p) \cap Cents(q)) \in Nat
      /\ Cardinality(Cents(p) \cup Cents(q))
           = Cardinality(Cents(p)) + Cardinality(Cents(q)) - Cardinality(Cents(p) \cap Cents(q))
  BY <1>1, FS_Union, FS_Intersection, FS_CardinalityType
<1>3. Cents(price) \subseteq Cents(p) \cup Cents(q)
  OBVIOUS
<1>4. Cardinality(Cents(price)) <= Cardinality(Cents(p) \cup Cents(q))
  BY <1>2, <1>3, FS_Subset
<1> QED BY <1>1, <1>2, <1>4 DEF Total

(* What a call that decides has left out of its sum is not there to pay.   *)
Counted(c) == Relevant(c) \ (lost \cup Outlived \cup call[c].during)

LEMMA EachCounted ==
  ASSUME IInv, NEW c \in Calls, call[c].pc = "verdict",
         NEW d \in Counted(c), exposure(d) > 0
  PROVE  \/ d \in call[c].seen /\ chargeOf(d) \in Nat /\ exposure(d) <= chargeOf(d)
         \/ d \in call[c].booked /\ exposure(d) <= Estimate[d]
<1>1. /\ d \in Calls /\ d \notin lost /\ d \notin call[c].during
      /\ usage[d] # NULL => inWindow(d, call[c].window, clock)
      /\ usage[d] = NULL /\ held[d] # NULL => ~(held[d] <= clock - TTL)
  BY DEF Counted, Relevant, Outlived
<1>2. SpendOK(d) /\ TaskOK(c) /\ DecisionOK(c) /\ call[c] \in CallStates
  BY <1>1, Rows DEF IInv
<1>3. /\ clock \in Nat /\ call[c].now \in Nat /\ call[c].now <= clock
      /\ cost[d] \in Nat /\ Estimate[d] \in Nat /\ Estimate[d] <= Fallback
      /\ Fallback \in Nat
      /\ held[d] \in Time \cup {NULL} /\ usage[d] \in Logs \cup {NULL}
      /\ TTL \in Nat /\ WindowDays \in Nat /\ NULL \notin Nat /\ NULL \notin Logs
  BY <1>1, <1>2, Types, BudgetAssumption DEF IInv, TaskOK, CallStates, Time
<1>4. CASE usage[d] # NULL
  <2>1. usage[d].at \in Nat /\ exposure(d) = cost[d]
    BY <1>2, <1>3, <1>4 DEF Logs, Time, SpendOK, exposure
  <2>2. inWindow(d, call[c].window, call[c].now)
    BY <1>1, <1>3, <1>4, <2>1 DEF inWindow
  <2>3. d \in call[c].seen
    BY <1>1, <1>2, <1>4, <2>2 DEF DecisionOK, Deciding
  <2>4. usage[d].cost \in {cost[d], NULL} /\ cost[d] <= Estimate[d]
    BY <1>2, <1>4 DEF SpendOK
  <2>5. chargeOf(d) \in Nat /\ exposure(d) <= chargeOf(d)
    <3>1. CASE usage[d].cost = NULL
      BY <1>3, <2>1, <2>4, <3>1 DEF chargeOf
    <3>2. CASE usage[d].cost # NULL
      BY <1>3, <2>1, <2>4, <3>2 DEF chargeOf
    <3> QED BY <3>1, <3>2
  <2> QED BY <2>3, <2>5
<1>5. CASE usage[d] = NULL
  <2>1. call[d].pc \in {"reserved", "sent"}
    BY <1>1, <1>2, <1>3, <1>5 DEF SpendOK, exposure
  <2>2. held[d] # NULL /\ held[d] \in Nat
    BY <1>1, <1>2, <1>3, <2>1 DEF SpendOK, Time
  <2>3. held[d] > call[c].now - TTL
    BY <1>1, <1>3, <1>5, <2>2
  <2>4. d \in call[c].booked
    BY <1>1, <1>2, <2>2, <2>3 DEF DecisionOK, Deciding, activeReservations
  <2>5. exposure(d) <= Estimate[d]
    BY <1>2, <1>3 DEF exposure, SpendOK
  <2> QED BY <2>4, <2>5
<1> QED BY <1>4, <1>5

LEMMA AdmissionFits ==
  ASSUME IInv, NEW c \in Calls, call[c].pc = "verdict", Admits(c)
  PROVE  Total(exposures(Counted(c))) + Estimate[c] <= call[c].limit
<1>1. ASSUME NEW x \in Cents(exposures(Counted(c)))
      PROVE  x \in Cents(charges(call[c].seen)) \cup Cents(estimates(call[c].booked))
  <2>1. /\ x \in Calls \X (1..Fallback) /\ x[1] \in Calls /\ x[2] \in 1..Fallback
        /\ x[2] <= exposures(Counted(c))[x[1]]
    BY DEF Cents
  <2>2. PICK d \in Calls : d = x[1]
    BY <2>1
  <2>3. PICK i \in 1..Fallback : i = x[2]
    BY <2>1
  <2>4. d \in Counted(c) /\ i <= exposure(d) /\ i \in Nat /\ i > 0
    BY <2>1, <2>2, <2>3, BudgetAssumption DEF exposures
  <2>5. /\ cost[d] \in Nat /\ Estimate[d] \in Nat /\ Fallback \in Nat
        /\ usage[d] # NULL => usage[d] \in Logs
    BY Types, BudgetAssumption DEF IInv
  <2>6. exposure(d) \in Nat
    BY <2>5 DEF exposure
  <2>7. CASE d \in call[c].seen /\ chargeOf(d) \in Nat /\ exposure(d) <= chargeOf(d)
    <3>1. i <= charges(call[c].seen)[d]
      BY <2>4, <2>6, <2>7 DEF charges
    <3> QED BY <2>1, <2>2, <2>3, <3>1 DEF Cents
  <2>8. CASE d \in call[c].booked /\ exposure(d) <= Estimate[d]
    <3>1. i <= estimates(call[c].booked)[d]
      BY <2>4, <2>5, <2>6, <2>8 DEF estimates
    <3> QED BY <2>1, <2>2, <2>3, <3>1 DEF Cents
  <2> QED BY <2>4, <2>6, <2>7, <2>8, EachCounted
<1>2. Total(exposures(Counted(c)))
        <= Total(charges(call[c].seen)) + Total(estimates(call[c].booked))
  BY <1>1, Covers
<1>3. /\ Total(exposures(Counted(c))) \in Nat /\ Total(charges(call[c].seen)) \in Nat
      /\ Total(estimates(call[c].booked)) \in Nat
  BY CentsFinite
<1>4. Estimate[c] \in Nat /\ call[c].limit \in Nat
  BY Rows, BudgetAssumption DEF IInv, CallStates
<1>5. ~(Total(charges(call[c].seen)) + Total(estimates(call[c].booked)) + Estimate[c]
          > call[c].limit)
  BY DEF Admits, overCap
<1> QED BY <1>2, <1>3, <1>4, <1>5

-----------------------------------------------------------------------------
(* The columns of the budget's tables keep their types, and so does what a *)
(* call carries from one of its statements to the next.                    *)
THEOREM TypeCorrect == Spec => []TypeOK
<1>1. IInv => TypeOK
  BY DEF IInv
<1> QED BY <1>1, Inductive, PTL

(* embed.ts: a live memory has its vector, its task under way or the event *)
(* that repair looks for, whichever step of the task fails, unless the     *)
(* process died or the event could not be written.                         *)
THEOREM NoVectorIsLostSilently == Spec => []NoSilentVectorLoss
<1>1. IInv => NoSilentVectorLoss
  BY DEF IInv
<1> QED BY <1>1, Inductive, PTL

WithinCap ==
  \A c \in Calls :
    Admitted(c) =>
      Total(exposures(Relevant(c) \ (lost \cup Outlived \cup call[c].during)))
        + Estimate[c] <= call[c].limit

(* Nothing but Admit turns a verdict into a reservation.                   *)
LEMMA OnlyAdmit ==
  ASSUME IInv, Next, NEW c \in Calls, Admitted(c)
  PROVE  Admits(c)
<1>1. /\ call[c].pc = "verdict" /\ call'[c].pc = "reserved" /\ held'[c] # NULL
      /\ held[c] = NULL /\ TypeOK
  BY DEF Admitted, IInv, SpendOK, Asking
<1>2. call \in [Calls -> CallStates] /\ call[c] \in CallStates
  BY <1>1, Types
<1>3. held'[c] # held[c] /\ call'[c] # call[c]
  BY <1>1
<1>4. ASSUME NEW d \in Calls, Starts(d) \/ Settles(d) PROVE FALSE
  <2>1. UNCHANGED held \/ (held' = [held EXCEPT ![d] = NULL] /\ d # c)
    BY <1>1, <1>4 DEF Starts, Settles, PreCheck, Remember, Revise, ImportSkips, Repair,
         Search, JudgeRun, JudgeBatch, Asks, Send, Withhold, Record, RecordFails,
         GatewayFails, Embed, EmbedFails, RecordEmbedFailure, RecordEmbedFailureFails,
         Release, Crash, ledger
  <2> QED BY <2>1, <1>1, <1>3, Types
<1>5. ASSUME NEW d \in Calls, Reserves(d) PROVE Admits(c)
  <2>1. Admit(d)
    BY <1>3, <1>5 DEF Reserves, ReserveBegin, ReserveSum, ReserveHolds, Refuse, FailOpen,
                      ledger
  <2>2. d = c
    BY <1>3, <2>1, <1>1, Types DEF Admit
  <2> QED BY <2>1, <2>2 DEF Admit
<1>6. \/ \E m \in Memories : Supersede(m)
      \/ SetUserBudget \/ SetBudgetWindow \/ SetTierCap \/ Tick
      => UNCHANGED held
  BY DEF Supersede, SetUserBudget, SetBudgetWindow, SetTierCap, Tick, ledger
<1> QED BY <1>3, <1>4, <1>5, <1>6 DEF Next

(* reserveBudgetSlot: for any number of calls, any estimates and any cap,  *)
(* what was billed or promised before an admission, but for the named      *)
(* exceptions, fits with it under the cap that it has read.                *)
THEOREM AdmitsWithinCap == Spec => AdmissionRespectsCap
<1>1. IInv /\ [Next]_vars => [WithinCap]_vars
  <2> SUFFICES ASSUME IInv, Next, NEW c \in Calls, Admitted(c)
               PROVE  Total(exposures(Relevant(c) \ (lost \cup Outlived \cup call[c].during)))
                        + Estimate[c] <= call[c].limit
    BY DEF WithinCap
  <2>1. call[c].pc = "verdict" /\ Admits(c)
    BY OnlyAdmit DEF Admitted
  <2> QED BY <2>1, AdmissionFits DEF Counted
<1> QED BY <1>1, Inductive, PTL DEF Spec, AdmissionRespectsCap, WithinCap
=============================================================================
