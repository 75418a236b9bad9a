----------------------------- MODULE ReviewQueue -----------------------------
(***************************************************************************)
(* The queue of resolution proposals over one commitment.  Passes of the   *)
(* session closer stage proposals, reviewers accept and reject them, and   *)
(* everybody else goes on moving the commitment and carrying it from one   *)
(* memory to the next.  An accept is no transaction: it claims the         *)
(* proposal, then resolves the commitment, and undoes its claim when that  *)
(* fails.                                                                  *)
(*                                                                         *)
(* A pass stages one proposal at most, which bears its name.               *)
(***************************************************************************)
EXTENDS Integers, CommitmentFsm

CONSTANTS
  Passes,       \* passes of the closer, retries among them
  Runs,         \* the agent sessions that they close
  Reviewers,    \* calls of review_proposals
  MaxMemory,    \* memories 1..MaxMemory, each the successor of the one before
  MAX_TRANSITION_ATTEMPTS,
  NULL

Memories == 1..MaxMemory

ASSUME ReviewQueueAssumption ==
  /\ MaxMemory \in Nat \ {0}
  /\ MAX_TRANSITION_ATTEMPTS \in Nat \ {0}
  /\ NULL \notin Passes \cup Runs
  /\ NULL \notin Memories
  /\ NULL \notin CommitmentStatus

VARIABLES
  com,        \* the commitment: its memory and its status
  prop,       \* resolution_proposals
  pass,       \* each pass: where it stands, its run, the memory it judged
  review,     \* each review: where it stands, its proposal, the status it saw
  settled,    \* history: proposals whose accept has answered `resolved`
  cut,        \* history: proposals whose accept has died after its claim
  displaced   \* history: proposals that could not be opened again

vars == <<com, prop, pass, review, settled, cut, displaced>>
history == <<settled, cut, displaced>>

Unstaged == [status |-> "none", run |-> NULL, memory |-> NULL]
IdlePass == [pc |-> "idle", run |-> NULL, memory |-> NULL]
IdleReview == [pc |-> "idle", prop |-> NULL, seen |-> NULL, attempt |-> 0]

Open(p) == prop[p].status = "proposed"
Staged(p) == prop[p].status # "none"

(* Beside the types, what the two unique indexes say: one open proposal    *)
(* per memory, though a failed accept opens an old one again, and one per  *)
(* run and memory ever, though a pass may be retried.                      *)
TypeOK ==
  /\ com \in [memory : Memories, status : CommitmentStatus]
  /\ prop \in [Passes -> [ status : {"none", "proposed", "applied", "rejected"},
                           run : Runs \cup {NULL},
                           memory : Memories \cup {NULL} ]]
  /\ pass \in [Passes -> [ pc : {"idle", "judged", "looked", "done"},
                           run : Runs \cup {NULL},
                           memory : Memories \cup {NULL} ]]
  /\ review \in [Reviewers ->
       [ pc : {"idle", "read", "decide", "write", "failed", "done"},
         prop : Passes \cup {NULL}, seen : CommitmentStatus \cup {NULL},
         attempt : 0..MAX_TRANSITION_ATTEMPTS ]]
  /\ settled \in SUBSET Passes
  /\ cut \in SUBSET Passes
  /\ displaced \in SUBSET Passes
  /\ \A p, q \in Passes :
       Staged(p) /\ Staged(q) /\ p # q /\ prop[p].memory = prop[q].memory =>
         prop[p].run # prop[q].run /\ ~(Open(p) /\ Open(q))

Init ==
  /\ com = [memory |-> 1, status |-> "open"]
  /\ prop = [p \in Passes |-> Unstaged]
  /\ pass = [s \in Passes |-> IdlePass]
  /\ review = [r \in Reviewers |-> IdleReview]
  /\ settled = {}
  /\ cut = {}
  /\ displaced = {}

-----------------------------------------------------------------------------
(* The closer's mid band: insertResolutionProposals.                       *)

PassGoes(s, step) == pass' = [pass EXCEPT ![s].pc = step]

Judge(s, run) ==
  /\ pass[s].pc = "idle"
  /\ pass' = [pass EXCEPT ![s] =
                [pc |-> "judged", run |-> run, memory |-> com.memory]]
  /\ UNCHANGED <<com, prop, review, history>>

Look(s) ==
  /\ pass[s].pc = "judged"
  /\ PassGoes(s, IF /\ com.memory = pass[s].memory
                    /\ com.status \in LIVE_COMMITMENT_STATES
                 THEN "looked" ELSE "done")
  /\ UNCHANGED <<com, prop, review, history>>

(* resolution_proposals_open_idx, resolution_proposals_run_memory_uq.      *)
About(m) == {p \in Passes : prop[p].memory = m}
anyRun(s) == ~\E p \in About(pass[s].memory) : Open(p)
unasked(s) ==
  ~\E p \in About(pass[s].memory) : Open(p) \/ prop[p].run = pass[s].run
stages(s) == unasked(s)

Stage(s) ==
  /\ pass[s].pc = "looked"
  /\ prop' = IF stages(s)
             THEN [prop EXCEPT ![s] =
                     [ status |-> "proposed", run |-> pass[s].run,
                       memory |-> pass[s].memory ]]
             ELSE prop
  /\ PassGoes(s, "done")
  /\ UNCHANGED <<com, review, history>>

(* The epoch has moved, the pass has thrown or its worker has died.        *)
PassStops(s) ==
  /\ pass[s].pc \in {"judged", "looked"}
  /\ PassGoes(s, "done")
  /\ UNCHANGED <<com, prop, review, history>>

-----------------------------------------------------------------------------
(* Reviews.                                                                *)

ReviewGoes(r, step) == review' = [review EXCEPT ![r].pc = step]
SetStatus(p, status) == prop' = [prop EXCEPT ![p].status = status]

decidesAgain(p) == Staged(p)
stillOpen(p) == Open(p)
decidable(p) == stillOpen(p)

RejectProposal(r, p) ==
  /\ review[r].pc = "idle"
  /\ decidable(p)
  /\ SetStatus(p, "rejected")
  /\ ReviewGoes(r, "done")
  /\ UNCHANGED <<com, pass, history>>

(* acceptResolutionProposal: the claim, in a transaction of its own.       *)
ClaimProposal(r, p) ==
  /\ review[r].pc = "idle"
  /\ decidable(p)
  /\ SetStatus(p, "applied")
  /\ review' = [review EXCEPT ![r] = [IdleReview EXCEPT !.pc = "read",
                                                        !.prop = p]]
  /\ UNCHANGED <<com, pass, history>>

(* resolveCommitmentByMemoryId looks for the commitment where it was when  *)
(* the proposal was staged.                                                *)
ReadCommitment(r) ==
  /\ review[r].pc = "read"
  /\ IF com.memory = prop[review[r].prop].memory
     THEN review' = [review EXCEPT ![r].pc = "decide", ![r].seen = com.status,
                                   ![r].attempt = 1]
     ELSE ReviewGoes(r, "failed")
  /\ UNCHANGED <<com, prop, pass, history>>

Settle(r) ==
  /\ settled' = settled \cup {review[r].prop}
  /\ ReviewGoes(r, "done")
  /\ UNCHANGED <<cut, displaced>>

(* applyTransition: a commitment that is resolved already is a success.    *)
Decide(r) ==
  /\ review[r].pc = "decide"
  /\ IF review[r].seen = "resolved" THEN Settle(r)
     ELSE /\ ReviewGoes(r, IF canTransition(review[r].seen, "resolved")
                           THEN "write" ELSE "failed")
          /\ UNCHANGED history
  /\ UNCHANGED <<com, prop, pass>>

(* transitionCommitment's compare-and-set, and the loop that re-reads.     *)
Write(r) ==
  /\ review[r].pc = "write"
  /\ IF com.status = review[r].seen
     THEN com' = [com EXCEPT !.status = "resolved"] /\ Settle(r)
     ELSE /\ IF review[r].attempt = MAX_TRANSITION_ATTEMPTS
             THEN ReviewGoes(r, "failed")
             ELSE review' = [review EXCEPT ![r].pc = "decide", ![r].attempt = @ + 1,
                                           ![r].seen = com.status]
          /\ UNCHANGED <<com, history>>
  /\ UNCHANGED <<prop, pass>>

(* An error on the way; the answer of a commit may be what is lost.        *)
Fails(r) ==
  /\ review[r].pc \in {"read", "decide", "write"}
  /\ \/ UNCHANGED com
     \/ /\ review[r].pc = "write" /\ com.status = review[r].seen
        /\ com' = [com EXCEPT !.status = "resolved"]
  /\ ReviewGoes(r, "failed")
  /\ UNCHANGED <<prop, pass, history>>

forgets(p) == prop
undoClaim(p) ==
  IF prop[p].status = "applied"
  THEN [prop EXCEPT ![p].status = "proposed"] ELSE prop
reopened(p) == undoClaim(p)

(* reopenResolutionProposal meets the index of open proposals when a pass  *)
(* has staged another for that memory since the claim.                     *)
Reopen(r) ==
  LET p == review[r].prop
  IN  /\ review[r].pc = "failed"
      /\ IF \E q \in About(prop[p].memory) : Open(q)
         THEN displaced' = displaced \cup {p} /\ UNCHANGED prop
         ELSE prop' = reopened(p) /\ UNCHANGED displaced
      /\ ReviewGoes(r, "done")
      /\ UNCHANGED <<com, pass, settled, cut>>

(* The server dies, or cannot reach the database to undo the claim.        *)
Dies(r) ==
  /\ review[r].pc \in {"read", "decide", "write", "failed"}
  /\ cut' = cut \cup {review[r].prop}
  /\ ReviewGoes(r, "done")
  /\ UNCHANGED <<com, prop, pass, settled, displaced>>

-----------------------------------------------------------------------------
(* Resolves, unresolves, waits and sweeps of anybody else; carryCommitment *)
(* moves the row to the successor of its memory.                           *)
Transition ==
  /\ \E to \in CommitmentStatus :
       /\ canTransition(com.status, to)
       /\ com' = [com EXCEPT !.status = to]
  /\ UNCHANGED <<prop, pass, review, history>>

CarryCommitment ==
  /\ com.memory < MaxMemory
  /\ com' = [com EXCEPT !.memory = @ + 1]
  /\ UNCHANGED <<prop, pass, review, history>>

PassSteps(s) ==
  \/ \E run \in Runs : Judge(s, run)
  \/ Look(s)
  \/ Stage(s)
  \/ PassStops(s)

ReviewSteps(r) ==
  \/ \E p \in Passes : RejectProposal(r, p)
  \/ \E p \in Passes : ClaimProposal(r, p)
  \/ ReadCommitment(r)
  \/ Decide(r)
  \/ Write(r)
  \/ Fails(r)
  \/ Reopen(r)
  \/ Dies(r)

Next ==
  \/ \E s \in Passes : PassSteps(s)
  \/ \E r \in Reviewers : ReviewSteps(r)
  \/ Transition
  \/ CarryCommitment

Spec == Init /\ [][Next]_vars

-----------------------------------------------------------------------------
(* acceptResolutionProposal: what the queue says of a proposal is what has *)
(* become of it.  One reviewer at most acts on it; an open or rejected one *)
(* has settled nothing; an applied one is being settled or has been, but   *)
(* for an accept that died and for a claim whose place in the queue was    *)
(* taken while it failed.                                                  *)
Acting(p) ==
  {r \in Reviewers :
     review[r].prop = p /\ review[r].pc \in {"read", "decide", "write", "failed"}}

DecisionsHold ==
  \A p \in Passes :
    IF prop[p].status = "applied"
    THEN \/ p \in settled \cup cut \cup displaced /\ Acting(p) = {}
         \/ \E r \in Reviewers : Acting(p) = {r}
    ELSE p \notin settled /\ Acting(p) = {}
=============================================================================
