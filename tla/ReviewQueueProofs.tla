-------------------------- MODULE ReviewQueueProofs --------------------------
(***************************************************************************)
(* What the queue's two invariants rest on: a review that has claimed a    *)
(* proposal is alone with it until it stops, and a proposal whose accept   *)
(* is over is never open again.                                            *)
(***************************************************************************)
EXTENDS ReviewQueue, TLAPS

Busy(r) == review[r].pc \in {"read", "decide", "write", "failed"}
Over == settled \cup cut \cup displaced

(* A pass stages once, with the run and the memory that it has judged.     *)
PassOK(s) ==
  /\ pass[s].pc # "done" => ~Staged(s)
  /\ pass[s].pc # "idle" => pass[s].run \in Runs /\ pass[s].memory \in Memories

(* A review holds the claim that it has made; a transition is decided on a *)
(* status that the commitment has had.                                     *)
ClaimOK(r) ==
  /\ Busy(r) => /\ review[r].prop \in Passes
                /\ prop[review[r].prop].status = "applied"
                /\ review[r].prop \notin Over
  /\ review[r].pc \in {"decide", "write"} => review[r].seen \in CommitmentStatus

ClaimsApart ==
  \A r, t \in Reviewers : Busy(r) /\ Busy(t) /\ review[r].prop = review[t].prop => r = t

FateOK(p) ==
  IF prop[p].status = "applied"
  THEN p \in Over \/ \E r \in Reviewers : Busy(r) /\ review[r].prop = p
  ELSE p \notin Over

IInv ==
  /\ TypeOK
  /\ \A s \in Passes : PassOK(s)
  /\ \A r \in Reviewers : ClaimOK(r)
  /\ ClaimsApart
  /\ \A p \in Passes : FateOK(p)

-----------------------------------------------------------------------------
(* The types alone, and what the two unique indexes say.                   *)
Typed ==
  /\ com \in [memory : Memories, status : CommitmentStatus]
  /\ prop \in [Passes -> [ status : {"none", "proposed", "applied", "rejected"},
                           run : Runs \cup {NULL},
                           memory : Memories \cup {NULL} ]]
  /\ pass \in [Passes -> [ pc : {"idle", "judged", "looked", "done"},
                           run : Runs \cup {NULL},
                           memory : Memories \cup {NULL} ]]
  /\ review \in [Reviewers ->
       [ pc : {"idle", "read", "decide", "write", "failed", "done"},
         prop : Passes \cup {NULL}, seen : CommitmentStatus \cup {NULL},
         attempt : 0..MAX_TRANSITION_ATTEMPTS ]]
  /\ settled \in SUBSET Passes
  /\ cut \in SUBSET Passes
  /\ displaced \in SUBSET Passes

Unique ==
  \A p, q \in Passes :
    Staged(p) /\ Staged(q) /\ p # q /\ prop[p].memory = prop[q].memory =>
      prop[p].run # prop[q].run /\ ~(Open(p) /\ Open(q))

LEMMA TypeParts == TypeOK <=> Typed /\ Unique
BY DEF TypeOK, Typed, Unique

LEMMA StatusTyped ==
  ASSUME Typed, NEW p \in Passes, NEW status \in {"proposed", "applied", "rejected"},
         SetStatus(p, status)
  PROVE  prop' \in [Passes -> [ status : {"none", "proposed", "applied", "rejected"},
                               run : Runs \cup {NULL},
                               memory : Memories \cup {NULL} ]]
<1>1. [prop[p] EXCEPT !.status = status] \in
        [ status : {"none", "proposed", "applied", "rejected"},
          run : Runs \cup {NULL}, memory : Memories \cup {NULL} ]
  BY DEF Typed
<1>2. prop' = [prop EXCEPT ![p] = [prop[p] EXCEPT !.status = status]]
  BY DEF SetStatus
<1> QED BY <1>1, <1>2 DEF Typed

(* A step of a pass that stages nothing.                                   *)
LEMMA PassMoves ==
  ASSUME IInv, NEW s \in Passes, NEW row,
         row \in [ pc : {"judged", "looked", "done"}, run : Runs, memory : Memories ],
         pass[s].pc # "done",
         pass' = [pass EXCEPT ![s] = row],
         UNCHANGED <<com, prop, review, history>>
  PROVE  IInv'
<1>1. Typed /\ Unique
  BY TypeParts DEF IInv
<1>2. Typed'
  BY <1>1 DEF Typed, history
<1>3. Unique'
  BY <1>1 DEF Unique, Staged, Open
<1>4. ASSUME NEW t \in Passes PROVE PassOK(t)'
  BY <1>1 DEF IInv, Typed, PassOK, Staged
<1>5. \A r \in Reviewers : ClaimOK(r)'
  BY DEF IInv, ClaimOK, Busy, Over, history
<1>6. ClaimsApart'
  BY DEF IInv, ClaimsApart, Busy
<1>7. \A p \in Passes : FateOK(p)'
  BY DEF IInv, FateOK, Busy, Over, history
<1> QED BY <1>2, <1>3, <1>4, <1>5, <1>6, <1>7 DEF IInv, TypeOK, Typed, Unique

(* A step of a busy review, or of the commitment, that leaves the queue as *)
(* it is: the review goes on with its claim.                               *)
LEMMA ReviewMoves ==
  ASSUME IInv, NEW r \in Reviewers, NEW row, Busy(r),
         row \in [ pc : {"read", "decide", "write", "failed"}, prop : {review[r].prop},
                   seen : CommitmentStatus \cup {NULL},
                   attempt : 0..MAX_TRANSITION_ATTEMPTS ],
         row.pc \in {"decide", "write"} => row.seen \in CommitmentStatus,
         review' = [review EXCEPT ![r] = row],
         com' \in [memory : Memories, status : CommitmentStatus],
         UNCHANGED <<prop, pass, history>>
  PROVE  IInv'
<1>1. Typed /\ Unique
  BY TypeParts DEF IInv
<1>2. Typed'
  BY <1>1 DEF Typed, history
<1>3. Unique'
  BY <1>1 DEF Unique, Staged, Open
<1>4. \A s \in Passes : PassOK(s)'
  BY DEF IInv, PassOK, Staged
<1>5. \A t \in Reviewers : review'[t].prop = review[t].prop /\ (Busy(t)' <=> Busy(t))
  BY <1>1 DEF Typed, Busy
<1>6. ASSUME NEW t \in Reviewers PROVE ClaimOK(t)'
  <2>1. CASE t = r
    BY <1>1, <2>1 DEF Typed, IInv, ClaimOK, Busy, Over, history
  <2>2. CASE t # r
    BY <1>1, <2>2 DEF Typed, IInv, ClaimOK, Busy, Over, history
  <2> QED BY <2>1, <2>2
<1>7. ClaimsApart'
  BY <1>5 DEF IInv, ClaimsApart
<1>8. \A p \in Passes : FateOK(p)'
  BY <1>5 DEF IInv, FateOK, Over, history
<1> QED BY <1>2, <1>3, <1>4, <1>6, <1>7, <1>8 DEF IInv, TypeOK, Typed, Unique

(* A review lets go of its claim: its proposal is settled, cut or displaced *)
(* now, or is open again.                                                  *)
LEMMA ReviewEnds ==
  ASSUME IInv, NEW r \in Reviewers, Busy(r),
         ReviewGoes(r, "done"),
         com' \in [memory : Memories, status : CommitmentStatus],
         settled' \in SUBSET Passes, cut' \in SUBSET Passes, displaced' \in SUBSET Passes,
         UNCHANGED pass,
         \/ Over' = Over \cup {review[r].prop} /\ UNCHANGED prop
         \/ /\ Over' = Over
            /\ SetStatus(review[r].prop, "proposed")
            /\ ~\E q \in About(prop[review[r].prop].memory) : Open(q)
  PROVE  IInv'
<1> DEFINE p == review[r].prop
<1>1. Typed /\ Unique
  BY TypeParts DEF IInv
<1>2. p \in Passes /\ prop[p].status = "applied" /\ p \notin Over
  BY DEF IInv, ClaimOK
<1>3. Typed'
  <2>1. prop' \in [Passes -> [ status : {"none", "proposed", "applied", "rejected"},
                              run : Runs \cup {NULL}, memory : Memories \cup {NULL} ]]
    <3>1. CASE UNCHANGED prop
      BY <3>1, <1>1 DEF Typed
    <3>2. CASE SetStatus(p, "proposed")
      BY <3>2, <1>1, <1>2, StatusTyped
    <3> QED BY <3>1, <3>2
  <2>2. review' \in [Reviewers ->
          [ pc : {"idle", "read", "decide", "write", "failed", "done"},
            prop : Passes \cup {NULL}, seen : CommitmentStatus \cup {NULL},
            attempt : 0..MAX_TRANSITION_ATTEMPTS ]]
    BY <1>1 DEF Typed, ReviewGoes
  <2> QED BY <2>1, <2>2, <1>1 DEF Typed
<1>4. \A q \in Passes : /\ q # p => prop'[q] = prop[q]
                        /\ prop'[q].run = prop[q].run /\ prop'[q].memory = prop[q].memory
                        /\ Staged(q)' <=> Staged(q)
  BY <1>1, <1>2 DEF Typed, SetStatus, Staged
<1>5. Unique'
  BY <1>1, <1>2, <1>4 DEF Unique, Open, About, Staged
<1>6. \A s \in Passes : PassOK(s)'
  BY <1>4 DEF IInv, PassOK
<1>7. \A t \in Reviewers : /\ t # r => review'[t] = review[t]
                           /\ review'[t].prop = review[t].prop
                           /\ Busy(t)' <=> Busy(t) /\ t # r
  BY <1>1 DEF Typed, Busy, ReviewGoes
<1>8. ASSUME NEW t \in Reviewers PROVE ClaimOK(t)'
  <2>1. Busy(t)' => t # r /\ Busy(t) /\ review[t].prop # p /\ review[t].prop \in Passes
    BY <1>7 DEF IInv, ClaimsApart, ClaimOK
  <2>2. review'[t].pc \in {"decide", "write"} => Busy(t)'
    BY DEF Busy
  <2> QED BY <2>1, <2>2, <1>4, <1>7 DEF IInv, ClaimOK
<1>9. ClaimsApart'
  BY <1>7 DEF IInv, ClaimsApart
<1>10. ASSUME NEW q \in Passes PROVE FateOK(q)'
  <2>1. CASE q = p
    <3>1. CASE UNCHANGED prop /\ Over' = Over \cup {p}
      BY <2>1, <3>1, <1>2 DEF FateOK
    <3>2. CASE SetStatus(p, "proposed") /\ Over' = Over
      <4>1. prop'[p].status = "proposed"
        BY <3>2, <1>1, <1>2 DEF SetStatus, Typed
      <4> QED BY <4>1, <3>2, <2>1, <1>2 DEF FateOK
    <3> QED BY <3>1, <3>2
  <2>2. CASE q # p
    BY <2>2, <1>4, <1>7 DEF IInv, FateOK
  <2> QED BY <2>1, <2>2
<1> QED BY <1>3, <1>5, <1>6, <1>8, <1>9, <1>10 DEF IInv, TypeOK, Typed, Unique

-----------------------------------------------------------------------------
(* The three steps that give a proposal another status.                    *)
LEMMA StagePreserves ==
  ASSUME IInv, NEW s \in Passes, Stage(s), stages(s)
  PROVE  IInv'
<1>1. Typed /\ Unique
  BY TypeParts DEF IInv
<1>2. /\ ~Staged(s) /\ pass[s].run \in Runs /\ pass[s].memory \in Memories
      /\ prop[s].status # "applied" /\ s \notin Over
  BY DEF IInv, PassOK, FateOK, Stage, Staged
<1>3. /\ prop' = [prop EXCEPT ![s] = [status |-> "proposed", run |-> pass[s].run,
                                     memory |-> pass[s].memory]]
      /\ PassGoes(s, "done") /\ UNCHANGED <<com, review, history>>
  BY DEF Stage
<1>4. Typed'
  BY <1>1, <1>2, <1>3 DEF Typed, PassGoes, history
<1>5. \A p \in Passes : p # s => prop'[p] = prop[p]
  BY <1>1, <1>3 DEF Typed
<1>6. prop'[s] = [status |-> "proposed", run |-> pass[s].run, memory |-> pass[s].memory]
  BY <1>1, <1>3 DEF Typed
<1>7. Unique'
  BY <1>1, <1>2, <1>5, <1>6 DEF Unique, Staged, Open, stages, unasked, About
<1>8. ASSUME NEW t \in Passes PROVE PassOK(t)'
  BY <1>1, <1>2, <1>3, <1>5 DEF IInv, PassOK, PassGoes, Typed, Staged
<1>9. \A r \in Reviewers : ClaimOK(r)'
  BY <1>2, <1>3, <1>5 DEF IInv, ClaimOK, Busy, Over, history
<1>10. ClaimsApart'
  BY <1>3 DEF IInv, ClaimsApart, Busy
<1>11. \A p \in Passes : FateOK(p)'
  BY <1>2, <1>3, <1>5, <1>6 DEF IInv, FateOK, Busy, Over, history
<1> QED BY <1>4, <1>7, <1>8, <1>9, <1>10, <1>11 DEF IInv, TypeOK, Typed, Unique

(* A proposal that is open is nobody's claim.                              *)
LEMMA OpenIsFree ==
  ASSUME IInv, NEW p \in Passes, Open(p)
  PROVE  /\ p \notin Over
         /\ \A r \in Reviewers : Busy(r) => review[r].prop # p
BY DEF IInv, FateOK, ClaimOK, Open

LEMMA RejectPreserves ==
  ASSUME IInv, NEW r \in Reviewers, NEW p \in Passes, RejectProposal(r, p)
  PROVE  IInv'
<1>1. Typed /\ Unique
  BY TypeParts DEF IInv
<1>2. Open(p) /\ ~Busy(r)
  BY DEF RejectProposal, decidable, stillOpen, Busy
<1>3. /\ p \notin Over
      /\ \A t \in Reviewers : Busy(t) => review[t].prop # p
  BY <1>2, OpenIsFree
<1>4. /\ SetStatus(p, "rejected") /\ ReviewGoes(r, "done")
      /\ UNCHANGED <<com, pass, history>>
  BY DEF RejectProposal
<1>5. Typed'
  BY <1>1, <1>4, StatusTyped DEF Typed, ReviewGoes, history
<1>6. /\ prop'[p].status = "rejected" /\ Staged(p) /\ Staged(p)'
      /\ \A q \in Passes : /\ q # p => prop'[q] = prop[q]
                           /\ prop'[q].run = prop[q].run
                           /\ prop'[q].memory = prop[q].memory
  BY <1>1, <1>2, <1>4 DEF Typed, SetStatus, Staged, Open
<1>7. Unique'
  BY <1>1, <1>6 DEF Unique, Staged, Open
<1>8. \A s \in Passes : PassOK(s)'
  BY <1>4, <1>6 DEF IInv, PassOK, Staged
<1>9. \A t \in Reviewers : (Busy(t)' <=> Busy(t)) /\ (t # r => review'[t] = review[t])
  BY <1>1, <1>2, <1>4 DEF Typed, ReviewGoes, Busy
<1>10. ASSUME NEW t \in Reviewers PROVE ClaimOK(t)'
  <2>1. CASE t = r
    BY <2>1, <1>2, <1>9 DEF ClaimOK, Busy
  <2>2. CASE t # r
    BY <2>2, <1>3, <1>4, <1>6, <1>9 DEF IInv, ClaimOK, Over, history
  <2> QED BY <2>1, <2>2
<1>11. ClaimsApart'
  BY <1>2, <1>9 DEF IInv, ClaimsApart
<1>12. ASSUME NEW q \in Passes PROVE FateOK(q)'
  <2>1. Over' = Over
    BY <1>4 DEF Over, history
  <2>2. CASE q = p
    BY <2>1, <2>2, <1>3, <1>6 DEF FateOK
  <2>3. CASE q # p
    BY <2>1, <2>3, <1>2, <1>6, <1>9 DEF IInv, FateOK
  <2> QED BY <2>2, <2>3
<1> QED BY <1>5, <1>7, <1>8, <1>10, <1>11, <1>12 DEF IInv, TypeOK, Typed, Unique

LEMMA ClaimPreserves ==
  ASSUME IInv, NEW r \in Reviewers, NEW p \in Passes, ClaimProposal(r, p)
  PROVE  IInv'
<1> DEFINE row == [IdleReview EXCEPT !.pc = "read", !.prop = p]
<1>1. Typed /\ Unique
  BY TypeParts DEF IInv
<1>2. Open(p) /\ ~Busy(r)
  BY DEF ClaimProposal, decidable, stillOpen, Busy
<1>3. /\ p \notin Over
      /\ \A t \in Reviewers : Busy(t) => review[t].prop # p
  BY <1>2, OpenIsFree
<1>4. /\ SetStatus(p, "applied") /\ review' = [review EXCEPT ![r] = row]
      /\ UNCHANGED <<com, pass, history>>
  BY DEF ClaimProposal
<1>5. row.pc = "read" /\ row.prop = p /\ row \in
        [ pc : {"idle", "read", "decide", "write", "failed", "done"},
          prop : Passes \cup {NULL}, seen : CommitmentStatus \cup {NULL},
          attempt : 0..MAX_TRANSITION_ATTEMPTS ]
  <2>1. 0 \in 0..MAX_TRANSITION_ATTEMPTS
    BY ReviewQueueAssumption
  <2>2. IdleReview \in
          [ pc : {"idle", "read", "decide", "write", "failed", "done"},
            prop : Passes \cup {NULL}, seen : CommitmentStatus \cup {NULL},
            attempt : 0..MAX_TRANSITION_ATTEMPTS ]
    BY <2>1 DEF IdleReview
  <2> QED BY <2>2
<1> HIDE DEF row
<1>6. Typed'
  BY <1>1, <1>4, <1>5, StatusTyped DEF Typed, history
<1>7. /\ prop'[p].status = "applied" /\ Staged(p) /\ Staged(p)'
      /\ \A q \in Passes : /\ q # p => prop'[q] = prop[q]
                           /\ prop'[q].run = prop[q].run
                           /\ prop'[q].memory = prop[q].memory
  BY <1>1, <1>2, <1>4 DEF Typed, SetStatus, Staged, Open
<1>8. Unique'
  BY <1>1, <1>7 DEF Unique, Staged, Open
<1>9. \A s \in Passes : PassOK(s)'
  BY <1>4, <1>7 DEF IInv, PassOK, Staged
<1>10. /\ review'[r] = row /\ Busy(r)'
       /\ \A t \in Reviewers : t # r => (Busy(t)' <=> Busy(t)) /\ review'[t] = review[t]
  BY <1>1, <1>4, <1>5 DEF Typed, Busy
<1>11. Over' = Over
  BY <1>4 DEF Over, history
<1>12. ASSUME NEW t \in Reviewers PROVE ClaimOK(t)'
  <2>1. CASE t = r
    BY <2>1, <1>3, <1>5, <1>7, <1>10, <1>11 DEF ClaimOK
  <2>2. CASE t # r
    BY <2>2, <1>3, <1>7, <1>10, <1>11 DEF IInv, ClaimOK
  <2> QED BY <2>1, <2>2
<1>13. ClaimsApart'
  BY <1>3, <1>5, <1>10 DEF IInv, ClaimsApart
<1>14. ASSUME NEW q \in Passes PROVE FateOK(q)'
  <2>1. CASE q = p
    BY <2>1, <1>5, <1>7, <1>10 DEF FateOK
  <2>2. CASE q # p
    BY <2>2, <1>2, <1>7, <1>10, <1>11 DEF IInv, FateOK
  <2> QED BY <2>1, <2>2
<1> QED BY <1>6, <1>8, <1>9, <1>12, <1>13, <1>14 DEF IInv, TypeOK, Typed, Unique

-----------------------------------------------------------------------------
LEMMA PassPreserves ==
  ASSUME IInv, NEW s \in Passes, PassSteps(s)
  PROVE  IInv'
<1>1. Typed /\ Unique
  BY TypeParts DEF IInv
<1>2. pass[s].pc # "idle" => pass[s].run \in Runs /\ pass[s].memory \in Memories
  BY DEF IInv, PassOK
<1>3. ASSUME NEW run \in Runs, Judge(s, run) PROVE IInv'
  <2>1. [pc |-> "judged", run |-> run, memory |-> com.memory] \in
          [pc : {"judged", "looked", "done"}, run : Runs, memory : Memories]
    BY <1>1 DEF Typed
  <2> QED BY <2>1, <1>3, PassMoves DEF Judge
<1>4. ASSUME NEW step \in {"judged", "looked", "done"},
             pass[s].pc \in {"judged", "looked"}, PassGoes(s, step),
             UNCHANGED <<com, prop, review, history>>
      PROVE  IInv'
  <2>1. [pass[s] EXCEPT !.pc = step] \in
          [pc : {"judged", "looked", "done"}, run : Runs, memory : Memories]
    BY <1>1, <1>2, <1>4 DEF Typed
  <2>2. pass' = [pass EXCEPT ![s] = [pass[s] EXCEPT !.pc = step]]
    BY <1>4 DEF PassGoes
  <2> QED BY <2>1, <2>2, <1>4, PassMoves
<1>5. CASE Look(s)
  BY <1>4, <1>5 DEF Look
<1>6. CASE PassStops(s)
  BY <1>4, <1>6 DEF PassStops
<1>7. CASE Stage(s) /\ ~stages(s)
  BY <1>4, <1>7 DEF Stage
<1>8. CASE Stage(s) /\ stages(s)
  BY <1>8, StagePreserves
<1> QED BY <1>3, <1>5, <1>6, <1>7, <1>8 DEF PassSteps

LEMMA ReviewPreserves ==
  ASSUME IInv, NEW r \in Reviewers, ReviewSteps(r)
  PROVE  IInv'
<1> DEFINE Row(pc, seen, attempt) ==
      [pc |-> pc, prop |-> review[r].prop, seen |-> seen, attempt |-> attempt]
<1>1. Typed /\ Unique
  BY TypeParts DEF IInv
<1>2. com \in [memory : Memories, status : CommitmentStatus]
  BY <1>1 DEF Typed
<1>3. Busy(r) => review[r].prop \in Passes /\ prop[review[r].prop].status = "applied"
  BY DEF IInv, ClaimOK
<1>4. ASSUME NEW p \in Passes, RejectProposal(r, p) PROVE IInv'
  BY <1>4, RejectPreserves
<1>5. ASSUME NEW p \in Passes, ClaimProposal(r, p) PROVE IInv'
  BY <1>5, ClaimPreserves
<1>6. ASSUME NEW pc \in {"read", "decide", "write", "failed"},
             Busy(r), ReviewGoes(r, pc),
             pc \in {"decide", "write"} => review[r].seen \in CommitmentStatus,
             com' \in [memory : Memories, status : CommitmentStatus],
             UNCHANGED <<prop, pass, history>>
      PROVE  IInv'
  <2>1. [review[r] EXCEPT !.pc = pc] \in
          [ pc : {"read", "decide", "write", "failed"}, prop : {review[r].prop},
            seen : CommitmentStatus \cup {NULL}, attempt : 0..MAX_TRANSITION_ATTEMPTS ]
    BY <1>1, <1>6 DEF Typed
  <2>2. review' = [review EXCEPT ![r] = [review[r] EXCEPT !.pc = pc]]
    BY <1>6 DEF ReviewGoes
  <2>3. LET row == [review[r] EXCEPT !.pc = pc]
        IN  row.pc \in {"decide", "write"} => row.seen \in CommitmentStatus
    BY <1>1, <1>6 DEF Typed
  <2> QED BY <2>1, <2>2, <2>3, <1>6, ReviewMoves
<1>7. ASSUME NEW n \in 0..MAX_TRANSITION_ATTEMPTS, Busy(r),
             review' = [review EXCEPT ![r] = [review[r] EXCEPT
                          !.pc = "decide", !.seen = com.status, !.attempt = n]],
             UNCHANGED <<com, prop, pass, history>>
      PROVE  IInv'
  <2> DEFINE row == [review[r] EXCEPT !.pc = "decide", !.seen = com.status, !.attempt = n]
  <2>1. /\ row \in [ pc : {"read", "decide", "write", "failed"}, prop : {review[r].prop},
                     seen : CommitmentStatus \cup {NULL},
                     attempt : 0..MAX_TRANSITION_ATTEMPTS ]
        /\ row.seen \in CommitmentStatus
    BY <1>1, <1>2, <1>7 DEF Typed
  <2> HIDE DEF row
  <2>2. review' = [review EXCEPT ![r] = row]
    BY <1>7 DEF row
  <2> QED BY <2>1, <2>2, <1>2, <1>7, ReviewMoves
<1>8. CASE ReadCommitment(r)
  <2>1. Busy(r)
    BY <1>8 DEF ReadCommitment, Busy
  <2>2. CASE com.memory = prop[review[r].prop].memory
    <3>1. 1 \in 0..MAX_TRANSITION_ATTEMPTS
      BY ReviewQueueAssumption
    <3>2. review' = [review EXCEPT ![r] = [review[r] EXCEPT
                       !.pc = "decide", !.seen = com.status, !.attempt = 1]]
      BY <1>8, <2>2, <1>1 DEF ReadCommitment, Typed
    <3> QED BY <2>1, <3>1, <3>2, <1>7, <1>8 DEF ReadCommitment
  <2>3. CASE com.memory # prop[review[r].prop].memory
    BY <2>1, <2>3, <1>2, <1>6, <1>8 DEF ReadCommitment
  <2> QED BY <2>2, <2>3
<1>9. ASSUME Busy(r), Settle(r), UNCHANGED <<prop, pass>>,
             com' \in [memory : Memories, status : CommitmentStatus]
      PROVE  IInv'
  <2>1. /\ Over' = Over \cup {review[r].prop}
        /\ settled' \in SUBSET Passes /\ cut' \in SUBSET Passes
        /\ displaced' \in SUBSET Passes
    BY <1>1, <1>3, <1>9 DEF Settle, Over, Typed
  <2> QED BY <2>1, <1>9, ReviewEnds DEF Settle
<1>10. CASE Decide(r)
  <2>1. Busy(r) /\ review[r].seen \in CommitmentStatus
    BY <1>10 DEF Decide, Busy, IInv, ClaimOK
  <2>2. CASE review[r].seen = "resolved"
    BY <2>1, <2>2, <1>2, <1>9, <1>10 DEF Decide
  <2>3. CASE review[r].seen # "resolved"
    BY <2>1, <2>3, <1>2, <1>6, <1>10 DEF Decide
  <2> QED BY <2>2, <2>3
<1>11. [com EXCEPT !.status = "resolved"] \in [memory : Memories, status : CommitmentStatus]
  BY <1>2 DEF CommitmentStatus
<1>12. CASE Write(r)
  <2>1. Busy(r)
    BY <1>12 DEF Write, Busy
  <2>2. CASE com.status = review[r].seen
    BY <2>1, <2>2, <1>9, <1>11, <1>12 DEF Write
  <2>3. CASE com.status # review[r].seen /\ review[r].attempt = MAX_TRANSITION_ATTEMPTS
    <3>1. ReviewGoes(r, "failed") /\ UNCHANGED <<com, prop, pass, history>>
      BY <2>3, <1>12 DEF Write, ReviewGoes
    <3> QED BY <2>1, <3>1, <1>2, <1>6
  <2>4. CASE com.status # review[r].seen /\ review[r].attempt # MAX_TRANSITION_ATTEMPTS
    <3>1. review[r].attempt + 1 \in 0..MAX_TRANSITION_ATTEMPTS
      <4>1. review[r].attempt \in 0..MAX_TRANSITION_ATTEMPTS
        BY <1>1 DEF Typed
      <4> QED BY <4>1, <2>4, ReviewQueueAssumption
    <3>2. /\ review' = [review EXCEPT ![r] = [review[r] EXCEPT !.pc = "decide",
                           !.seen = com.status, !.attempt = review[r].attempt + 1]]
          /\ UNCHANGED <<com, prop, pass, history>>
      BY <2>4, <1>1, <1>12 DEF Write, Typed
    <3> QED BY <2>1, <3>1, <3>2, <1>7
  <2> QED BY <2>2, <2>3, <2>4
<1>13. CASE Fails(r)
  <2>1. Busy(r)
    BY <1>13 DEF Fails, Busy
  <2>2. com' \in [memory : Memories, status : CommitmentStatus]
    BY <1>2, <1>11, <1>13 DEF Fails
  <2> QED BY <2>1, <2>2, <1>6, <1>13 DEF Fails
<1>14. CASE Reopen(r)
  <2>1. Busy(r)
    BY <1>14 DEF Reopen, Busy
  <2>2. CASE \E q \in About(prop[review[r].prop].memory) : Open(q)
    <3>1. /\ displaced' = displaced \cup {review[r].prop}
          /\ ReviewGoes(r, "done") /\ UNCHANGED <<com, prop, pass, settled, cut>>
      BY <1>14, <2>2 DEF Reopen
    <3>2. /\ Over' = Over \cup {review[r].prop}
          /\ settled' \in SUBSET Passes /\ cut' \in SUBSET Passes
          /\ displaced' \in SUBSET Passes
      BY <3>1, <2>1, <1>1, <1>3 DEF Over, Typed
    <3> QED BY <2>1, <3>1, <3>2, <1>2, ReviewEnds
  <2>3. CASE ~\E q \in About(prop[review[r].prop].memory) : Open(q)
    <3>1. /\ prop' = reopened(review[r].prop) /\ UNCHANGED displaced
          /\ ReviewGoes(r, "done") /\ UNCHANGED <<com, pass, settled, cut>>
      BY <1>14, <2>3 DEF Reopen
    <3>2. SetStatus(review[r].prop, "proposed")
      BY <3>1, <2>1, <1>3 DEF SetStatus, reopened, undoClaim
    <3>3. /\ Over' = Over
          /\ settled' \in SUBSET Passes /\ cut' \in SUBSET Passes
          /\ displaced' \in SUBSET Passes
      BY <3>1, <1>1 DEF Over, Typed
    <3> QED BY <2>1, <2>3, <3>1, <3>2, <3>3, <1>2, ReviewEnds
  <2> QED BY <2>2, <2>3
<1>15. CASE Dies(r)
  <2>1. Busy(r)
    BY <1>15 DEF Dies, Busy
  <2>2. /\ Over' = Over \cup {review[r].prop}
        /\ settled' \in SUBSET Passes /\ cut' \in SUBSET Passes
        /\ displaced' \in SUBSET Passes
    BY <2>1, <1>1, <1>3, <1>15 DEF Dies, Over, Typed
  <2> QED BY <2>1, <2>2, <1>2, <1>15, ReviewEnds DEF Dies
<1> QED BY <1>4, <1>5, <1>8, <1>10, <1>12, <1>13, <1>14, <1>15 DEF ReviewSteps

-----------------------------------------------------------------------------
(* Everybody else's steps change the commitment alone.                     *)
LEMMA CommitmentMoves ==
  ASSUME IInv, com' \in [memory : Memories, status : CommitmentStatus],
         UNCHANGED <<prop, pass, review, history>>
  PROVE  IInv'
<1>1. Typed /\ Unique
  BY TypeParts DEF IInv
<1>2. Typed'
  BY <1>1 DEF Typed, history
<1>3. Unique'
  BY <1>1 DEF Unique, Staged, Open
<1>4. \A s \in Passes : PassOK(s)'
  BY DEF IInv, PassOK, Staged
<1>5. \A r \in Reviewers : ClaimOK(r)'
  BY DEF IInv, ClaimOK, Busy, Over, history
<1>6. ClaimsApart'
  BY DEF IInv, ClaimsApart, Busy
<1>7. \A p \in Passes : FateOK(p)'
  BY DEF IInv, FateOK, Busy, Over, history
<1> QED BY <1>2, <1>3, <1>4, <1>5, <1>6, <1>7 DEF IInv, TypeOK, Typed, Unique

LEMMA InitOK == Init => IInv
<1> SUFFICES ASSUME Init PROVE IInv
  OBVIOUS
<1>1. 0 \in 0..MAX_TRANSITION_ATTEMPTS /\ 1 \in Memories
  BY ReviewQueueAssumption DEF Memories
<1>2. Typed
  BY <1>1 DEF Init, Typed, Unstaged, IdlePass, IdleReview, CommitmentStatus
<1>3. \A p \in Passes : prop[p].status = "none" /\ pass[p].pc = "idle"
  BY DEF Init, Unstaged, IdlePass
<1>4. \A r \in Reviewers : review[r].pc = "idle"
  BY DEF Init, IdleReview
<1>5. Over = {}
  BY DEF Init, Over
<1> QED BY <1>2, <1>3, <1>4, <1>5
    DEF IInv, TypeOK, Typed, Staged, PassOK, ClaimOK, ClaimsApart, FateOK, Busy

LEMMA NextOK == IInv /\ [Next]_vars => IInv'
<1> SUFFICES ASSUME IInv, [Next]_vars PROVE IInv'
  OBVIOUS
<1>1. com \in [memory : Memories, status : CommitmentStatus]
  BY DEF IInv, TypeOK
<1>2. CASE \E s \in Passes : PassSteps(s)
  BY <1>2, PassPreserves
<1>3. CASE \E r \in Reviewers : ReviewSteps(r)
  BY <1>3, ReviewPreserves
<1>4. CASE Transition
  <2>1. PICK to \in CommitmentStatus : com' = [com EXCEPT !.status = to]
    BY <1>4 DEF Transition
  <2>2. com' \in [memory : Memories, status : CommitmentStatus]
    BY <1>1, <2>1
  <2> QED BY <2>2, <1>4, CommitmentMoves DEF Transition
<1>5. CASE CarryCommitment
  <2>1. com.memory + 1 \in Memories
    BY <1>1, <1>5, ReviewQueueAssumption DEF CarryCommitment, Memories
  <2>2. com' \in [memory : Memories, status : CommitmentStatus]
    BY <2>1, <1>1, <1>5 DEF CarryCommitment
  <2> QED BY <2>2, <1>5, CommitmentMoves DEF CarryCommitment
<1>6. CASE UNCHANGED vars
  BY <1>1, <1>6, CommitmentMoves DEF vars, history
<1> QED BY <1>2, <1>3, <1>4, <1>5, <1>6 DEF Next

LEMMA Inductive == Spec => []IInv
BY InitOK, NextOK, PTL DEF Spec

-----------------------------------------------------------------------------
(* What insertResolutionProposals, acceptResolutionProposal and            *)
(* reopenResolutionProposal write has its type and meets both unique       *)
(* indexes: a commitment's memory has one open proposal at most, whatever  *)
(* is retried and whatever is opened again.                                *)
THEOREM TypeCorrect == Spec => []TypeOK
<1>1. IInv => TypeOK
  BY DEF IInv
<1> QED BY <1>1, Inductive, PTL

(* One reviewer at most acts on a proposal; an open or rejected one has    *)
(* settled nothing; an applied one is being settled, has been, or belongs  *)
(* to an accept that died or lost its place.                               *)
THEOREM DecisionsStand == Spec => []DecisionsHold
<1>1. ASSUME IInv, NEW p \in Passes
      PROVE  IF prop[p].status = "applied"
             THEN \/ p \in settled \cup cut \cup displaced /\ Acting(p) = {}
                  \/ \E r \in Reviewers : Acting(p) = {r}
             ELSE p \notin settled /\ Acting(p) = {}
  <2>1. \A r \in Reviewers : r \in Acting(p) <=> Busy(r) /\ review[r].prop = p
    BY DEF Acting, Busy
  <2>2. Acting(p) \subseteq Reviewers
    BY DEF Acting
  <2>3. CASE prop[p].status = "applied" /\ p \in Over
    BY <2>1, <2>2, <2>3, <1>1 DEF IInv, ClaimOK, Over
  <2>4. CASE prop[p].status = "applied" /\ p \notin Over
    <3>1. PICK r \in Reviewers : Busy(r) /\ review[r].prop = p
      BY <2>4, <1>1 DEF IInv, FateOK
    <3>2. Acting(p) = {r}
      BY <3>1, <2>1, <2>2, <1>1 DEF IInv, ClaimsApart
    <3> QED BY <3>2, <2>4
  <2>5. CASE prop[p].status # "applied"
    BY <2>1, <2>2, <2>5, <1>1 DEF IInv, FateOK, ClaimOK, Over
  <2> QED BY <2>3, <2>4, <2>5
<1>2. IInv => DecisionsHold
  BY <1>1 DEF DecisionsHold
<1> QED BY <1>2, Inductive, PTL
=============================================================================
