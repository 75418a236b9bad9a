--------------------------- MODULE RunActivation ---------------------------
(***************************************************************************)
(* What the activation epoch promises to the closer: a run is a series of  *)
(* activations, each numbered once; a debrief is credited to an activation *)
(* only after it has ended and before the next one begins.                 *)
(***************************************************************************)
EXTENDS Naturals

VARIABLES epoch, open, debriefed

activationVars == <<epoch, open, debriefed>>

ActivationInit == epoch = 0 /\ open = FALSE /\ debriefed = 0

(* The run starts, or comes back from a close: always a new number.        *)
Activate ==
  /\ ~open
  /\ open' = TRUE
  /\ epoch' = epoch + 1
  /\ UNCHANGED debriefed

(* An activation that lapsed or was resumed is superseded while open.      *)
Supersede ==
  /\ open
  /\ epoch' = epoch + 1
  /\ UNCHANGED <<open, debriefed>>

Retire ==
  /\ open
  /\ open' = FALSE
  /\ UNCHANGED <<epoch, debriefed>>

(* Erasure fences whoever still works for the ended activation.            *)
Invalidate ==
  /\ ~open
  /\ epoch > 0
  /\ epoch' = epoch + 1
  /\ UNCHANGED <<open, debriefed>>

Debrief ==
  /\ ~open
  /\ epoch > 0
  /\ debriefed' = epoch
  /\ UNCHANGED <<epoch, open>>

ActivationNext == Activate \/ Supersede \/ Retire \/ Invalidate \/ Debrief

ActivationSpec == ActivationInit /\ [][ActivationNext]_activationVars
=============================================================================
