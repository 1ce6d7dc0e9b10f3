-------------------------- MODULE ProjectLifecycle --------------------------
(***************************************************************************)
(* What the workflow engine promises about a project, without tasks,       *)
(* rounds or evidence: one stage moves along the main line, falls back     *)
(* only where a review sends it, and the colour number, the development    *)
(* fee and each monthly review happen once.  ProjectWorkflow implements    *)
(* this specification (see its Lifecycle instance).                        *)
(***************************************************************************)
EXTENDS Naturals, WorkflowNodes

CONSTANT Periods   \* the monthly review periods

VARIABLES stage,    \* the main-line node the project is at
          phase,    \* RUNNING, HALTED by a rejected sample, or CLOSED
          number,   \* the colour number matter: NONE, OPEN or DONE
          fee,      \* the development fee matter: NONE, OPEN or DONE
          reviewed  \* the periods whose review is done

lifecycleVars == <<stage, phase, number, fee, reviewed>>

Opened(matter) == IF matter = "NONE" THEN "OPEN" ELSE matter

LifecycleInit ==
  /\ stage = "PROJECT_INITIATION"
  /\ phase = "RUNNING"
  /\ number = "NONE"
  /\ fee = "NONE"
  /\ reviewed = {}

-----------------------------------------------------------------------------

(* The stage moves to the next node of the main line.  Leaving the sample  *)
(* confirmation opens the number, leaving the cabin review the fee; the    *)
(* monthly review is left with its last period.                            *)
Advance ==
  /\ phase = "RUNNING"
  /\ stage # "PROJECT_CLOSED"
  /\ stage' \in PrimaryNodes
  /\ Position[stage'] = Position[stage] + 1
  /\ number' = IF stage = "SAMPLE_COLOR_CONFIRMATION" THEN Opened(number) ELSE number
  /\ fee' = IF stage = "CAB_REVIEW" THEN Opened(fee) ELSE fee
  /\ IF stage = "VISUAL_COLOR_DIFFERENCE_REVIEW"
     THEN \E k \in Periods \ reviewed : reviewed' = reviewed \cup {k} /\ reviewed' = Periods
     ELSE UNCHANGED reviewed
  /\ UNCHANGED phase

(* Registering the approved report passes initiation and report at once.   *)
AdvancePastReport ==
  /\ phase = "RUNNING"
  /\ stage = "PROJECT_INITIATION"
  /\ stage' = "PAINT_DEVELOPMENT"
  /\ UNCHANGED <<phase, number, fee, reviewed>>

(* A review sends the stage back.                                          *)
FallBack ==
  /\ phase = "RUNNING"
  /\ <<stage, stage'>> \in BackEdges
  /\ UNCHANGED <<phase, number, fee, reviewed>>

Halt ==
  /\ phase = "RUNNING"
  /\ stage = "SAMPLE_COLOR_CONFIRMATION"
  /\ phase' = "HALTED"
  /\ UNCHANGED <<stage, number, fee, reviewed>>

Close ==
  /\ phase = "RUNNING"
  /\ stage = "PROJECT_CLOSED"
  /\ phase' = "CLOSED"
  /\ UNCHANGED <<stage, number, fee, reviewed>>

(* The matters beside the main line are settled once, before the closing.  *)
SettleNumber ==
  /\ phase # "CLOSED"
  /\ number = "OPEN"
  /\ number' = "DONE"
  /\ UNCHANGED <<stage, phase, fee, reviewed>>

SettleFee ==
  /\ phase # "CLOSED"
  /\ fee = "OPEN"
  /\ fee' = "DONE"
  /\ UNCHANGED <<stage, phase, number, reviewed>>

(* One period is reviewed, and periods remain.                             *)
ReviewPeriod ==
  /\ phase = "RUNNING"
  /\ stage = "VISUAL_COLOR_DIFFERENCE_REVIEW"
  /\ \E k \in Periods \ reviewed : reviewed' = reviewed \cup {k}
  /\ reviewed' # Periods
  /\ UNCHANGED <<stage, phase, number, fee>>

LifecycleNext ==
  \/ Advance \/ AdvancePastReport \/ FallBack \/ Halt \/ Close
  \/ SettleNumber \/ SettleFee \/ ReviewPeriod

LifecycleSpec == LifecycleInit /\ [][LifecycleNext]_lifecycleVars

=============================================================================
