--------------------------- MODULE WorkflowNodes ---------------------------
(***************************************************************************)
(* The fixed topology of the colour-development workflow: 13 main-line and *)
(* 5 parallel nodes, the actions each node accepts, and the nodes a        *)
(* finishing action creates tasks for (workflow-node.constants.ts).        *)
(* Every template's isPrimary flag in the source equals its node's         *)
(* isPrimaryTask, so being primary is a property of the node here.         *)
(***************************************************************************)

PrimaryNodes ==
  {"PROJECT_INITIATION", "DEVELOPMENT_REPORT", "PAINT_DEVELOPMENT",
   "SAMPLE_COLOR_CONFIRMATION", "PAINT_PROCUREMENT",
   "FIRST_UNIT_PRODUCTION_PLAN", "TRIAL_PRODUCTION", "CAB_REVIEW",
   "COLOR_CONSISTENCY_REVIEW", "MASS_PRODUCTION_PLAN", "MASS_PRODUCTION",
   "VISUAL_COLOR_DIFFERENCE_REVIEW", "PROJECT_CLOSED"}

ParallelNodes ==
  {"COLOR_NUMBERING", "STANDARD_BOARD_PRODUCTION", "BOARD_DETAIL_UPDATE",
   "PERFORMANCE_TEST", "DEVELOPMENT_ACCEPTANCE"}

(* The order of the main line, from the sequence numbers of the nodes.     *)
Position ==
  [PROJECT_INITIATION             |-> 1,
   DEVELOPMENT_REPORT             |-> 2,
   PAINT_DEVELOPMENT              |-> 3,
   SAMPLE_COLOR_CONFIRMATION      |-> 4,
   PAINT_PROCUREMENT              |-> 5,
   FIRST_UNIT_PRODUCTION_PLAN     |-> 6,
   TRIAL_PRODUCTION               |-> 7,
   CAB_REVIEW                     |-> 8,
   COLOR_CONSISTENCY_REVIEW       |-> 9,
   MASS_PRODUCTION_PLAN           |-> 10,
   MASS_PRODUCTION                |-> 11,
   VISUAL_COLOR_DIFFERENCE_REVIEW |-> 12,
   PROJECT_CLOSED                 |-> 13]

NodeCodes == PrimaryNodes \cup ParallelNodes

ReviewNodes ==
  {"SAMPLE_COLOR_CONFIRMATION", "CAB_REVIEW", "COLOR_CONSISTENCY_REVIEW",
   "VISUAL_COLOR_DIFFERENCE_REVIEW"}

(* One colour number and one development fee per project, ever.            *)
OnceNodes == {"COLOR_NUMBERING", "DEVELOPMENT_ACCEPTANCE"}

(* The nodes whose results a consistency return sends back to review.      *)
TechnicalNodes ==
  {"PAINT_DEVELOPMENT", "SAMPLE_COLOR_CONFIRMATION", "PAINT_PROCUREMENT",
   "STANDARD_BOARD_PRODUCTION", "BOARD_DETAIL_UPDATE", "PERFORMANCE_TEST",
   "FIRST_UNIT_PRODUCTION_PLAN", "TRIAL_PRODUCTION", "CAB_REVIEW"}

CompletionActions == {"SUBMIT", "COMPLETE"}
ReviewActions     == {"APPROVE", "REJECT", "RETURN"}
FinishingActions  == CompletionActions \cup ReviewActions

ActiveStatuses     == {"PENDING", "READY", "IN_PROGRESS", "RETURNED"}
ActionableStatuses == {"READY", "IN_PROGRESS", "RETURNED"}
StartableStatuses  == {"READY", "RETURNED"}
TerminalStatuses   == {"APPROVED", "REJECTED", "COMPLETED", "CANCELLED"}
TaskStatuses       == ActiveStatuses \cup TerminalStatuses

(* The actions a node accepts besides START, which every node accepts.     *)
AllowedActions(n) ==
  IF n = "PROJECT_CLOSED" THEN {"COMPLETE"}
  ELSE IF n = "VISUAL_COLOR_DIFFERENCE_REVIEW" THEN ReviewActions \cup {"COMPLETE"}
  ELSE IF n \in ReviewNodes THEN ReviewActions
  ELSE CompletionActions

(* The status a finishing action leaves behind.                            *)
TerminalStatus(a) ==
  IF a = "APPROVE" THEN "APPROVED"
  ELSE IF a = "REJECT" THEN "REJECTED"
  ELSE IF a = "RETURN" THEN "RETURNED"
  ELSE "COMPLETED"

-----------------------------------------------------------------------------
(* WORKFLOW_NEXT_TASK_MAP: what a node that concludes well creates, and    *)
(* where a review that does not sends the project back.                    *)

ForwardEdges ==
  {<<"PROJECT_INITIATION", "DEVELOPMENT_REPORT">>,
   <<"DEVELOPMENT_REPORT", "PAINT_DEVELOPMENT">>,
   <<"PAINT_DEVELOPMENT", "SAMPLE_COLOR_CONFIRMATION">>,
   <<"SAMPLE_COLOR_CONFIRMATION", "PAINT_PROCUREMENT">>,
   <<"SAMPLE_COLOR_CONFIRMATION", "COLOR_NUMBERING">>,
   <<"PAINT_PROCUREMENT", "FIRST_UNIT_PRODUCTION_PLAN">>,
   <<"PAINT_PROCUREMENT", "PERFORMANCE_TEST">>,
   <<"PAINT_PROCUREMENT", "STANDARD_BOARD_PRODUCTION">>,
   <<"STANDARD_BOARD_PRODUCTION", "BOARD_DETAIL_UPDATE">>,
   <<"FIRST_UNIT_PRODUCTION_PLAN", "TRIAL_PRODUCTION">>,
   <<"TRIAL_PRODUCTION", "CAB_REVIEW">>,
   <<"CAB_REVIEW", "COLOR_CONSISTENCY_REVIEW">>,
   <<"CAB_REVIEW", "DEVELOPMENT_ACCEPTANCE">>,
   <<"COLOR_CONSISTENCY_REVIEW", "MASS_PRODUCTION_PLAN">>,
   <<"MASS_PRODUCTION_PLAN", "MASS_PRODUCTION">>,
   <<"MASS_PRODUCTION", "VISUAL_COLOR_DIFFERENCE_REVIEW">>,
   <<"VISUAL_COLOR_DIFFERENCE_REVIEW", "PROJECT_CLOSED">>}

(* Mutant: a failed consistency review goes back to the trial only.        *)
BackEdgesShort ==
  {<<"SAMPLE_COLOR_CONFIRMATION", "PAINT_DEVELOPMENT">>,
   <<"CAB_REVIEW", "TRIAL_PRODUCTION">>,
   <<"COLOR_CONSISTENCY_REVIEW", "TRIAL_PRODUCTION">>,
   <<"VISUAL_COLOR_DIFFERENCE_REVIEW", "MASS_PRODUCTION">>}

BackEdges ==
  {<<"SAMPLE_COLOR_CONFIRMATION", "PAINT_DEVELOPMENT">>,
   <<"CAB_REVIEW", "TRIAL_PRODUCTION">>,
   <<"COLOR_CONSISTENCY_REVIEW", "PAINT_DEVELOPMENT">>,
   <<"VISUAL_COLOR_DIFFERENCE_REVIEW", "MASS_PRODUCTION">>}

Concludes(n, a) ==
  IF n \in ReviewNodes
  THEN a = "APPROVE" \/ (n = "VISUAL_COLOR_DIFFERENCE_REVIEW" /\ a = "COMPLETE")
  ELSE a \in CompletionActions

(* Mutant: the rejection of a cabin review has no entry.                   *)
SendsBackNoCabReject(n, a) ==
  a = "RETURN" \/ (a = "REJECT" /\ n \notin {"SAMPLE_COLOR_CONFIRMATION", "CAB_REVIEW"})

(* The sample confirmation has no entry for either action; its RETURN goes *)
(* to its default return node, its REJECT nowhere.                         *)
SendsBack(n, a) ==
  a = "RETURN" \/ (a = "REJECT" /\ n # "SAMPLE_COLOR_CONFIRMATION")

NextNodes(n, a) ==
  {m \in NodeCodes :
     \/ Concludes(n, a) /\ <<n, m>> \in ForwardEdges
     \/ SendsBack(n, a) /\ <<n, m>> \in BackEdges}

=============================================================================
