-------------------------- MODULE ProjectWorkflow --------------------------
(***************************************************************************)
(* The workflow of one project: its tasks, the instance that runs them,    *)
(* the project row that mirrors it, the evidence records tasks rest on and *)
(* the monthly review plan.  Every write of the source takes the project's *)
(* advisory lock and commits in one transaction (withProjectWrite), so     *)
(* each handler is one action; a handler that throws changes nothing and   *)
(* is a disabled action.                                                   *)
(*                                                                         *)
(* A task is identified by its node and its round.  Requests carry task    *)
(* identifiers that may be stale, so every action ranges over all tasks,   *)
(* not only the active ones.                                               *)
(***************************************************************************)
EXTENDS Naturals, FiniteSets, WorkflowNodes

CONSTANTS MaxRound,       \* bound: rounds of one node that are modelled
          MonthCount,     \* periods of the monthly review plan (12 in the code)
          ChainLimit,     \* ancestors the evidence lookup visits (64 in the code)
          StartedNodes,   \* bound: the nodes whose tasks are explicitly started
          ReturningNodes, \* bound: the reviews that may reject or return
          RecordingNodes  \* bound: the nodes whose evidence is registered

ASSUME BoundsAssumption ==
  /\ MaxRound \in Nat \ {0}
  /\ MonthCount \in Nat \ {0}
  /\ ChainLimit \in Nat \ {0}
  /\ StartedNodes \subseteq NodeCodes
  /\ ReturningNodes \subseteq ReviewNodes
  /\ RecordingNodes \subseteq NodeCodes

VARIABLES task,      \* the workflow_tasks rows
          round,     \* taskRound of the latest row of each node, 0 if none
          instance,  \* status and currentNodeCode of the workflow instance
          project,   \* status and currentNodeCode of the project
          linked,    \* the project has a primaryColorId
          report,    \* whether an approved report is required, and registered
          planned,   \* the monthly plan and its periods exist
          months     \* the periods whose review is COMPLETED

vars == <<task, round, instance, project, linked, report, planned, months>>

-----------------------------------------------------------------------------

Rounds  == 1 .. MaxRound
Months  == 1 .. MonthCount
TaskIds == NodeCodes \X Rounds
NoTask  == <<"NONE", 0>>
NoNode  == "NONE"

(* The records created under a task: a review month for the monthly review, *)
(* 0 for the records of every other node.                                   *)
RecordKeys == {0} \cup Months

Rows == [status    : TaskStatuses \cup {"NONE"},
         active    : BOOLEAN,
         from      : TaskIds \cup {NoTask},  \* payload.fromTaskId
         technical : BOOLEAN,                \* payload.technicalReworkSourceTaskId is set
         invalid   : BOOLEAN,                \* payload.rework.invalidatedByTaskId is set
         records   : SUBSET RecordKeys]

NoRow == [status |-> "NONE", active |-> FALSE, from |-> NoTask,
          technical |-> FALSE, invalid |-> FALSE, records |-> {}]

ReadyRow(from, technical) ==
  [NoRow EXCEPT !.status = "READY", !.active = TRUE, !.from = from,
                !.technical = technical]

TypeOK ==
  /\ task \in [TaskIds -> Rows]
  /\ round \in [NodeCodes -> 0 .. MaxRound]
  /\ instance \in [status : {"RUNNING", "COMPLETED"}, node : NodeCodes \cup {NoNode}]
  /\ project \in [status : {"DRAFT", "IN_PROGRESS", "COMPLETED"}, node : NodeCodes]
  /\ linked \in BOOLEAN
  /\ report \in [required : BOOLEAN, registered : BOOLEAN]
  /\ planned \in BOOLEAN
  /\ months \in SUBSET Months

(* Active tasks of node n in the task table ts.                            *)
ActiveTasks(ts, n) == {id \in {n} \X Rounds : ts[id].active}
ActivePrimary(ts)  == {id \in PrimaryNodes \X Rounds : ts[id].active}

(* Some task of node n, in any round, has a qualifying record.             *)
AnyRecord(n) == \E r \in Rounds : task[<<n, r>>].records # {}

-----------------------------------------------------------------------------
(* Evidence lineage.                                                       *)

(* supersedesTaskId is set exactly when the node had an earlier round.     *)
IsRework(id) == id[2] > 1 \/ task[id].technical

(* The walk along the fromTaskId chain with k tasks left to visit: the      *)
(* first task of node n it meets, from each task it may start at.          *)
AncestorWalk(n) ==
  LET walk[k \in 0 .. ChainLimit] ==
        [i \in TaskIds \cup {NoTask} |->
           IF i = NoTask \/ k = 0 THEN NoTask
           ELSE IF i[1] = n THEN i ELSE walk[k - 1][task[i].from]]
  IN  walk

(* The nearest task of node n on the fromTaskId chain of id; past          *)
(* ChainLimit tasks the walk gives up.                                     *)
NearestAncestor(id, n) == AncestorWalk(n)[ChainLimit][task[id].from]

(* ancestorEvidenceIds finds a record of the nearest ancestor of node n.   *)
AncestorEvidence(id, n) ==
  LET ancestor == NearestAncestor(id, n)
  IN  ancestor # NoTask /\ task[ancestor].records # {}

-----------------------------------------------------------------------------
(* The engine: the tables a finishing action leaves behind.                *)

ConsistencyReturn(n, a) ==
  n = "COLOR_CONSISTENCY_REVIEW" /\ a \in {"REJECT", "RETURN"}

Closed(row, status) == [row EXCEPT !.status = status, !.active = FALSE]

(* A row of the superseded round: cancelled if it was still open.          *)
Swept(row) ==
  [Closed(row, IF row.active THEN "CANCELLED" ELSE row.status) EXCEPT !.invalid = TRUE]

(* Mutant: a returned task stays open.                                     *)
FinishedUnlessReturned(ts, id, a) ==
  [ts EXCEPT ![id].status = TerminalStatus(a), ![id].active = (a = "RETURN")]

Finished(ts, id, a) ==
  [ts EXCEPT ![id] = Closed(@, TerminalStatus(a))]

(* Mutants: an open task is marked but not cancelled; only main-line tasks *)
(* are swept; finished tasks are cancelled too.                            *)
InvalidatedKeepingOpen(ts, rd, n, a) ==
  IF ~ConsistencyReturn(n, a) THEN ts
  ELSE [i \in TaskIds |->
          IF i[1] \in TechnicalNodes /\ i[2] = rd[i[1]]
          THEN [ts[i] EXCEPT !.invalid = TRUE] ELSE ts[i]]

InvalidatedMainLine(ts, rd, n, a) ==
  IF ~ConsistencyReturn(n, a) THEN ts
  ELSE [i \in TaskIds |->
          IF i[1] \in TechnicalNodes \cap PrimaryNodes /\ i[2] = rd[i[1]]
          THEN [ts[i] EXCEPT !.invalid = TRUE] ELSE ts[i]]

InvalidatedCancellingAll(ts, rd, n, a) ==
  IF ~ConsistencyReturn(n, a) THEN ts
  ELSE [i \in TaskIds |->
          IF i[1] \in TechnicalNodes /\ i[2] = rd[i[1]]
          THEN [Closed(ts[i], "CANCELLED") EXCEPT !.invalid = TRUE]
          ELSE ts[i]]

(* invalidateTechnicalRound: the latest round of every technical node is   *)
(* sent back to review, and cancelled if it was still active; a round that *)
(* was sent back before is left alone.                                     *)
Invalidated(ts, rd, n, a) ==
  IF ~ConsistencyReturn(n, a) THEN ts
  ELSE [i \in TaskIds |->
          IF i[1] \in TechnicalNodes /\ i[2] = rd[i[1]] /\ ~ts[i].invalid
          THEN Swept(ts[i])
          ELSE ts[i]]

Settled(ts, rd, id, a) == Invalidated(Finished(ts, id, a), rd, id[1], a)

(* Mutant: a second number and a second fee are issued.                    *)
SpawnedAgain(rd, n, a) == NextNodes(n, a)

(* The nodes that get a new task: an existing number or fee is reused.     *)
Spawned(rd, n, a) == {m \in NextNodes(n, a) : ~(m \in OnceNodes /\ rd[m] > 0)}

(* createNextTasks throws when a reused matter is ambiguous or was         *)
(* cancelled, and when a node to be created already has an active task.    *)
CanSpawn(ts, rd, n, a) ==
  \A m \in NextNodes(n, a) :
    IF m \in OnceNodes /\ rd[m] > 0
    THEN rd[m] = 1 /\ ts[<<m, 1>>].status \notin {"CANCELLED", "REJECTED"}
    ELSE ActiveTasks(ts, m) = {}

(* Mutant: a new task points at the round it supersedes.                   *)
TasksAfterSuperseded(ts, rd, id, a) ==
  LET settled == Settled(ts, rd, id, a)
      spawned == Spawned(rd, id[1], a)
  IN  [i \in TaskIds |->
         IF i[1] \in spawned /\ i[2] = rd[i[1]] + 1
         THEN ReadyRow(IF i[2] > 1 THEN <<i[1], i[2] - 1>> ELSE id,
                       ConsistencyReturn(id[1], a) \/ ts[id].technical)
         ELSE settled[i]]

TasksAfter(ts, rd, id, a) ==
  LET settled == Settled(ts, rd, id, a)
      spawned == Spawned(rd, id[1], a)
  IN  [i \in TaskIds |->
         IF i[1] \in spawned /\ i[2] = rd[i[1]] + 1
         THEN ReadyRow(id, ConsistencyReturn(id[1], a) \/ ts[id].technical)
         ELSE settled[i]]

RoundsAfter(rd, n, a) ==
  LET spawned == Spawned(rd, n, a)
  IN  [m \in NodeCodes |-> IF m \in spawned THEN rd[m] + 1 ELSE rd[m]]

WithinBound(rd, n, a) == \A m \in Spawned(rd, n, a) : rd[m] < MaxRound

(* Mutants: the pointer comes from the tasks before the step; the project  *)
(* follows the instance even when it points nowhere.                       *)
SyncStateStale(ts, closes) ==
  \E n \in IF ActivePrimary(task) = {} THEN {NoNode} ELSE {i[1] : i \in ActivePrimary(task)} :
    /\ instance' = [status |-> IF closes THEN "COMPLETED" ELSE instance.status, node |-> n]
    /\ project' = [status |-> IF closes THEN "COMPLETED" ELSE "IN_PROGRESS", node |-> n]

SyncStateAlways(ts, closes) ==
  \E n \in IF ActivePrimary(ts) = {} THEN {NoNode} ELSE {i[1] : i \in ActivePrimary(ts)} :
    /\ instance' = [status |-> IF closes THEN "COMPLETED" ELSE instance.status, node |-> n]
    /\ project' = [status |-> IF closes THEN "COMPLETED" ELSE "IN_PROGRESS", node |-> n]

(* syncWorkflowState, after applyWorkflowCompletionIfNeeded: the instance   *)
(* points at the active main-line task, the project follows it when there  *)
(* is one, and a closed project keeps its last node.                       *)
SyncState(ts, closes) ==
  \E n \in IF ActivePrimary(ts) = {} THEN {NoNode} ELSE {i[1] : i \in ActivePrimary(ts)} :
    /\ instance' = [status |-> IF closes THEN "COMPLETED" ELSE instance.status, node |-> n]
    /\ project' = IF n # NoNode THEN [status |-> "IN_PROGRESS", node |-> n]
                  ELSE IF closes THEN [status |-> "COMPLETED", node |-> "PROJECT_CLOSED"]
                  ELSE project

(* assertTaskCanTransition for a finishing action.                         *)
CanFinish(ts, id, a) ==
  /\ ts[id].active
  /\ instance.status = "RUNNING"
  /\ a \in AllowedActions(id[1])
  /\ ts[id].status \in ActionableStatuses

(* What a completion rests on: a rework task needs a record of its own, and *)
(* so does every paint development; the two pilot nodes need a record of   *)
(* the project, and a linked project an issued standard board.             *)
EvidenceNodes ==
  {"PAINT_DEVELOPMENT", "PAINT_PROCUREMENT", "STANDARD_BOARD_PRODUCTION",
   "BOARD_DETAIL_UPDATE", "PERFORMANCE_TEST", "FIRST_UNIT_PRODUCTION_PLAN",
   "TRIAL_PRODUCTION"}

CompletionEvidence(id) ==
  /\ id[1] \in EvidenceNodes /\ (IsRework(id) \/ id[1] = "PAINT_DEVELOPMENT")
       => task[id].records # {}
  /\ id[1] \in {"FIRST_UNIT_PRODUCTION_PLAN", "TRIAL_PRODUCTION"} => AnyRecord(id[1])
  /\ id[1] = "STANDARD_BOARD_PRODUCTION" /\ linked => AnyRecord(id[1])

(* The approved report gates every completion and approval.                *)
ReportAllows(a) ==
  a \in CompletionActions \cup {"APPROVE"} => (report.required => report.registered)

(* transitionTaskWithExecutor for a finishing action; monthsDone are the   *)
(* periods its transaction has marked COMPLETED.                           *)
Transition(id, a, monthsDone) ==
  /\ CanFinish(task, id, a)
  /\ ReportAllows(a)
  /\ a \in CompletionActions => CompletionEvidence(id)
  /\ id[1] = "VISUAL_COLOR_DIFFERENCE_REVIEW" /\ a \in CompletionActions \cup {"APPROVE"}
       => planned /\ monthsDone = Months
  /\ CanSpawn(Settled(task, round, id, a), round, id[1], a)
  /\ WithinBound(round, id[1], a)
  /\ task' = TasksAfter(task, round, id, a)
  /\ round' = RoundsAfter(round, id[1], a)
  /\ planned' = (planned \/ (id[1] = "MASS_PRODUCTION" /\ a \in CompletionActions))
  /\ months' = monthsDone
  /\ SyncState(task', id[1] = "PROJECT_CLOSED")

-----------------------------------------------------------------------------
(* The handlers.                                                           *)

(* POST transition START, and the START the domain services issue first.   *)
StartTask(id) ==
  /\ id[1] \in StartedNodes
  /\ task[id].active
  /\ instance.status = "RUNNING"
  /\ task[id].status \in StartableStatuses
  /\ task' = [task EXCEPT ![id].status = "IN_PROGRESS"]
  /\ SyncState(task', FALSE)
  /\ UNCHANGED <<round, linked, report, planned, months>>

(* reconcileTeamAssignments: a started task whose owner lost the role goes *)
(* back to READY with its new owner.                                       *)
ReassignTask(id) ==
  /\ task[id].active
  /\ task[id].status = "IN_PROGRESS"
  /\ task' = [task EXCEPT ![id].status = "READY"]
  /\ UNCHANGED <<round, instance, project, linked, report, planned, months>>

(* The completion handlers of the domain services and of the ordinary      *)
(* completion; completing the numbering links the project to its colour.   *)
CompleteTask(id) ==
  /\ id[1] \notin ReviewNodes
  /\ Transition(id, "COMPLETE", months)
  /\ linked' = (linked \/ id[1] = "COLOR_NUMBERING")
  /\ UNCHANGED report

(* ApprovedReportService.register: one transaction records the report and  *)
(* completes both the initiation and the development report.               *)
RegisterApprovedReport(id) ==
  LET ts == TasksAfter(task, round, id, "COMPLETE")
      rd == RoundsAfter(round, id[1], "COMPLETE")
      dr == <<"DEVELOPMENT_REPORT", rd["DEVELOPMENT_REPORT"]>>
  IN  /\ id[1] = "PROJECT_INITIATION"
      /\ ~report.registered
      /\ CanFinish(task, id, "COMPLETE")
      /\ CanSpawn(Settled(task, round, id, "COMPLETE"), round, id[1], "COMPLETE")
      /\ WithinBound(round, id[1], "COMPLETE")
      /\ CanFinish(ts, dr, "COMPLETE")
      /\ CanSpawn(Settled(ts, rd, dr, "COMPLETE"), rd, dr[1], "COMPLETE")
      /\ WithinBound(rd, dr[1], "COMPLETE")
      /\ task' = TasksAfter(ts, rd, dr, "COMPLETE")
      /\ round' = RoundsAfter(rd, dr[1], "COMPLETE")
      /\ report' = [report EXCEPT !.registered = TRUE]
      /\ SyncState(task', FALSE)
      /\ UNCHANGED <<linked, planned, months>>

(* The creation handlers of samples, procurements, boards, board details,  *)
(* tests, first-unit plans and trials.  Only the task must be open: these  *)
(* handlers do not look at the instance.  A board detail of a rework needs *)
(* the board of its own round; a trial of a technical rework the plan.     *)
RegisterRecord(id) ==
  /\ id[1] \in EvidenceNodes \cap RecordingNodes
  /\ task[id].active
  /\ task[id].records = {}
  /\ id[1] = "BOARD_DETAIL_UPDATE" /\ IsRework(id)
       => AncestorEvidence(id, "STANDARD_BOARD_PRODUCTION")
  /\ id[1] = "TRIAL_PRODUCTION" /\ task[id].technical
       => AncestorEvidence(id, "FIRST_UNIT_PRODUCTION_PLAN")
  /\ task' = [task EXCEPT ![id].records = {0}]
  /\ UNCHANGED <<round, instance, project, linked, report, planned, months>>

(* submitConfirmation: the sample must be of this round when the report is *)
(* required or the task is a rework.                                       *)
ConfirmSample(id, a) ==
  LET ts == [task EXCEPT ![id].records = {0}]
  IN  /\ id[1] = "SAMPLE_COLOR_CONFIRMATION"
      /\ a \in {"REJECT", "RETURN"} => id[1] \in ReturningNodes
      /\ AnyRecord("PAINT_DEVELOPMENT")
      /\ report.required \/ IsRework(id) => AncestorEvidence(id, "PAINT_DEVELOPMENT")
      /\ CanFinish(ts, id, a)
      /\ ReportAllows(a)
      /\ CanSpawn(Settled(ts, round, id, a), round, id[1], a)
      /\ WithinBound(round, id[1], a)
      /\ task' = TasksAfter(ts, round, id, a)
      /\ round' = RoundsAfter(round, id[1], a)
      /\ SyncState(task', FALSE)
      /\ UNCHANGED <<linked, report, planned, months>>

(* The ordinary completion of the sample confirmation, without a           *)
(* confirmation record: refused when the approved report is required.      *)
ApproveSampleOrdinarily(id) ==
  /\ id[1] = "SAMPLE_COLOR_CONFIRMATION"
  /\ ~report.required
  /\ Transition(id, "APPROVE", months)
  /\ UNCHANGED <<linked, report>>

(* requireReviewStandardVersion: a linked project reviews against an       *)
(* issued standard board among the ancestors of the review task.           *)
StandardVersionEligible(id) ==
  linked => AncestorEvidence(id, "STANDARD_BOARD_PRODUCTION")

(* The creation handlers of the three review services.                     *)
CreateReview(id, k) ==
  /\ task[id].active
  /\ k \notin task[id].records
  /\ \/ /\ id[1] = "CAB_REVIEW" /\ k = 0
        /\ AnyRecord("TRIAL_PRODUCTION")
        /\ IsRework(id) => AncestorEvidence(id, "TRIAL_PRODUCTION")
        /\ task[id].technical => AncestorEvidence(id, "FIRST_UNIT_PRODUCTION_PLAN")
     \/ id[1] = "COLOR_CONSISTENCY_REVIEW" /\ k = 0
     \/ id[1] = "VISUAL_COLOR_DIFFERENCE_REVIEW" /\ planned /\ k \in Months \ months
  /\ StandardVersionEligible(id)
  /\ task' = [task EXCEPT ![id].records = @ \cup {k}]
  /\ UNCHANGED <<round, instance, project, linked, report, planned, months>>

(* approveCabinReview and approveConsistencyReview.                        *)
ApproveReview(id) ==
  /\ id[1] \in {"CAB_REVIEW", "COLOR_CONSISTENCY_REVIEW"}
  /\ task[id].records # {}
  /\ Transition(id, "APPROVE", months)
  /\ UNCHANGED <<linked, report>>

(* The reject handlers of the three review services.  A monthly review is   *)
(* rejected only while its month is open: lockVisualDeltaReviewWriteState   *)
(* refuses it once another reviewer's approval has completed the month.     *)
(* The records of the other reviews are no months.                          *)
RejectReview(id) ==
  /\ id[1] \in ReturningNodes \ {"SAMPLE_COLOR_CONFIRMATION"}
  /\ task[id].records \ months # {}
  /\ Transition(id, "REJECT", months)
  /\ UNCHANGED <<linked, report>>

(* Mutant: the months are counted before this one is marked.               *)
LastMonthStale(k) == months = Months

LastMonth(k) == months \cup {k} = Months

(* approveVisualDeltaReview: completes one month, starts the task if it    *)
(* was waiting, and approves it with the last month.                       *)
ApproveMonth(id, k) ==
  /\ id[1] = "VISUAL_COLOR_DIFFERENCE_REVIEW"
  /\ k \in task[id].records \ months
  /\ IF LastMonth(k)
     THEN Transition(id, "APPROVE", Months)
     ELSE /\ task[id].active
          /\ instance.status = "RUNNING"
          /\ task[id].status \in ActionableStatuses
          /\ task' = [task EXCEPT ![id].status = "IN_PROGRESS"]
          /\ months' = months \cup {k}
          /\ SyncState(task', FALSE)
          /\ UNCHANGED <<round, planned>>
  /\ UNCHANGED <<linked, report>>

(* ProjectColorLinkService.link: refused once boards, reviews or           *)
(* production plans exist.                                                 *)
LinkColor ==
  /\ ~linked
  /\ \A n \in {"STANDARD_BOARD_PRODUCTION", "FIRST_UNIT_PRODUCTION_PLAN", "CAB_REVIEW",
               "COLOR_CONSISTENCY_REVIEW", "VISUAL_COLOR_DIFFERENCE_REVIEW"} : ~AnyRecord(n)
  /\ linked' = TRUE
  /\ UNCHANGED <<task, round, instance, project, report, planned, months>>

-----------------------------------------------------------------------------

(* initializeProjectWorkflow, for a project created today (linked to its   *)
(* colour, report required) or before those columns existed (neither).     *)
Init ==
  /\ task = [i \in TaskIds |->
               IF i = <<"PROJECT_INITIATION", 1>> THEN ReadyRow(NoTask, FALSE) ELSE NoRow]
  /\ round = [n \in NodeCodes |-> IF n = "PROJECT_INITIATION" THEN 1 ELSE 0]
  /\ instance = [status |-> "RUNNING", node |-> "PROJECT_INITIATION"]
  /\ project = [status |-> "DRAFT", node |-> "PROJECT_INITIATION"]
  /\ linked \in BOOLEAN
  /\ report = [required |-> linked, registered |-> FALSE]
  /\ planned = FALSE
  /\ months = {}

Next ==
  \/ \E id \in TaskIds :
       \/ StartTask(id)
       \/ ReassignTask(id)
       \/ CompleteTask(id)
       \/ RegisterApprovedReport(id)
       \/ RegisterRecord(id)
       \/ \E a \in ReviewActions : ConfirmSample(id, a)
       \/ ApproveSampleOrdinarily(id)
       \/ \E k \in RecordKeys : CreateReview(id, k)
       \/ ApproveReview(id)
       \/ RejectReview(id)
       \/ \E k \in Months : ApproveMonth(id, k)
  \/ LinkColor

Spec == Init /\ [][Next]_vars

-----------------------------------------------------------------------------
(* Properties.                                                             *)

(* One task at a time moves the main line: whatever is returned, rejected  *)
(* or sent back, no two main-line tasks are open together.                 *)
SinglePrimary ==
  \A i, j \in ActivePrimary(task) : i = j

(* Open work is current work: an open task is the latest round of its node *)
(* and was not sent back to review by a consistency return, so nobody      *)
(* works on a superseded formula.                                          *)
LiveWorkIsCurrent ==
  \A id \in TaskIds :
    task[id].active => id[2] = round[id[1]] /\ ~task[id].invalid

(* The engine never refuses a decision because of the tasks that exist: no *)
(* allowed action of an open task finds an open task, a duplicate or a     *)
(* cancelled number or fee where createNextTasks wants to put a new one.   *)
ReworkNeverRefused ==
  \A id \in TaskIds :
    task[id].active /\ instance.status = "RUNNING" =>
      \A a \in AllowedActions(id[1]) :
        CanSpawn(Settled(task, round, id, a), round, id[1], a)

(* However often the sample or the cabin is reviewed again, the project    *)
(* keeps the one number and the one fee matter it was first given.         *)
OneNumberOneFee ==
  \A n \in OnceNodes :
    /\ round[n] <= 1
    /\ task[<<n, 1>>].status \notin {"CANCELLED", "REJECTED"}

(* Rework creates new tasks and never rewrites old ones: a closed task     *)
(* keeps its status, its origin and its records for good, and a mark of    *)
(* review once set stays.                                                  *)
SettledTasksStay ==
  [][\A id \in TaskIds :
       task[id].status # "NONE" /\ ~task[id].active =>
         /\ task'[id] = [task[id] EXCEPT !.invalid = task'[id].invalid]
         /\ task[id].invalid => task'[id].invalid]_vars

(* What the lists and dashboards read is what the tasks say: the instance  *)
(* points at the open main-line task and the project at the same node,     *)
(* except that it keeps its last node when the line has ended.             *)
PointersFollowTasks ==
  /\ instance.node = NoNode <=> ActivePrimary(task) = {}
  /\ \A id \in ActivePrimary(task) : instance.node = id[1] /\ project.node = id[1]
  /\ instance.status = "COMPLETED" <=> project.status = "COMPLETED"
  /\ instance.status = "COMPLETED" => instance.node = NoNode

(* A running project can go on: it has an open main-line task, unless its  *)
(* last sample was rejected, the one decision without a successor.         *)
MainLineAlive ==
  instance.status = "RUNNING" /\ ActivePrimary(task) = {} =>
    task[<<"SAMPLE_COLOR_CONFIRMATION", round["SAMPLE_COLOR_CONFIRMATION"]>>].status = "REJECTED"

(* The latest round of main-line node m was finished well and still holds. *)
Stands(m) ==
  /\ round[m] > 0
  /\ task[<<m, round[m]>>].status \in {"COMPLETED", "APPROVED"}
  /\ ~task[<<m, round[m]>>].invalid

(* Nothing is skipped: everything before the open main-line task stands in *)
(* its latest round, and a closed project stands on all thirteen nodes; no *)
(* path through returns leads past a result that was sent back to review.  *)
UpstreamStands ==
  /\ \A id \in ActivePrimary(task), m \in PrimaryNodes :
       Position[m] < Position[id[1]] => Stands(m)
  /\ instance.status = "COMPLETED" => \A m \in PrimaryNodes : Stands(m)

(* The main-line tasks a project has had beside the given one.             *)
Behind(id) == {i \in PrimaryNodes \X Rounds : i # id /\ task[i].status # "NONE"}

(* The evidence lookup reads the current round: from the open main-line    *)
(* task, the nearest ancestor of an earlier node is that node's latest     *)
(* round, and if that round is rework it has a record of its own.  The     *)
(* lookup can fall short only once a project has more main-line tasks      *)
(* behind it than the lookup visits.                                       *)
LineageIsCurrent ==
  \A id \in ActivePrimary(task), m \in PrimaryNodes :
    Position[m] < Position[id[1]] /\ Cardinality(Behind(id)) <= ChainLimit =>
      /\ NearestAncestor(id, m) = <<m, round[m]>>
      /\ m \in EvidenceNodes /\ IsRework(<<m, round[m]>>) => AncestorEvidence(id, m)

(* The year of reviews can always be finished: while the monthly review is *)
(* open a month is, and a project closes only when every month is done.    *)
OpenMonthRemains ==
  /\ \A id \in TaskIds :
       id[1] = "VISUAL_COLOR_DIFFERENCE_REVIEW" /\ task[id].active =>
         planned /\ months # Months
  /\ round["PROJECT_CLOSED"] > 0 => months = Months

(* No running project and no year of reviews is left without work.         *)
WorkRemains == MainLineAlive /\ OpenMonthRemains

-----------------------------------------------------------------------------
(* The engine implements the lifecycle it promises.  The stage is the      *)
(* project's node, which outlives the open main-line task; the number and  *)
(* the fee are read off their only task.                                   *)

Phase ==
  CASE instance.status = "COMPLETED" -> "CLOSED"
    [] instance.status = "RUNNING" /\ instance.node = NoNode -> "HALTED"
    [] OTHER -> "RUNNING"

Matter(n) ==
  LET t == task[<<n, 1>>]
  IN  CASE t.active             -> "OPEN"
        [] t.status = "NONE"    -> "NONE"
        [] OTHER                -> "DONE"

Lifecycle ==
  INSTANCE ProjectLifecycle
    WITH Periods  <- Months,
         stage    <- project.node,
         phase    <- Phase,
         number   <- Matter("COLOR_NUMBERING"),
         fee      <- Matter("DEVELOPMENT_ACCEPTANCE"),
         reviewed <- months

(* Whatever tasks, rounds and evidence do, the project moves only as the   *)
(* lifecycle allows: no stage is skipped, falls back elsewhere than a      *)
(* review sends it, or closes with a period unreviewed, and the number and *)
(* the fee are opened and settled once.                                    *)
ImplementsLifecycle == Lifecycle!LifecycleSpec

-----------------------------------------------------------------------------
(* Claims of the documents and messages of the repository that the code    *)
(* does not keep.                                                          *)

(* "A review node's decision must land where the backend decides": every   *)
(* decision of a running project leaves a main-line task to work on.       *)
EveryDecisionLands ==
  instance.status = "RUNNING" => ActivePrimary(task) # {}

(* "Parallel nodes can be executed independently": an open parallel task   *)
(* can be finished.                                                        *)
ParallelWorkFinishable ==
  \A id \in TaskIds :
    id[1] \in ParallelNodes /\ task[id].active => CanFinish(task, id, "COMPLETE")

(* "Choose the standard version of the board issued in this round": when   *)
(* the board of this round was issued, the open review of a linked project *)
(* has a version to choose.                                                *)
IssuedBoardServesReview ==
  \A id \in TaskIds :
    id[1] = "CAB_REVIEW" /\ task[id].active /\ linked /\ round["STANDARD_BOARD_PRODUCTION"] > 0
      /\ task[<<"STANDARD_BOARD_PRODUCTION", round["STANDARD_BOARD_PRODUCTION"]>>].records # {}
      => StandardVersionEligible(id)

=============================================================================
