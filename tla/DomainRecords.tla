--------------------------- MODULE DomainRecords ---------------------------
(***************************************************************************)
(* The business records a project's stages rest on: samples, procurements, *)
(* performance tests, standard boards and their details, first-unit plans, *)
(* trials, reviews, schedules and batches.  Each service creates its       *)
(* records under the open task of its stage, moves them through their      *)
(* statuses, and completes the stage when its records allow it.  Every     *)
(* handler takes the project's advisory lock and commits in one            *)
(* transaction (withProjectWrite), so a handler is one action and one that *)
(* throws is a disabled action.                                            *)
(*                                                                         *)
(* ProjectWorkflow has the engine in full and one bit per task for its     *)
(* records; here the records have their statuses and the engine is what a  *)
(* stage sees of it: the latest round of each node.  The nearest ancestor  *)
(* of a node is then that node's latest round (LineageIsCurrent there).    *)
(***************************************************************************)
EXTENDS Naturals, WorkflowNodes

CONSTANTS MaxRound,      \* bound: rounds of one node that are modelled
          DoubledNodes,  \* bound: the nodes with two records a round, not one
          OrdinaryTasks  \* bound: the tasks the ordinary completion is used on

ASSUME RecordBoundsAssumption ==
  /\ MaxRound \in Nat \ {0}
  /\ DoubledNodes \subseteq NodeCodes
  /\ OrdinaryTasks \subseteq NodeCodes \X (1 .. MaxRound)

VARIABLES task,      \* the latest round of each node
          rec,       \* the records, by node, round and number in the round
          standard,  \* the boards that carry a version of the project's colour
          linked,    \* the project has a primaryColorId
          required   \* the project requires an approved report

vars == <<task, rec, standard, linked, required>>

-----------------------------------------------------------------------------

(* The stages with records of their own; samples belong to the development. *)
RecordNodes ==
  {"PAINT_DEVELOPMENT", "PAINT_PROCUREMENT", "PERFORMANCE_TEST",
   "STANDARD_BOARD_PRODUCTION", "BOARD_DETAIL_UPDATE",
   "FIRST_UNIT_PRODUCTION_PLAN", "TRIAL_PRODUCTION", "CAB_REVIEW",
   "COLOR_CONSISTENCY_REVIEW", "MASS_PRODUCTION_PLAN", "MASS_PRODUCTION"}

Stages == RecordNodes \cup {"SAMPLE_COLOR_CONFIRMATION", "COLOR_NUMBERING"}

Keys == {k \in RecordNodes \X (1 .. MaxRound) \X {1, 2} : k[3] = 1 \/ k[1] \in DoubledNodes}
NoKey == <<"NONE", 0, 0>>

Statuses ==
  {"NONE", "DRAFT", "IN_PREPARATION", "CONFIRMED", "ORDERED", "ARRIVED", "CANCELLED",
   "SUBMITTED", "CREATED", "ISSUED", "PENDING", "UPDATED", "PLANNED", "COMPLETED",
   "IN_PROGRESS", "JUDGED", "ENDORSED", "OBJECTED"}

Records == [status  : Statuses,
            current : BOOLEAN,               \* isCurrent of a sample or a board
            about   : Keys \cup {NoKey}]     \* plan of a trial, trial of a review, board of a detail

NoRecord == [status |-> "NONE", current |-> FALSE, about |-> NoKey]

Tasks == [round : 0 .. MaxRound, status : {"NONE", "OPEN", "DONE", "BACK", "CANCELLED"},
          technical : BOOLEAN, invalid : BOOLEAN]

TypeOK ==
  /\ task \in [Stages -> Tasks]
  /\ rec \in [Keys -> Records]
  /\ standard \subseteq Keys
  /\ linked \in BOOLEAN
  /\ required \in BOOLEAN

Kept(n)      == {k \in Keys : k[1] = n /\ rec[k].status # "NONE"}
Latest(n)    == {k \in Kept(n) : k[2] = task[n].round}
In(ks, ss)   == {k \in ks : rec[k].status \in ss}
Open(n)      == task[n].status = "OPEN"
Rework(n)    == task[n].round > 1 \/ task[n].technical

ConfirmedPlan == {"PLANNED", "COMPLETED"}

(* The next free record of the open round of n.                            *)
Free(n) ==
  {k \in Keys : k[1] = n /\ k[2] = task[n].round /\ rec[k].status = "NONE"
                /\ (k[3] = 2 => rec[<<n, k[2], 1>>].status # "NONE")}

-----------------------------------------------------------------------------
(* The engine, as the stages see it.                                       *)

ConsistencyReturn(n, a) ==
  n = "COLOR_CONSISTENCY_REVIEW" /\ a \in {"REJECT", "RETURN"}

Created(n, a) ==
  {m \in NextNodes(n, a) \cap Stages : ~(m \in OnceNodes /\ task[m].round > 0)}

(* A finishing action: the task is closed, a consistency return sends the  *)
(* technical stages back, and the next stages open in a new round.         *)
Finish(n, a) ==
  LET technical == ConsistencyReturn(n, a) \/ task[n].technical
  IN  /\ Open(n)
      /\ \A m \in Created(n, a) : ~Open(m) \/ (ConsistencyReturn(n, a) /\ m \in TechnicalNodes)
      /\ \A m \in Created(n, a) : task[m].round < MaxRound
      /\ task' = [m \in Stages |->
           IF m \in Created(n, a)
           THEN [round |-> task[m].round + 1, status |-> "OPEN",
                 technical |-> technical, invalid |-> FALSE]
           ELSE IF m = n
           THEN [task[m] EXCEPT !.status = IF Concludes(n, a) THEN "DONE" ELSE "BACK"]
           ELSE IF ConsistencyReturn(n, a) /\ m \in TechnicalNodes
           THEN [task[m] EXCEPT !.status = IF Open(m) THEN "CANCELLED" ELSE @,
                                !.invalid = TRUE]
           ELSE task[m]]

(* getTechnicalReworkCompletionIssues: the record of its own round a       *)
(* reworked stage, and every paint development, rests on.                  *)
OwnProof(n) ==
  CASE n = "PAINT_DEVELOPMENT" ->
         \E k \in In(Latest(n), {"IN_PREPARATION", "CONFIRMED"}) : rec[k].current
    [] n = "PAINT_PROCUREMENT" -> In(Latest(n), {"ARRIVED"}) # {}
    [] n = "STANDARD_BOARD_PRODUCTION" -> \E k \in In(Latest(n), {"ISSUED"}) : rec[k].current
    [] n = "BOARD_DETAIL_UPDATE" ->
         \E k \in In(Latest(n), {"UPDATED"}) :
           /\ rec[k].about \in In(Latest("STANDARD_BOARD_PRODUCTION"), {"ISSUED"})
           /\ rec[rec[k].about].current
    [] n = "PERFORMANCE_TEST" -> In(Latest(n), {"SUBMITTED"}) # {}
    [] n = "FIRST_UNIT_PRODUCTION_PLAN" -> In(Latest(n), ConfirmedPlan) # {}
    [] n = "TRIAL_PRODUCTION" ->
         \E k \in In(Latest(n), {"JUDGED"}) :
           task[n].technical =>
             rec[k].about \in In(Latest("FIRST_UNIT_PRODUCTION_PLAN"), ConfirmedPlan)
    [] OTHER -> TRUE

(* A current issued board that carries a version of the linked colour.     *)
StandardIssued ==
  \E k \in In(Kept("STANDARD_BOARD_PRODUCTION"), {"ISSUED"}) : rec[k].current /\ k \in standard

(* Everything the engine asks of the records when a stage is completed.    *)
EngineAllows(n) ==
  /\ Rework(n) \/ n = "PAINT_DEVELOPMENT" => OwnProof(n)
  /\ n = "FIRST_UNIT_PRODUCTION_PLAN" => In(Kept(n), ConfirmedPlan) # {}
  /\ n = "TRIAL_PRODUCTION" => In(Kept(n), {"JUDGED"}) # {}
  /\ n = "STANDARD_BOARD_PRODUCTION" /\ linked => StandardIssued

(* The ordinary completion asks what the engine asks and nothing more; it  *)
(* approves a sample only where no approved report is required.            *)
CompleteOrdinarily(n) ==
  /\ <<n, task[n].round>> \in OrdinaryTasks
  /\ \/ n \in {"PAINT_DEVELOPMENT", "PAINT_PROCUREMENT", "PERFORMANCE_TEST",
               "STANDARD_BOARD_PRODUCTION", "BOARD_DETAIL_UPDATE",
               "FIRST_UNIT_PRODUCTION_PLAN", "TRIAL_PRODUCTION"}
        /\ EngineAllows(n) /\ Finish(n, "COMPLETE")
     \/ n = "SAMPLE_COLOR_CONFIRMATION" /\ ~required /\ Finish(n, "APPROVE")
  /\ UNCHANGED <<rec, standard, linked, required>>

(* Its completion of the numbering links the project, whatever records     *)
(* exist by then.                                                          *)
NumberColor ==
  /\ Finish("COLOR_NUMBERING", "COMPLETE")
  /\ linked' = TRUE
  /\ UNCHANGED <<rec, standard, required>>

(* ProjectColorLinkService.link: refused once boards, reviews or plans exist. *)
LinkColor ==
  /\ ~linked
  /\ \A n \in {"STANDARD_BOARD_PRODUCTION", "FIRST_UNIT_PRODUCTION_PLAN", "CAB_REVIEW",
               "COLOR_CONSISTENCY_REVIEW", "MASS_PRODUCTION"} : Kept(n) = {}
  /\ linked' = TRUE
  /\ UNCHANGED <<task, rec, standard, required>>

-----------------------------------------------------------------------------
(* Samples.  A sample is written under the open paint development and      *)
(* signed under the open sample confirmation.                              *)

Put(k, status, about) == [rec EXCEPT ![k] = [status |-> status, current |-> FALSE, about |-> about]]

(* A handler that changes records only.                                    *)
Only == UNCHANGED <<task, standard, linked, required>>

Sample(status) == [status |-> status, current |-> TRUE, about |-> NoKey]

CreateSample(k, status) ==
  /\ Open("PAINT_DEVELOPMENT")
  /\ k \in Free("PAINT_DEVELOPMENT")
  /\ rec' = [rec EXCEPT ![k] = Sample(status)]
  /\ Only

(* A new version of the number whose current version is o.                 *)
CreateSampleVersion(k, o, status) ==
  /\ Open("PAINT_DEVELOPMENT")
  /\ k \in Free("PAINT_DEVELOPMENT")
  /\ o \in Kept("PAINT_DEVELOPMENT") /\ rec[o].current
  /\ rec' = [rec EXCEPT ![k] = Sample(status), ![o].current = FALSE]
  /\ Only

SampleWritable(k) ==
  k \in In(Kept("PAINT_DEVELOPMENT"), {"DRAFT", "IN_PREPARATION"}) /\ rec[k].current

(* The production date, set or taken away, decides the status.             *)
UpdateSample(k, status) ==
  /\ Open("PAINT_DEVELOPMENT")
  /\ SampleWritable(k)
  /\ rec' = [rec EXCEPT ![k].status = status]
  /\ Only

(* submitConfirmation: a sample of this round when the report is required  *)
(* or the confirmation is rework.                                          *)
ConfirmSample(k, a) ==
  /\ SampleWritable(k)
  /\ required \/ Rework("SAMPLE_COLOR_CONFIRMATION") => k \in Latest("PAINT_DEVELOPMENT")
  /\ rec' = [rec EXCEPT ![k].status = IF a = "APPROVE" THEN "CONFIRMED" ELSE "IN_PREPARATION"]
  /\ Finish("SAMPLE_COLOR_CONFIRMATION", a)
  /\ UNCHANGED <<standard, linked, required>>

-----------------------------------------------------------------------------
(* The records of the other stages: created under the open task, moved     *)
(* along while one is open, whichever round they were created in.          *)

Create(n, k, status, about) ==
  /\ Open(n)
  /\ k \in Free(n)
  /\ rec' = Put(k, status, about)
  /\ Only

Move(n, k, from, to) ==
  /\ Open(n)
  /\ k \in In(Kept(n), from)
  /\ rec' = [rec EXCEPT ![k].status = to]
  /\ Only

CreateProcurement(k) == Create("PAINT_PROCUREMENT", k, "DRAFT", NoKey)
OrderProcurement(k)  == Move("PAINT_PROCUREMENT", k, {"DRAFT"}, "ORDERED")
MarkArrived(k)       == Move("PAINT_PROCUREMENT", k, {"ORDERED"}, "ARRIVED")
CancelProcurement(k) == Move("PAINT_PROCUREMENT", k, {"DRAFT", "ORDERED"}, "CANCELLED")

CreateTest(k) == Create("PERFORMANCE_TEST", k, "DRAFT", NoKey)
SubmitTest(k) == Move("PERFORMANCE_TEST", k, {"DRAFT"}, "SUBMITTED")

CreatePlan(k)  == Create("FIRST_UNIT_PRODUCTION_PLAN", k, "DRAFT", NoKey)
ConfirmPlan(k) == Move("FIRST_UNIT_PRODUCTION_PLAN", k, {"DRAFT"}, "PLANNED")

(* A trial names no plan, or a confirmed plan of any round.  It is PLANNED *)
(* while it can be edited and JUDGED when it passed or failed: no rule     *)
(* tells PLANNED from IN_PROGRESS or PASSED from FAILED.                   *)
PlanChoices == In(Kept("FIRST_UNIT_PRODUCTION_PLAN"), ConfirmedPlan) \cup {NoKey}

CreateTrial(k, plan) ==
  /\ plan \in PlanChoices
  /\ Create("TRIAL_PRODUCTION", k, "PLANNED", plan)

UpdateTrial(k, plan) ==
  /\ Open("TRIAL_PRODUCTION")
  /\ k \in In(Kept("TRIAL_PRODUCTION"), {"PLANNED"})
  /\ plan \in PlanChoices
  /\ rec' = [rec EXCEPT ![k].about = plan]
  /\ Only

CompleteTrial(k) == Move("TRIAL_PRODUCTION", k, {"PLANNED"}, "JUDGED")

CreateSchedule(k)  == Create("MASS_PRODUCTION_PLAN", k, "DRAFT", NoKey)
ConfirmSchedule(k) == Move("MASS_PRODUCTION_PLAN", k, {"DRAFT"}, "CONFIRMED")
CancelSchedule(k)  == Move("MASS_PRODUCTION_PLAN", k, {"DRAFT", "CONFIRMED"}, "CANCELLED")

CreateBatch(k)   == Create("MASS_PRODUCTION", k, "DRAFT", NoKey)
StartBatch(k)    == Move("MASS_PRODUCTION", k, {"DRAFT"}, "IN_PROGRESS")
CompleteBatch(k) == Move("MASS_PRODUCTION", k, {"IN_PROGRESS"}, "COMPLETED")
CancelBatch(k)   == Move("MASS_PRODUCTION", k, {"DRAFT", "IN_PROGRESS"}, "CANCELLED")

(* The services' own completions of these stages: a record of the project  *)
(* is asked for, of whatever round, and then what the engine asks.         *)
CompleteStage(n, qualifying) ==
  /\ In(Kept(n), qualifying) # {}
  /\ EngineAllows(n)
  /\ Finish(n, "COMPLETE")
  /\ UNCHANGED <<rec, standard, linked, required>>

CompleteProcurementTask == CompleteStage("PAINT_PROCUREMENT", {"ARRIVED"})
CompleteTestTask        == CompleteStage("PERFORMANCE_TEST", {"SUBMITTED"})
CompleteTrialTask       == CompleteStage("TRIAL_PRODUCTION", {"JUDGED"})
CompleteScheduleTask    == CompleteStage("MASS_PRODUCTION_PLAN", {"CONFIRMED"})
CompleteBatchTask       == CompleteStage("MASS_PRODUCTION", {"COMPLETED"})
CompleteDetailTask      == CompleteStage("BOARD_DETAIL_UPDATE", {"UPDATED"})

(* Mutant: the service trusts its own question and skips the engine's.     *)
CompletePlanTaskTrusting ==
  /\ In(Kept("FIRST_UNIT_PRODUCTION_PLAN"), ConfirmedPlan) # {}
  /\ Finish("FIRST_UNIT_PRODUCTION_PLAN", "COMPLETE")
  /\ UNCHANGED <<rec, standard, linked, required>>

(* completeFirstProductionPlanTask also closes every confirmed plan.       *)
CompletePlanTask ==
  LET plans == In(Kept("FIRST_UNIT_PRODUCTION_PLAN"), {"PLANNED"})
  IN  /\ In(Kept("FIRST_UNIT_PRODUCTION_PLAN"), ConfirmedPlan) # {}
      /\ EngineAllows("FIRST_UNIT_PRODUCTION_PLAN")
      /\ rec' = [k \in Keys |-> IF k \in plans THEN [rec[k] EXCEPT !.status = "COMPLETED"] ELSE rec[k]]
      /\ Finish("FIRST_UNIT_PRODUCTION_PLAN", "COMPLETE")
      /\ UNCHANGED <<standard, linked, required>>

-----------------------------------------------------------------------------
(* Standard boards.                                                        *)

Boards == Kept("STANDARD_BOARD_PRODUCTION")

(* The records with board k, and no other, current.                        *)
OnlyCurrent(rs, k) ==
  [b \in Keys |-> IF b[1] = "STANDARD_BOARD_PRODUCTION" THEN [rs[b] EXCEPT !.current = (b = k)] ELSE rs[b]]

(* saveAndPublish, of a linked project: a new version of the colour and a  *)
(* board that carries it, made and current at once.                        *)
PublishBoard(k) ==
  /\ linked
  /\ Open("STANDARD_BOARD_PRODUCTION")
  /\ k \in Free("STANDARD_BOARD_PRODUCTION")
  /\ rec' = OnlyCurrent(Put(k, "CREATED", NoKey), k)
  /\ standard' = standard \cup {k}
  /\ UNCHANGED <<task, linked, required>>

(* Mutant: the new board of an unlinked project is always current.         *)
CreateBoardCurrent(k) ==
  /\ ~linked
  /\ Open("STANDARD_BOARD_PRODUCTION")
  /\ k \in Free("STANDARD_BOARD_PRODUCTION")
  /\ rec' = [rec EXCEPT ![k] = [status |-> "DRAFT", current |-> TRUE, about |-> NoKey]]
  /\ Only

(* createStandardBoard, of an unlinked project: current only if none is.   *)
CreateBoard(k) ==
  /\ ~linked
  /\ Open("STANDARD_BOARD_PRODUCTION")
  /\ k \in Free("STANDARD_BOARD_PRODUCTION")
  /\ rec' = [rec EXCEPT ![k] = [status  |-> "DRAFT",
                                current |-> \A b \in Boards : ~rec[b].current,
                                about   |-> NoKey]]
  /\ Only

(* Mutant: the current board is chosen whatever stage the project is in.   *)
SetCurrentAnyTime(k) ==
  /\ k \in Boards
  /\ rec' = OnlyCurrent(rec, k)
  /\ Only

SetCurrentBoard(k) ==
  /\ Open("STANDARD_BOARD_PRODUCTION")
  /\ k \in Boards
  /\ rec' = OnlyCurrent(rec, k)
  /\ Only

MarkCreated(k) == Move("STANDARD_BOARD_PRODUCTION", k, {"DRAFT"}, "CREATED")

IssueBoard(k) ==
  /\ linked => k \in standard
  /\ Move("STANDARD_BOARD_PRODUCTION", k, {"CREATED"}, "ISSUED")

CompleteBoardTask ==
  /\ linked => StandardIssued
  /\ CompleteStage("STANDARD_BOARD_PRODUCTION", {"ISSUED"})

(* createColorBoardDetailUpdate: any board of the project, but for rework  *)
(* the current issued board of this round.                                 *)
CreateDetail(k, b, status) ==
  /\ b \in Boards
  /\ Rework("BOARD_DETAIL_UPDATE")
       => b \in In(Latest("STANDARD_BOARD_PRODUCTION"), {"ISSUED"}) /\ rec[b].current
  /\ Create("BOARD_DETAIL_UPDATE", k, status, b)

-----------------------------------------------------------------------------
(* The cabin and the consistency review.  No board is an ancestor of a     *)
(* review, so no linked project can choose a standard version for one      *)
(* (IssuedBoardServesReview of ProjectWorkflow) and none is created there. *)

ReviewedNodes == {"CAB_REVIEW", "COLOR_CONSISTENCY_REVIEW"}

(* Mutant: a reworked cabin is reviewed on any completed trial.            *)
AnyTrial ==
  In(Kept("TRIAL_PRODUCTION"), {"JUDGED"})

(* getLatestCompletedTrialProductionOrThrow: a trial of this round for a   *)
(* rework, with a plan of this round after a consistency return; the code  *)
(* takes the most recent one, here it is any.                              *)
ReviewableTrials ==
  {t \in In(Kept("TRIAL_PRODUCTION"), {"JUDGED"}) :
     /\ Rework("CAB_REVIEW") => t \in Latest("TRIAL_PRODUCTION")
     /\ task["CAB_REVIEW"].technical =>
          rec[t].about \in In(Latest("FIRST_UNIT_PRODUCTION_PLAN"), ConfirmedPlan)}

CreateCabinReview(k, t) ==
  /\ ~linked
  /\ t \in ReviewableTrials
  /\ Create("CAB_REVIEW", k, "DRAFT", t)

CreateConsistencyReview(k) ==
  /\ ~linked
  /\ Create("COLOR_CONSISTENCY_REVIEW", k, "DRAFT", NoKey)

(* A review belongs to the task it was created under, and can be worked on *)
(* under that task only.  Its verdict is fixed when it is submitted.       *)
SubmitReview(n, k, verdict) ==
  /\ k \in Latest(n)
  /\ Move(n, k, {"DRAFT"}, verdict)

DecideReview(n, k, a) ==
  /\ k \in In(Latest(n), {IF a = "APPROVE" THEN "ENDORSED" ELSE "OBJECTED"})
  /\ Finish(n, a)
  /\ UNCHANGED <<rec, standard, linked, required>>

-----------------------------------------------------------------------------

(* A project whose development report was just registered.                 *)
Init ==
  /\ task = [n \in Stages |->
               [round |-> IF n = "PAINT_DEVELOPMENT" THEN 1 ELSE 0,
                status |-> IF n = "PAINT_DEVELOPMENT" THEN "OPEN" ELSE "NONE",
                technical |-> FALSE, invalid |-> FALSE]]
  /\ rec = [k \in Keys |-> NoRecord]
  /\ standard = {}
  /\ linked \in BOOLEAN
  /\ required = linked

SampleStep ==
  \/ \E status \in {"DRAFT", "IN_PREPARATION"} :
       \/ \E k \in Free("PAINT_DEVELOPMENT") :
            \/ CreateSample(k, status)
            \/ \E o \in Kept("PAINT_DEVELOPMENT") : CreateSampleVersion(k, o, status)
       \/ \E k \in Kept("PAINT_DEVELOPMENT") : UpdateSample(k, status)
  \/ \E k \in Kept("PAINT_DEVELOPMENT"), a \in ReviewActions : ConfirmSample(k, a)

SupplyStep ==
  \/ \E k \in Free("PAINT_PROCUREMENT") : CreateProcurement(k)
  \/ \E k \in Kept("PAINT_PROCUREMENT") : OrderProcurement(k) \/ MarkArrived(k) \/ CancelProcurement(k)
  \/ \E k \in Free("PERFORMANCE_TEST") : CreateTest(k)
  \/ \E k \in Kept("PERFORMANCE_TEST") : SubmitTest(k)
  \/ CompleteProcurementTask
  \/ CompleteTestTask

BoardStep ==
  \/ \E k \in Free("STANDARD_BOARD_PRODUCTION") : PublishBoard(k) \/ CreateBoard(k)
  \/ \E k \in Boards : SetCurrentBoard(k) \/ MarkCreated(k) \/ IssueBoard(k)
  \/ \E k \in Free("BOARD_DETAIL_UPDATE"), b \in Boards, status \in {"PENDING", "UPDATED"} :
       CreateDetail(k, b, status)
  \/ CompleteBoardTask
  \/ CompleteDetailTask

ProductionStep ==
  \/ \E k \in Free("FIRST_UNIT_PRODUCTION_PLAN") : CreatePlan(k)
  \/ \E k \in Kept("FIRST_UNIT_PRODUCTION_PLAN") : ConfirmPlan(k)
  \/ \E k \in Free("TRIAL_PRODUCTION"), plan \in PlanChoices : CreateTrial(k, plan)
  \/ \E k \in Kept("TRIAL_PRODUCTION"), plan \in PlanChoices : UpdateTrial(k, plan)
  \/ \E k \in Kept("TRIAL_PRODUCTION") : CompleteTrial(k)
  \/ \E k \in Free("MASS_PRODUCTION_PLAN") : CreateSchedule(k)
  \/ \E k \in Kept("MASS_PRODUCTION_PLAN") : ConfirmSchedule(k) \/ CancelSchedule(k)
  \/ \E k \in Free("MASS_PRODUCTION") : CreateBatch(k)
  \/ \E k \in Kept("MASS_PRODUCTION") : StartBatch(k) \/ CompleteBatch(k) \/ CancelBatch(k)
  \/ CompletePlanTask
  \/ CompleteTrialTask
  \/ CompleteScheduleTask
  \/ CompleteBatchTask

ReviewStep ==
  \/ \E k \in Free("CAB_REVIEW"), t \in ReviewableTrials : CreateCabinReview(k, t)
  \/ \E k \in Free("COLOR_CONSISTENCY_REVIEW") : CreateConsistencyReview(k)
  \/ \E n \in ReviewedNodes : \E k \in Kept(n) :
       \/ \E verdict \in {"ENDORSED", "OBJECTED"} : SubmitReview(n, k, verdict)
       \/ \E a \in {"APPROVE", "REJECT"} : DecideReview(n, k, a)

Next ==
  \/ SampleStep
  \/ SupplyStep
  \/ BoardStep
  \/ ProductionStep
  \/ ReviewStep
  \/ \E n \in Stages : CompleteOrdinarily(n)
  \/ NumberColor
  \/ LinkColor

Spec == Init /\ [][Next]_vars

-----------------------------------------------------------------------------
(* Properties.                                                             *)

(* What a stage was completed on stays: whatever is edited, versioned, made *)
(* current or cancelled under other stages, a reworked stage that was      *)
(* completed and not sent back still has the qualifying record of its own  *)
(* round, and so has every paint development.                              *)
ProofStands ==
  \A n \in RecordNodes :
    /\ task[n].status = "DONE" /\ ~task[n].invalid
    /\ Rework(n) \/ n = "PAINT_DEVELOPMENT"
    => OwnProof(n)

(* No stage opens without what its own rules will ask of the stages before *)
(* it: the confirmation has a sample it may sign, a reworked detail the    *)
(* board it must describe, a trial after a consistency return the plan it  *)
(* must name, and a cabin review a trial it may judge.                     *)
NoStageStarves ==
  /\ Open("SAMPLE_COLOR_CONFIRMATION") =>
       \E k \in Latest("PAINT_DEVELOPMENT") : SampleWritable(k)
  /\ Open("BOARD_DETAIL_UPDATE") /\ Rework("BOARD_DETAIL_UPDATE") =>
       \E b \in In(Latest("STANDARD_BOARD_PRODUCTION"), {"ISSUED"}) : rec[b].current
  /\ Open("TRIAL_PRODUCTION") =>
       In(Latest("FIRST_UNIT_PRODUCTION_PLAN"), ConfirmedPlan) # {}
  /\ Open("CAB_REVIEW") => ReviewableTrials # {}

(* Series production rests on one chain of records of the current rounds:  *)
(* every cabin review of the latest round that was not sent back judges a  *)
(* completed trial of the latest round, after a consistency return one run *)
(* on a confirmed plan of the latest round with paint bought for it; and   *)
(* past the cabin review one of these reviews is an endorsement.           *)
SeriesRestsOnRound ==
  LET cabin == task["CAB_REVIEW"]
  IN  /\ ~cabin.invalid /\ cabin.status \in {"OPEN", "DONE"} =>
           \A k \in Latest("CAB_REVIEW") :
             LET t == rec[k].about
             IN  /\ t \in In(Latest("TRIAL_PRODUCTION"), {"JUDGED"})
                 /\ cabin.technical =>
                      /\ rec[t].about \in In(Latest("FIRST_UNIT_PRODUCTION_PLAN"), ConfirmedPlan)
                      /\ In(Latest("PAINT_PROCUREMENT"), {"ARRIVED"}) # {}
      /\ (\E n \in {"COLOR_CONSISTENCY_REVIEW", "MASS_PRODUCTION_PLAN", "MASS_PRODUCTION"} : Open(n)) =>
           cabin.status = "DONE" /\ In(Latest("CAB_REVIEW"), {"ENDORSED"}) # {}

(* Whichever way boards are made, published and chosen, a project that has *)
(* boards has exactly one current board.                                   *)
OneCurrentBoard ==
  Boards # {} => \E b \in Boards : rec[b].current /\ \A c \in Boards : rec[c].current => c = b

=============================================================================
