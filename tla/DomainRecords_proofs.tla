------------------------ MODULE DomainRecords_proofs ------------------------
(***************************************************************************)
(* Proofs about DomainRecords, for any number of rounds, whichever nodes   *)
(* have two records a round and whichever tasks are completed the ordinary *)
(* way.                                                                    *)
(***************************************************************************)
EXTENDS DomainRecords, TLAPS

-----------------------------------------------------------------------------
(* The inductive invariant.                                                *)

(* Not open, and not resting on anything any more.                         *)
Idle(n) == task[n].status # "OPEN" /\ (task[n].status = "DONE" => task[n].invalid)

(* Pairs of which the second is idle while the first is open: whoever can  *)
(* still change what the second rests on comes before it.                  *)
Later ==
  {"STANDARD_BOARD_PRODUCTION", "BOARD_DETAIL_UPDATE", "FIRST_UNIT_PRODUCTION_PLAN",
   "TRIAL_PRODUCTION", "CAB_REVIEW"}

Ahead ==
  ({"PAINT_DEVELOPMENT", "SAMPLE_COLOR_CONFIRMATION", "PAINT_PROCUREMENT"} \X Later)
  \cup {<<"FIRST_UNIT_PRODUCTION_PLAN", "TRIAL_PRODUCTION">>,
        <<"FIRST_UNIT_PRODUCTION_PLAN", "CAB_REVIEW">>,
        <<"TRIAL_PRODUCTION", "CAB_REVIEW">>,
        <<"STANDARD_BOARD_PRODUCTION", "BOARD_DETAIL_UPDATE">>}

MainStages == Stages \cap PrimaryNodes

(* The engine: one main-line stage is open, what comes after an open stage *)
(* is idle, and a detail or a cabin review has no more rounds than what it *)
(* follows.                                                                *)
EngineInv ==
  /\ \A m, n \in MainStages : Open(m) /\ Open(n) => m = n
  /\ \A m, n \in Stages : <<m, n>> \in Ahead /\ Open(m) => Idle(n)
  /\ task["BOARD_DETAIL_UPDATE"].round <= task["STANDARD_BOARD_PRODUCTION"].round
  /\ Open("STANDARD_BOARD_PRODUCTION") =>
       task["BOARD_DETAIL_UPDATE"].round < task["STANDARD_BOARD_PRODUCTION"].round
  /\ task["TRIAL_PRODUCTION"].round =
       task["CAB_REVIEW"].round + (IF Open("TRIAL_PRODUCTION") THEN 1 ELSE 0)

(* No record belongs to a round that has not begun.                        *)
NoFuture == \A k \in Keys : rec[k].status # "NONE" => k[2] <= task[k[1]].round

(* A sample is confirmed with the confirmation of its round.               *)
Unconfirmed ==
  Open("PAINT_DEVELOPMENT") \/ Open("SAMPLE_COLOR_CONFIRMATION") =>
    In(Latest("PAINT_DEVELOPMENT"), {"CONFIRMED"}) = {}

(* The plan a trial or a cabin review follows is confirmed.                *)
PlanStands ==
  Open("TRIAL_PRODUCTION") \/ Open("CAB_REVIEW") =>
    In(Latest("FIRST_UNIT_PRODUCTION_PLAN"), ConfirmedPlan) # {}

(* What follows a reworked procurement has its paint.                      *)
PaintArrived ==
  \A n \in {"FIRST_UNIT_PRODUCTION_PLAN", "TRIAL_PRODUCTION", "CAB_REVIEW"} :
    ~Idle(n) /\ task[n].technical => In(Latest("PAINT_PROCUREMENT"), {"ARRIVED"}) # {}

RecordsInv ==
  /\ TypeOK
  /\ EngineInv
  /\ NoFuture
  /\ Unconfirmed
  /\ PlanStands
  /\ PaintArrived
  /\ ProofStands
  /\ NoStageStarves
  /\ SeriesRestsOnRound
  /\ OneCurrentBoard

-----------------------------------------------------------------------------
(* The topology: what opens each stage.                                    *)

(* A decision that goes back does not also go on.                          *)
LEMMA OneWay ==
  ASSUME NEW n, NEW a
  PROVE  ~(Concludes(n, a) /\ SendsBack(n, a))
BY DEF Concludes, SendsBack, ReviewNodes, CompletionActions

LEMMA Openers ==
  ASSUME NEW n \in Stages, NEW a, NEW m \in Created(n, a)
  PROVE  /\ m \in Stages
         /\ m # n
         /\ m = "PAINT_DEVELOPMENT" =>
              n = "SAMPLE_COLOR_CONFIRMATION" \/ ConsistencyReturn(n, a)
         /\ m = "SAMPLE_COLOR_CONFIRMATION" => n = "PAINT_DEVELOPMENT"
         /\ m = "PAINT_PROCUREMENT" => n = "SAMPLE_COLOR_CONFIRMATION"
         /\ m = "STANDARD_BOARD_PRODUCTION" => n = "PAINT_PROCUREMENT"
         /\ m = "PERFORMANCE_TEST" => n = "PAINT_PROCUREMENT"
         /\ m = "FIRST_UNIT_PRODUCTION_PLAN" => n = "PAINT_PROCUREMENT"
         /\ m = "BOARD_DETAIL_UPDATE" => n = "STANDARD_BOARD_PRODUCTION"
         /\ m = "TRIAL_PRODUCTION" =>
              n = "FIRST_UNIT_PRODUCTION_PLAN" \/ (n = "CAB_REVIEW" /\ ~Concludes(n, a))
         /\ m = "CAB_REVIEW" => n = "TRIAL_PRODUCTION"
         /\ m = "COLOR_CONSISTENCY_REVIEW" => n = "CAB_REVIEW" /\ Concludes(n, a)
         /\ m = "MASS_PRODUCTION_PLAN" => n = "COLOR_CONSISTENCY_REVIEW" /\ Concludes(n, a)
         /\ m = "MASS_PRODUCTION" => n = "MASS_PRODUCTION_PLAN"
<1>1. m \in Stages /\ m \in NextNodes(n, a)
  BY DEF Created
<1>2. (<<n, m>> \in ForwardEdges /\ Concludes(n, a)) \/ (<<n, m>> \in BackEdges /\ SendsBack(n, a))
  BY <1>1 DEF NextNodes
<1>3. CASE <<n, m>> \in ForwardEdges /\ Concludes(n, a)
  BY <1>1, <1>3 DEF ForwardEdges, Stages, RecordNodes
<1>4. CASE <<n, m>> \in BackEdges /\ SendsBack(n, a)
  <2>1. ~Concludes(n, a)
    BY <1>4, OneWay
  <2>2. n = "COLOR_CONSISTENCY_REVIEW" => ConsistencyReturn(n, a)
    BY <1>4 DEF SendsBack, ConsistencyReturn
  <2>. QED
    BY <1>1, <1>4, <2>1, <2>2 DEF BackEdges, Stages, RecordNodes
<1>. QED
  BY <1>2, <1>3, <1>4

(* No decision opens two main-line stages, and a parallel one opens none.  *)
LEMMA OneMainOpened ==
  ASSUME NEW n \in Stages, NEW a,
         NEW m \in Created(n, a), m \in MainStages
  PROVE  /\ n \in MainStages
         /\ \A l \in Created(n, a) : l \in MainStages => l = m
<1>1. \A l \in Created(n, a) : l \in Stages /\ l \in NextNodes(n, a)
  BY DEF Created
<1>2. \A l \in Created(n, a) :
        (<<n, l>> \in ForwardEdges /\ Concludes(n, a)) \/ (<<n, l>> \in BackEdges /\ SendsBack(n, a))
  BY <1>1 DEF NextNodes
<1>3. CASE Concludes(n, a)
  <2>1. \A l \in Created(n, a) : <<n, l>> \in ForwardEdges
    BY <1>2, <1>3, OneWay
  <2>. QED
    BY <2>1 DEF ForwardEdges, MainStages, PrimaryNodes, Stages, RecordNodes
<1>4. CASE ~Concludes(n, a)
  <2>1. \A l \in Created(n, a) : <<n, l>> \in BackEdges
    BY <1>2, <1>4
  <2>. QED
    BY <2>1 DEF BackEdges, MainStages, PrimaryNodes, Stages, RecordNodes
<1>. QED
  BY <1>3, <1>4

(* What a finishing action does to each task.                              *)
LEMMA FinishTasks ==
  ASSUME TypeOK, NEW n \in Stages, NEW a, Finish(n, a)
  PROVE  /\ Open(n)
         /\ task' \in [Stages -> Tasks]
         /\ \A m \in Created(n, a) :
              /\ task'[m].round = task[m].round + 1
              /\ task'[m].status = "OPEN"
              /\ task'[m].technical = (ConsistencyReturn(n, a) \/ task[n].technical)
              /\ ~task'[m].invalid
         /\ /\ task'[n].round = task[n].round
            /\ task'[n].technical = task[n].technical
            /\ task'[n].invalid = task[n].invalid
            /\ task'[n].status = IF Concludes(n, a) THEN "DONE" ELSE "BACK"
         /\ \A m \in Stages : m \notin Created(n, a) /\ m # n /\ ConsistencyReturn(n, a) /\ m \in TechnicalNodes =>
              /\ task'[m].round = task[m].round
              /\ task'[m].technical = task[m].technical
              /\ task'[m].status # "OPEN"
              /\ task'[m].status \in {task[m].status, "CANCELLED"}
              /\ task'[m].invalid
         /\ \A m \in Stages : m \notin Created(n, a) /\ m # n /\ ~(ConsistencyReturn(n, a) /\ m \in TechnicalNodes) =>
              task'[m] = task[m]
<1>. DEFINE technical == ConsistencyReturn(n, a) \/ task[n].technical
            new(m) ==
              IF m \in Created(n, a)
              THEN [round |-> task[m].round + 1, status |-> "OPEN",
                    technical |-> technical, invalid |-> FALSE]
              ELSE IF m = n
              THEN [task[m] EXCEPT !.status = IF Concludes(n, a) THEN "DONE" ELSE "BACK"]
              ELSE IF ConsistencyReturn(n, a) /\ m \in TechnicalNodes
              THEN [task[m] EXCEPT !.status = IF Open(m) THEN "CANCELLED" ELSE @,
                                   !.invalid = TRUE]
              ELSE task[m]
<1>1. /\ Open(n)
      /\ \A m \in Created(n, a) : task[m].round < MaxRound
      /\ task' = [m \in Stages |-> new(m)]
  BY DEF Finish
<1>2. \A m \in Stages : task[m] \in Tasks
  BY DEF TypeOK
<1>3. \A m \in Stages : task'[m] = new(m)
  BY <1>1
<1>. HIDE DEF new
<1>4. technical \in BOOLEAN
  BY <1>2 DEF ConsistencyReturn, Tasks
<1>5. \A m \in Created(n, a) :
        /\ m \in Stages /\ m # n
        /\ task'[m] = [round |-> task[m].round + 1, status |-> "OPEN",
                       technical |-> technical, invalid |-> FALSE]
        /\ task'[m] \in Tasks
  <2>. SUFFICES ASSUME NEW m \in Created(n, a)
                PROVE  /\ m \in Stages /\ m # n
                       /\ task'[m] = [round |-> task[m].round + 1, status |-> "OPEN",
                                      technical |-> technical, invalid |-> FALSE]
                       /\ task'[m] \in Tasks
    OBVIOUS
  <2>1. m \in Stages /\ m # n
    BY Openers
  <2>2. task'[m] = [round |-> task[m].round + 1, status |-> "OPEN",
                    technical |-> technical, invalid |-> FALSE]
    BY <2>1, <1>3 DEF new
  <2>3. task[m].round + 1 \in 0 .. MaxRound
    <3>1. task[m].round \in 0 .. MaxRound /\ task[m].round < MaxRound
      BY <2>1, <1>1, <1>2 DEF Tasks
    <3>. QED
      BY <3>1, RecordBoundsAssumption
  <2>. HIDE DEF technical
  <2>. QED
    BY <2>1, <2>2, <2>3, <1>4 DEF Tasks
<1>6. /\ task'[n] = [task[n] EXCEPT !.status = IF Concludes(n, a) THEN "DONE" ELSE "BACK"]
      /\ task'[n] \in Tasks
  <2>1. n \notin Created(n, a)
    BY Openers
  <2>2. task'[n] = [task[n] EXCEPT !.status = IF Concludes(n, a) THEN "DONE" ELSE "BACK"]
    BY <2>1, <1>3 DEF new
  <2>. QED
    BY <2>2, <1>2 DEF Tasks
<1>7. \A m \in Stages : m \notin Created(n, a) /\ m # n /\ ConsistencyReturn(n, a) /\ m \in TechnicalNodes =>
        /\ task'[m] = [task[m] EXCEPT !.status = IF Open(m) THEN "CANCELLED" ELSE @, !.invalid = TRUE]
        /\ task'[m] \in Tasks
  <2>. SUFFICES ASSUME NEW m \in Stages,
                       m \notin Created(n, a), m # n, ConsistencyReturn(n, a), m \in TechnicalNodes
                PROVE  /\ task'[m] = [task[m] EXCEPT !.status = IF Open(m) THEN "CANCELLED" ELSE @, !.invalid = TRUE]
                       /\ task'[m] \in Tasks
    OBVIOUS
  <2>1. task'[m] = [task[m] EXCEPT !.status = IF Open(m) THEN "CANCELLED" ELSE @, !.invalid = TRUE]
    BY <1>3 DEF new
  <2>. QED
    BY <2>1, <1>2 DEF Tasks
<1>8. \A m \in Stages : m \notin Created(n, a) /\ m # n /\ ~(ConsistencyReturn(n, a) /\ m \in TechnicalNodes) =>
        task'[m] = task[m]
  BY <1>3 DEF new
<1>9. task' \in [Stages -> Tasks]
  <2>1. \A m \in Stages : task'[m] \in Tasks
    BY <1>5, <1>6, <1>7, <1>8, <1>2
  <2>. QED
    BY <2>1, <1>1
<1>10. ASSUME NEW m \in Stages,
             m \notin Created(n, a), m # n, ConsistencyReturn(n, a), m \in TechnicalNodes
      PROVE  /\ task'[m].round = task[m].round
             /\ task'[m].technical = task[m].technical
             /\ task'[m].status # "OPEN"
             /\ task'[m].status \in {task[m].status, "CANCELLED"}
             /\ task'[m].invalid
  <2>1. task'[m] = [task[m] EXCEPT !.status = IF Open(m) THEN "CANCELLED" ELSE @, !.invalid = TRUE]
    BY <1>7, <1>10
  <2>2. task'[m].status = IF Open(m) THEN "CANCELLED" ELSE task[m].status
    BY <2>1, <1>2 DEF Tasks
  <2>3. task'[m].invalid = TRUE /\ task'[m].round = task[m].round /\ task'[m].technical = task[m].technical
    BY <2>1, <1>2 DEF Tasks
  <2>. QED
    BY <2>2, <2>3 DEF Open
<1>11. /\ task'[n].round = task[n].round
       /\ task'[n].technical = task[n].technical
       /\ task'[n].invalid = task[n].invalid
       /\ task'[n].status = IF Concludes(n, a) THEN "DONE" ELSE "BACK"
  BY <1>6, <1>2 DEF Tasks
<1>12. ASSUME NEW m \in Created(n, a)
       PROVE  /\ task'[m].round = task[m].round + 1
              /\ task'[m].status = "OPEN"
              /\ task'[m].technical = (ConsistencyReturn(n, a) \/ task[n].technical)
              /\ ~task'[m].invalid
  <2>. HIDE DEF technical
  <2>1. task'[m] = [round |-> task[m].round + 1, status |-> "OPEN",
                    technical |-> technical, invalid |-> FALSE]
    BY <1>5, <1>12
  <2>2. /\ task'[m].round = task[m].round + 1
        /\ task'[m].status = "OPEN"
        /\ ~task'[m].invalid
    BY <2>1
  <2>3. task'[m].technical = technical
    BY <2>1
  <2>. QED
    BY <2>2, <2>3 DEF technical
<1>13. Open(n)
  BY <1>1
<1>. QED
  BY <1>13, <1>12, <1>8, <1>9, <1>10, <1>11

-----------------------------------------------------------------------------
(* Two kinds of steps: those that work on the records of one open stage,   *)
(* and those that finish a stage.                                          *)

RecordStep(n) ==
  /\ Open(n)
  /\ task' = task
  /\ rec' \in [Keys -> Records]
  /\ \A k \in Keys : k[1] # n => rec'[k] = rec[k]
  /\ \A k \in Keys : rec'[k].status # "NONE" => rec[k].status # "NONE" \/ k[2] = task[n].round
  /\ n = "PAINT_DEVELOPMENT" =>
       \A k \in Keys : rec'[k].status = "CONFIRMED" => rec[k].status = "CONFIRMED"
  /\ n = "CAB_REVIEW" =>
       \A k \in Keys : k[1] = n /\ rec'[k].status # "NONE" =>
         (rec[k].status # "NONE" /\ rec'[k].about = rec[k].about) \/ rec'[k].about \in ReviewableTrials
  /\ n = "STANDARD_BOARD_PRODUCTION" => (OneCurrentBoard => OneCurrentBoard')

EvidenceNodes ==
  {"PAINT_DEVELOPMENT", "PAINT_PROCUREMENT", "PERFORMANCE_TEST", "STANDARD_BOARD_PRODUCTION",
   "BOARD_DETAIL_UPDATE", "FIRST_UNIT_PRODUCTION_PLAN", "TRIAL_PRODUCTION"}

FinishStep(n, a) ==
  /\ Finish(n, a)
  /\ n \in ReviewNodes \/ Concludes(n, a)
  /\ rec' \in [Keys -> Records]
  /\ n \in EvidenceNodes => EngineAllows(n)
  /\ n = "CAB_REVIEW" /\ Concludes(n, a) => In(Latest(n), {"ENDORSED"}) # {}
  /\ \A k \in Keys :
       /\ rec'[k].current = rec[k].current
       /\ rec'[k].about = rec[k].about
       /\ k[1] \notin {"PAINT_DEVELOPMENT", "FIRST_UNIT_PRODUCTION_PLAN"} => rec'[k].status = rec[k].status
       /\ k[1] = "FIRST_UNIT_PRODUCTION_PLAN" =>
            (rec'[k].status \in ConfirmedPlan <=> rec[k].status \in ConfirmedPlan)
       /\ k[1] = "PAINT_DEVELOPMENT" =>
            /\ rec[k].status \in {"IN_PREPARATION", "CONFIRMED"} =>
                 rec'[k].status \in {"IN_PREPARATION", "CONFIRMED"}
            /\ rec'[k].status = rec[k].status \/ n = "SAMPLE_COLOR_CONFIRMATION"
            /\ rec'[k].status = "CONFIRMED" => rec[k].status = "CONFIRMED" \/ Concludes(n, a)
       /\ rec'[k].status = "NONE" <=> rec[k].status = "NONE"

(* A created record works on its own stage only.                           *)
LEMMA CreateIs ==
  ASSUME TypeOK,
         NEW n \in RecordNodes, n \notin {"PAINT_DEVELOPMENT", "STANDARD_BOARD_PRODUCTION"},
         NEW k \in Free(n), NEW status \in Statuses \ {"NONE"}, NEW about \in Keys \cup {NoKey},
         n = "CAB_REVIEW" => about \in ReviewableTrials,
         Create(n, k, status, about)
  PROVE  RecordStep(n) /\ TypeOK'
<1>. DEFINE r == [status |-> status, current |-> FALSE, about |-> about]
<1>1. k \in Keys /\ k[1] = n /\ k[2] = task[n].round
  BY DEF Free
<1>2. /\ Open(n)
      /\ rec' = [rec EXCEPT ![k] = r]
      /\ UNCHANGED <<task, standard, linked, required>>
  BY DEF Create, Put, Only
<1>3. r \in Records /\ r.status = status /\ r.about = about
  BY DEF Records
<1>. HIDE DEF r
<1>4. rec' \in [Keys -> Records]
  BY <1>2, <1>3 DEF TypeOK
<1>5. \A j \in Keys : rec'[j] = IF j = k THEN r ELSE rec[j]
  BY <1>2 DEF TypeOK
<1>6. TypeOK'
  BY <1>2, <1>4 DEF TypeOK
<1>7. \A j \in Keys : j[1] # n => rec'[j] = rec[j]
  BY <1>1, <1>5
<1>8. \A j \in Keys : rec'[j].status # "NONE" => rec[j].status # "NONE" \/ j[2] = task[n].round
  BY <1>1, <1>5
<1>9. n = "CAB_REVIEW" =>
        \A j \in Keys : j[1] = n /\ rec'[j].status # "NONE" =>
          (rec[j].status # "NONE" /\ rec'[j].about = rec[j].about) \/ rec'[j].about \in ReviewableTrials
  BY <1>3, <1>5
<1>. QED
  BY <1>2, <1>4, <1>6, <1>7, <1>8, <1>9 DEF RecordStep

(* A record that moves works on its own stage only.                        *)
LEMMA MoveIs ==
  ASSUME TypeOK,
         NEW n \in RecordNodes, n # "PAINT_DEVELOPMENT",
         NEW k, NEW from, NEW to \in Statuses \ {"NONE"},
         Move(n, k, from, to)
  PROVE  RecordStep(n) /\ TypeOK'
<1>1. k \in Keys /\ k[1] = n /\ rec[k].status # "NONE"
  BY DEF Move, In, Kept
<1>2. /\ Open(n)
      /\ rec' = [rec EXCEPT ![k].status = to]
      /\ UNCHANGED <<task, standard, linked, required>>
  BY DEF Move, Only
<1>3. \A j \in Keys : rec[j] \in Records
  BY DEF TypeOK
<1>4. [rec[k] EXCEPT !.status = to] \in Records
  BY <1>1, <1>3 DEF Records
<1>5. \A j \in Keys : rec'[j] = IF j = k THEN [rec[k] EXCEPT !.status = to] ELSE rec[j]
  BY <1>2 DEF TypeOK
<1>6. rec' \in [Keys -> Records]
  <2>1. rec' = [rec EXCEPT ![k] = [rec[k] EXCEPT !.status = to]]
    BY <1>2
  <2>. QED
    BY <2>1, <1>4 DEF TypeOK
<1>7. \A j \in Keys :
        /\ rec'[j].current = rec[j].current
        /\ rec'[j].about = rec[j].about
        /\ rec'[j].status = "NONE" <=> rec[j].status = "NONE"
  BY <1>1, <1>3, <1>5 DEF Records
<1>8. TypeOK'
  BY <1>2, <1>6 DEF TypeOK
<1>9. \A j \in Keys : j[1] # n => rec'[j] = rec[j]
  BY <1>1, <1>5
<1>10. OneCurrentBoard => OneCurrentBoard'
  BY <1>7 DEF OneCurrentBoard, Boards, Kept
<1>. QED
  BY <1>2, <1>6, <1>7, <1>8, <1>9, <1>10 DEF RecordStep

(* A stage finished on its records, which stay as they are.                *)
LEMMA CompleteIs ==
  ASSUME TypeOK,
         NEW n \in Stages, NEW a,
         Finish(n, a), rec' = rec,
         n \in ReviewNodes \/ a = "COMPLETE",
         n \in EvidenceNodes => EngineAllows(n),
         n = "CAB_REVIEW" /\ Concludes(n, a) => In(Latest(n), {"ENDORSED"}) # {}
  PROVE  FinishStep(n, a)
BY DEF FinishStep, TypeOK, Concludes, CompletionActions

(* A sample is created, versioned or edited under its development.         *)
LEMMA SampleIs ==
  ASSUME TypeOK, NEW k, NEW o, NEW status \in {"DRAFT", "IN_PREPARATION"},
         CreateSample(k, status) \/ CreateSampleVersion(k, o, status) \/ UpdateSample(k, status)
  PROVE  RecordStep("PAINT_DEVELOPMENT") /\ TypeOK'
<1>. DEFINE dev == "PAINT_DEVELOPMENT"
            s   == Sample(status)
<1>1. /\ Open(dev)
      /\ UNCHANGED <<task, standard, linked, required>>
  BY DEF CreateSample, CreateSampleVersion, UpdateSample, Only
<1>2. k \in Keys /\ k[1] = dev
  BY DEF CreateSample, CreateSampleVersion, UpdateSample, SampleWritable, Free, In, Kept
<1>3. s \in Records /\ s.status = status
  BY DEF Records, Sample, Statuses
<1>4. \A j \in Keys : rec[j] \in Records
  BY DEF TypeOK
<1>. HIDE DEF s
<1>5. /\ rec' \in [Keys -> Records]
      /\ \A j \in Keys : j[1] # dev => rec'[j] = rec[j]
      /\ \A j \in Keys : rec'[j].status # "NONE" => rec[j].status # "NONE" \/ j[2] = task[dev].round
      /\ \A j \in Keys : rec'[j].status = "CONFIRMED" => rec[j].status = "CONFIRMED"
  <2>1. CASE CreateSample(k, status)
    <3>1. rec' = [rec EXCEPT ![k] = s] /\ k[2] = task[dev].round
      BY <2>1 DEF CreateSample, Free, s
    <3>2. \A j \in Keys : rec'[j] = IF j = k THEN s ELSE rec[j]
      BY <3>1 DEF TypeOK
    <3>3. rec' \in [Keys -> Records]
      BY <3>1, <1>3 DEF TypeOK
    <3>. QED
      BY <3>1, <3>2, <3>3, <1>2, <1>3
  <2>2. CASE CreateSampleVersion(k, o, status)
    <3>1. /\ rec' = [rec EXCEPT ![k] = s, ![o].current = FALSE]
          /\ k[2] = task[dev].round
          /\ o \in Keys /\ o[1] = dev /\ rec[o].status # "NONE" /\ rec[k].status = "NONE"
      BY <2>2 DEF CreateSampleVersion, Free, Kept, s
    <3>2. o # k
      BY <3>1
    <3>3. [rec[o] EXCEPT !.current = FALSE] \in Records
      BY <3>1, <1>4 DEF Records
    <3>4. rec' = [[rec EXCEPT ![k] = s] EXCEPT ![o] = [rec[o] EXCEPT !.current = FALSE]]
      BY <3>1, <3>2, <1>2 DEF TypeOK
    <3>5. \A j \in Keys : rec'[j] = IF j = o THEN [rec[o] EXCEPT !.current = FALSE]
                                    ELSE IF j = k THEN s ELSE rec[j]
      BY <3>4 DEF TypeOK
    <3>6. rec' \in [Keys -> Records]
      BY <3>4, <3>3, <1>3 DEF TypeOK
    <3>7. [rec[o] EXCEPT !.current = FALSE].status = rec[o].status
      BY <3>1, <1>4 DEF Records
    <3>. QED
      BY <3>1, <3>5, <3>6, <3>7, <1>2, <1>3
  <2>3. CASE UpdateSample(k, status)
    <3>1. /\ rec' = [rec EXCEPT ![k].status = status]
          /\ rec[k].status # "NONE"
      BY <2>3 DEF UpdateSample, SampleWritable, In, Kept
    <3>2. [rec[k] EXCEPT !.status = status] \in Records
      BY <1>2, <1>4 DEF Records, Statuses
    <3>3. rec' = [rec EXCEPT ![k] = [rec[k] EXCEPT !.status = status]]
      BY <3>1
    <3>4. \A j \in Keys : rec'[j] = IF j = k THEN [rec[k] EXCEPT !.status = status] ELSE rec[j]
      BY <3>3 DEF TypeOK
    <3>5. rec' \in [Keys -> Records]
      BY <3>2, <3>3 DEF TypeOK
    <3>6. [rec[k] EXCEPT !.status = status].status = status
      BY <1>2, <1>4 DEF Records
    <3>. QED
      BY <3>1, <3>4, <3>5, <3>6, <1>2
  <2>. QED
    BY <2>1, <2>2, <2>3
<1>6. TypeOK'
  BY <1>1, <1>5 DEF TypeOK
<1>. QED
  BY <1>1, <1>5, <1>6 DEF RecordStep

(* A trial that is edited keeps its status.                                *)
LEMMA TrialIs ==
  ASSUME TypeOK, NEW k, NEW plan, UpdateTrial(k, plan)
  PROVE  RecordStep("TRIAL_PRODUCTION") /\ TypeOK'
<1>1. k \in Keys /\ k[1] = "TRIAL_PRODUCTION" /\ plan \in Keys \cup {NoKey}
  BY DEF UpdateTrial, PlanChoices, In, Kept
<1>2. /\ Open("TRIAL_PRODUCTION")
      /\ rec' = [rec EXCEPT ![k] = [rec[k] EXCEPT !.about = plan]]
      /\ UNCHANGED <<task, standard, linked, required>>
  BY DEF UpdateTrial, Only
<1>3. \A j \in Keys : rec[j] \in Records
  BY DEF TypeOK
<1>4. [rec[k] EXCEPT !.about = plan] \in Records
  BY <1>1, <1>3 DEF Records
<1>5. [rec[k] EXCEPT !.about = plan].status = rec[k].status
  BY <1>1, <1>3 DEF Records
<1>6. \A j \in Keys : rec'[j] = IF j = k THEN [rec[k] EXCEPT !.about = plan] ELSE rec[j]
  BY <1>2 DEF TypeOK
<1>7. rec' \in [Keys -> Records]
  BY <1>2, <1>4 DEF TypeOK
<1>8. TypeOK'
  BY <1>2, <1>7 DEF TypeOK
<1>. QED
  BY <1>1, <1>2, <1>5, <1>6, <1>7, <1>8 DEF RecordStep

(* Choosing board k makes it the one that is current.                      *)
LEMMA OnlyCurrentIs ==
  ASSUME NEW rs \in [Keys -> Records],
         NEW k \in Keys, k[1] = "STANDARD_BOARD_PRODUCTION", rs[k].status # "NONE",
         rec' = OnlyCurrent(rs, k)
  PROVE  /\ rec' \in [Keys -> Records]
         /\ \A j \in Keys : rec'[j].status = rs[j].status
         /\ \A j \in Keys : j[1] # "STANDARD_BOARD_PRODUCTION" => rec'[j] = rs[j]
         /\ OneCurrentBoard'
<1>. DEFINE row(b) == IF b[1] = "STANDARD_BOARD_PRODUCTION" THEN [rs[b] EXCEPT !.current = (b = k)] ELSE rs[b]
<1>1. rec' = [b \in Keys |-> row(b)]
  BY DEF OnlyCurrent
<1>2. \A b \in Keys : row(b) \in Records /\ row(b).status = rs[b].status
  <2>. SUFFICES ASSUME NEW b \in Keys
                PROVE  row(b) \in Records /\ row(b).status = rs[b].status
    OBVIOUS
  <2>1. rs[b] \in Records
    OBVIOUS
  <2>2. (b = k) \in BOOLEAN
    OBVIOUS
  <2>3. [rs[b] EXCEPT !.current = (b = k)] \in Records
    BY <2>1, <2>2 DEF Records
  <2>4. [rs[b] EXCEPT !.current = (b = k)].status = rs[b].status
    BY <2>1 DEF Records
  <2>. QED
    BY <2>1, <2>3, <2>4
<1>3. \A b \in Keys : b[1] = "STANDARD_BOARD_PRODUCTION" => (row(b).current <=> b = k)
  <2>. SUFFICES ASSUME NEW b \in Keys, b[1] = "STANDARD_BOARD_PRODUCTION"
                PROVE  row(b).current <=> b = k
    OBVIOUS
  <2>1. rs[b] \in Records /\ row(b) = [rs[b] EXCEPT !.current = (b = k)]
    OBVIOUS
  <2>. QED
    BY <2>1 DEF Records
<1>4. \A b \in Keys : b[1] # "STANDARD_BOARD_PRODUCTION" => row(b) = rs[b]
  OBVIOUS
<1>. HIDE DEF row
<1>5. \A b \in Keys : rec'[b] = row(b)
  BY <1>1
<1>6. rec' \in [Keys -> Records]
  BY <1>1, <1>2
<1>7. OneCurrentBoard'
  <2>1. k \in Boards' /\ rec'[k].current
    BY <1>2, <1>3, <1>5 DEF Boards, Kept
  <2>2. \A c \in Boards' : rec'[c].current => c = k
    BY <1>3, <1>5 DEF Boards, Kept
  <2>. QED
    BY <2>1, <2>2 DEF OneCurrentBoard
<1>. QED
  BY <1>2, <1>4, <1>5, <1>6, <1>7

(* However a board is made or chosen, one stays current.                   *)
LEMMA BoardIs ==
  ASSUME TypeOK, NEW k, PublishBoard(k) \/ CreateBoard(k) \/ SetCurrentBoard(k)
  PROVE  RecordStep("STANDARD_BOARD_PRODUCTION") /\ TypeOK'
<1>. DEFINE board == "STANDARD_BOARD_PRODUCTION"
<1>1. /\ Open(board)
      /\ k \in Keys /\ k[1] = board
      /\ UNCHANGED <<task, linked, required>>
      /\ standard' \subseteq standard \cup {k}
  BY DEF PublishBoard, CreateBoard, SetCurrentBoard, Only, Free, Boards, Kept
<1>2. \A j \in Keys : rec[j] \in Records
  BY DEF TypeOK
<1>3. /\ rec' \in [Keys -> Records]
      /\ \A j \in Keys : j[1] # board => rec'[j] = rec[j]
      /\ \A j \in Keys : rec'[j].status # "NONE" => rec[j].status # "NONE" \/ j[2] = task[board].round
      /\ OneCurrentBoard => OneCurrentBoard'
  <2>1. CASE PublishBoard(k)
    <3>. DEFINE r  == [status |-> "CREATED", current |-> FALSE, about |-> NoKey]
                rs == [rec EXCEPT ![k] = r]
    <3>1. r \in Records /\ r.status = "CREATED"
      BY DEF Records, Statuses
    <3>2. rec' = OnlyCurrent(rs, k) /\ k[2] = task[board].round
      BY <2>1 DEF PublishBoard, Put, Free
    <3>. HIDE DEF r
    <3>3. rs \in [Keys -> Records] /\ \A j \in Keys : rs[j] = IF j = k THEN r ELSE rec[j]
      BY <3>1, <1>1 DEF TypeOK
    <3>. HIDE DEF rs
    <3>4. rs[k].status # "NONE"
      BY <3>1, <3>3, <1>1
    <3>5. /\ rec' \in [Keys -> Records]
          /\ \A j \in Keys : rec'[j].status = rs[j].status
          /\ \A j \in Keys : j[1] # board => rec'[j] = rs[j]
          /\ OneCurrentBoard'
      BY <3>2, <3>3, <3>4, <1>1, OnlyCurrentIs
    <3>. QED
      BY <3>2, <3>3, <3>5, <1>1
  <2>2. CASE CreateBoard(k)
    <3>. DEFINE first == \A b \in Boards : ~rec[b].current
                r     == [status |-> "DRAFT", current |-> first, about |-> NoKey]
    <3>1. /\ rec' = [rec EXCEPT ![k] = r]
          /\ k[2] = task[board].round
          /\ rec[k].status = "NONE"
      BY <2>2 DEF CreateBoard, Free
    <3>2. r.status = "DRAFT" /\ (r.current <=> first)
      OBVIOUS
    <3>3. first \in BOOLEAN
      OBVIOUS
    <3>4. r \in Records
      <4>. HIDE DEF first
      <4>. QED
        BY <3>3 DEF Records, Statuses
    <3>. HIDE DEF r
    <3>5. rec' \in [Keys -> Records] /\ \A j \in Keys : rec'[j] = IF j = k THEN r ELSE rec[j]
      BY <3>1, <3>4 DEF TypeOK
    <3>6. Boards' = Boards \cup {k}
      BY <3>2, <3>5, <1>1 DEF Boards, Kept
    <3>7. k \notin Boards
      BY <3>1 DEF Boards, Kept
    <3>8. \A b \in Boards : rec'[b] = rec[b]
      BY <3>5, <3>7 DEF Boards, Kept
    <3>9. rec'[k].current <=> first
      BY <3>2, <3>5, <1>1
    <3>10. OneCurrentBoard => OneCurrentBoard'
      <4>. SUFFICES ASSUME OneCurrentBoard
                    PROVE  OneCurrentBoard'
        OBVIOUS
      <4>1. CASE Boards = {}
        BY <4>1, <3>6, <3>9 DEF OneCurrentBoard
      <4>2. CASE Boards # {}
        <5>1. PICK b \in Boards : rec[b].current /\ \A c \in Boards : rec[c].current => c = b
          BY <4>2 DEF OneCurrentBoard
        <5>2. ~rec'[k].current
          BY <5>1, <3>9
        <5>. QED
          BY <5>1, <5>2, <3>6, <3>8 DEF OneCurrentBoard
      <4>. QED
        BY <4>1, <4>2
    <3>. QED
      BY <3>1, <3>5, <3>10, <1>1
  <2>3. CASE SetCurrentBoard(k)
    <3>1. rec' = OnlyCurrent(rec, k) /\ rec[k].status # "NONE"
      BY <2>3 DEF SetCurrentBoard, Boards, Kept
    <3>. QED
      BY <3>1, <1>1, OnlyCurrentIs DEF TypeOK
  <2>. QED
    BY <2>1, <2>2, <2>3
<1>4. TypeOK'
  BY <1>1, <1>3 DEF TypeOK
<1>. QED
  BY <1>1, <1>3, <1>4 DEF RecordStep

(* A confirmation signs or returns one sample and finishes its stage.      *)
LEMMA ConfirmIs ==
  ASSUME TypeOK, NEW k, NEW a \in ReviewActions, ConfirmSample(k, a)
  PROVE  FinishStep("SAMPLE_COLOR_CONFIRMATION", a) /\ standard' \subseteq Keys /\ UNCHANGED <<linked, required>>
<1>. DEFINE to == IF a = "APPROVE" THEN "CONFIRMED" ELSE "IN_PREPARATION"
<1>1. /\ k \in Keys /\ k[1] = "PAINT_DEVELOPMENT"
      /\ rec[k].status \in {"DRAFT", "IN_PREPARATION"}
      /\ rec' = [rec EXCEPT ![k] = [rec[k] EXCEPT !.status = to]]
      /\ Finish("SAMPLE_COLOR_CONFIRMATION", a)
      /\ UNCHANGED <<standard, linked, required>>
  BY DEF ConfirmSample, SampleWritable, In, Kept
<1>2. to \in Statuses /\ to \in {"IN_PREPARATION", "CONFIRMED"}
  BY DEF Statuses
<1>3. to = "CONFIRMED" => Concludes("SAMPLE_COLOR_CONFIRMATION", a)
  BY DEF Concludes, ReviewNodes
<1>. HIDE DEF to
<1>4. \A j \in Keys : rec[j] \in Records
  BY DEF TypeOK
<1>5. \A j \in Keys : rec'[j] = IF j = k THEN [rec[k] EXCEPT !.status = to] ELSE rec[j]
  BY <1>1 DEF TypeOK
<1>6. [rec[k] EXCEPT !.status = to] \in Records
  BY <1>1, <1>2, <1>4 DEF Records
<1>7. /\ [rec[k] EXCEPT !.status = to].status = to
      /\ [rec[k] EXCEPT !.status = to].current = rec[k].current
      /\ [rec[k] EXCEPT !.status = to].about = rec[k].about
  BY <1>1, <1>4 DEF Records
<1>8. rec' \in [Keys -> Records]
  BY <1>1, <1>6 DEF TypeOK
<1>9. standard' \subseteq Keys
  BY <1>1 DEF TypeOK
<1>. QED
  BY <1>1, <1>2, <1>3, <1>5, <1>7, <1>8, <1>9 DEF FinishStep, EvidenceNodes, ReviewNodes

(* The completed plan stage closes the confirmed plans.                    *)
LEMMA PlansCloseIs ==
  ASSUME TypeOK, CompletePlanTask
  PROVE  FinishStep("FIRST_UNIT_PRODUCTION_PLAN", "COMPLETE") /\ standard' \subseteq Keys /\ UNCHANGED <<linked, required>>
<1>. DEFINE n      == "FIRST_UNIT_PRODUCTION_PLAN"
            plans  == In(Kept(n), {"PLANNED"})
            row(k) == IF k \in plans THEN [rec[k] EXCEPT !.status = "COMPLETED"] ELSE rec[k]
<1>1. /\ rec' = [k \in Keys |-> row(k)]
      /\ EngineAllows(n)
      /\ Finish(n, "COMPLETE")
      /\ UNCHANGED <<standard, linked, required>>
  BY DEF CompletePlanTask
<1>2. \A k \in Keys : rec[k] \in Records
  BY DEF TypeOK
<1>3. \A k \in plans : k[1] = n /\ rec[k].status = "PLANNED"
  BY DEF In, Kept
<1>4. \A k \in Keys :
        /\ row(k) \in Records
        /\ row(k).current = rec[k].current
        /\ row(k).about = rec[k].about
        /\ row(k).status = rec[k].status
             \/ (k[1] = n /\ rec[k].status = "PLANNED" /\ row(k).status = "COMPLETED")
  <2>. SUFFICES ASSUME NEW k \in Keys
                PROVE  /\ row(k) \in Records
                       /\ row(k).current = rec[k].current
                       /\ row(k).about = rec[k].about
                       /\ row(k).status = rec[k].status
                            \/ (k[1] = n /\ rec[k].status = "PLANNED" /\ row(k).status = "COMPLETED")
    OBVIOUS
  <2>1. CASE k \in plans
    <3>1. row(k) = [rec[k] EXCEPT !.status = "COMPLETED"]
      BY <2>1
    <3>2. row(k) \in Records
      BY <3>1, <1>2 DEF Records, Statuses
    <3>3. row(k).current = rec[k].current /\ row(k).about = rec[k].about /\ row(k).status = "COMPLETED"
      BY <3>1, <1>2 DEF Records
    <3>4. k[1] = n /\ rec[k].status = "PLANNED"
      BY <2>1, <1>3
    <3>. HIDE DEF row
    <3>. QED
      BY <3>2, <3>3, <3>4
  <2>2. CASE k \notin plans
    <3>1. row(k) = rec[k]
      BY <2>2
    <3>. QED
      BY <3>1, <1>2
  <2>. QED
    BY <2>1, <2>2
<1>. HIDE DEF row
<1>5. \A k \in Keys : rec'[k] = row(k)
  BY <1>1
<1>6. rec' \in [Keys -> Records]
  BY <1>1, <1>4
<1>7. \A k \in Keys :
        /\ rec'[k].current = rec[k].current
        /\ rec'[k].about = rec[k].about
        /\ rec'[k].status = rec[k].status
             \/ (k[1] = n /\ rec[k].status = "PLANNED" /\ rec'[k].status = "COMPLETED")
  BY <1>4, <1>5
<1>8. standard' \subseteq Keys
  BY <1>1 DEF TypeOK
<1>. QED
  BY <1>1, <1>6, <1>7, <1>8 DEF FinishStep, ConfirmedPlan, Concludes, ReviewNodes, CompletionActions

(* Every step finishes a stage, works on the records of one, or links.     *)
LEMMA StepKinds ==
  ASSUME TypeOK, [Next]_vars
  PROVE  /\ TypeOK'
         /\ \/ \E n \in Stages, a \in CompletionActions \cup ReviewActions : FinishStep(n, a)
            \/ \E n \in RecordNodes : RecordStep(n)
            \/ task' = task /\ rec' = rec
<1>. DEFINE Acts == CompletionActions \cup ReviewActions
            Goal == /\ TypeOK'
                    /\ \/ \E n \in Stages, a \in Acts : FinishStep(n, a)
                       \/ \E n \in RecordNodes : RecordStep(n)
                       \/ task' = task /\ rec' = rec
<1>1. ASSUME NEW n \in Stages, NEW a \in Acts, FinishStep(n, a),
             standard' \subseteq Keys, linked' \in BOOLEAN, required' \in BOOLEAN
      PROVE  Goal
  <2>1. task' \in [Stages -> Tasks]
    BY <1>1, FinishTasks DEF FinishStep
  <2>2. rec' \in [Keys -> Records]
    BY <1>1 DEF FinishStep
  <2>3. TypeOK'
    BY <2>1, <2>2, <1>1 DEF TypeOK
  <2>. QED
    BY <2>3, <1>1
<1>2. ASSUME NEW n \in RecordNodes, RecordStep(n), TypeOK'
      PROVE  Goal
  BY <1>2
<1>. SUFFICES Goal
  OBVIOUS
<1>. HIDE DEF Goal
<1>3. RecordNodes \subseteq Stages /\ "APPROVE" \in Acts /\ "REJECT" \in Acts /\ "COMPLETE" \in Acts /\ ReviewActions \subseteq Acts
  BY DEF Stages, CompletionActions, ReviewActions
<1>4. ASSUME NEW n \in Stages, NEW a \in Acts, Finish(n, a), rec' = rec,
             n \in ReviewNodes \/ a = "COMPLETE",
             n \in EvidenceNodes => EngineAllows(n),
             n = "CAB_REVIEW" /\ Concludes(n, a) => In(Latest(n), {"ENDORSED"}) # {},
             standard' = standard, linked' \in BOOLEAN, required' = required
      PROVE  Goal
  <2>1. FinishStep(n, a)
    BY <1>4, CompleteIs
  <2>. QED
    BY <2>1, <1>1, <1>4 DEF TypeOK
<1>5. ASSUME NEW n \in Stages, NEW q, CompleteStage(n, q), n # "CAB_REVIEW"
      PROVE  Goal
  BY <1>3, <1>4, <1>5 DEF CompleteStage, TypeOK
<1>6. CASE SampleStep
  <2>1. ASSUME NEW status \in {"DRAFT", "IN_PREPARATION"}, NEW k, NEW o,
               CreateSample(k, status) \/ CreateSampleVersion(k, o, status) \/ UpdateSample(k, status)
        PROVE  Goal
    <3>1. RecordStep("PAINT_DEVELOPMENT") /\ TypeOK'
      BY <2>1, SampleIs
    <3>. QED
      BY <3>1, <1>2 DEF RecordNodes
  <2>2. ASSUME NEW k, NEW a \in ReviewActions, ConfirmSample(k, a)
        PROVE  Goal
    <3>1. /\ FinishStep("SAMPLE_COLOR_CONFIRMATION", a)
          /\ standard' \subseteq Keys /\ linked' = linked /\ required' = required
      BY <2>2, ConfirmIs
    <3>. QED
      BY <3>1, <1>1 DEF Stages, TypeOK
  <2>. QED
    BY <1>6, <2>1, <2>2 DEF SampleStep
<1>7. ASSUME NEW n \in RecordNodes, NEW k, NEW from, NEW to \in Statuses \ {"NONE"},
             Move(n, k, from, to), n # "PAINT_DEVELOPMENT"
      PROVE  Goal
  <2>1. RecordStep(n) /\ TypeOK'
    BY <1>7, MoveIs
  <2>. QED
    BY <2>1, <1>2
<1>8. ASSUME NEW n \in RecordNodes, NEW k \in Free(n), NEW status \in Statuses \ {"NONE"},
             NEW about \in Keys \cup {NoKey}, Create(n, k, status, about),
             n \notin {"PAINT_DEVELOPMENT", "STANDARD_BOARD_PRODUCTION"},
             n = "CAB_REVIEW" => about \in ReviewableTrials
      PROVE  Goal
  <2>1. RecordStep(n) /\ TypeOK'
    BY <1>8, CreateIs
  <2>. QED
    BY <2>1, <1>2
<1>9. CASE SupplyStep
  <2>1. ASSUME NEW k \in Free("PAINT_PROCUREMENT"), CreateProcurement(k) PROVE Goal
    BY <2>1, <1>8 DEF CreateProcurement, RecordNodes, Statuses
  <2>2. ASSUME NEW k, OrderProcurement(k) \/ MarkArrived(k) \/ CancelProcurement(k) PROVE Goal
    BY <2>2, <1>7 DEF OrderProcurement, MarkArrived, CancelProcurement, RecordNodes, Statuses
  <2>3. ASSUME NEW k \in Free("PERFORMANCE_TEST"), CreateTest(k) PROVE Goal
    BY <2>3, <1>8 DEF CreateTest, RecordNodes, Statuses
  <2>4. ASSUME NEW k, SubmitTest(k) PROVE Goal
    BY <2>4, <1>7 DEF SubmitTest, RecordNodes, Statuses
  <2>5. CASE CompleteProcurementTask \/ CompleteTestTask
    BY <2>5, <1>5 DEF CompleteProcurementTask, CompleteTestTask, Stages, RecordNodes
  <2>. QED
    BY <1>9, <2>1, <2>2, <2>3, <2>4, <2>5 DEF SupplyStep
<1>10. CASE BoardStep
  <2>1. ASSUME NEW k, PublishBoard(k) \/ CreateBoard(k) \/ SetCurrentBoard(k) PROVE Goal
    <3>1. RecordStep("STANDARD_BOARD_PRODUCTION") /\ TypeOK'
      BY <2>1, BoardIs
    <3>. QED
      BY <3>1, <1>2 DEF RecordNodes
  <2>2. ASSUME NEW k, MarkCreated(k) \/ IssueBoard(k) PROVE Goal
    BY <2>2, <1>7 DEF MarkCreated, IssueBoard, RecordNodes, Statuses
  <2>3. ASSUME NEW k \in Free("BOARD_DETAIL_UPDATE"), NEW b \in Boards,
               NEW status \in {"PENDING", "UPDATED"}, CreateDetail(k, b, status)
        PROVE  Goal
    <3>1. b \in Keys \cup {NoKey} /\ status \in Statuses \ {"NONE"}
      BY DEF Boards, Kept, Statuses
    <3>2. Create("BOARD_DETAIL_UPDATE", k, status, b)
      BY <2>3 DEF CreateDetail
    <3>. QED
      BY <3>1, <3>2, <1>8 DEF RecordNodes
  <2>4. CASE CompleteBoardTask \/ CompleteDetailTask
    BY <2>4, <1>5 DEF CompleteBoardTask, CompleteDetailTask, Stages, RecordNodes
  <2>. QED
    BY <1>10, <2>1, <2>2, <2>3, <2>4 DEF BoardStep
<1>11. CASE ProductionStep
  <2>1. ASSUME NEW k \in Free("FIRST_UNIT_PRODUCTION_PLAN"), CreatePlan(k) PROVE Goal
    BY <2>1, <1>8 DEF CreatePlan, RecordNodes, Statuses
  <2>2. ASSUME NEW k, ConfirmPlan(k) PROVE Goal
    BY <2>2, <1>7 DEF ConfirmPlan, RecordNodes, Statuses
  <2>3. ASSUME NEW k \in Free("TRIAL_PRODUCTION"), NEW plan \in PlanChoices, CreateTrial(k, plan) PROVE Goal
    <3>1. plan \in Keys \cup {NoKey}
      BY DEF PlanChoices, In, Kept
    <3>. QED
      BY <3>1, <2>3, <1>8 DEF CreateTrial, RecordNodes, Statuses
  <2>4. ASSUME NEW k, NEW plan, UpdateTrial(k, plan) PROVE Goal
    <3>1. RecordStep("TRIAL_PRODUCTION") /\ TypeOK'
      BY <2>4, TrialIs
    <3>. QED
      BY <3>1, <1>2 DEF RecordNodes
  <2>5. ASSUME NEW k, CompleteTrial(k) PROVE Goal
    BY <2>5, <1>7 DEF CompleteTrial, RecordNodes, Statuses
  <2>6. ASSUME NEW k \in Free("MASS_PRODUCTION_PLAN"), CreateSchedule(k) PROVE Goal
    BY <2>6, <1>8 DEF CreateSchedule, RecordNodes, Statuses
  <2>7. ASSUME NEW k, ConfirmSchedule(k) \/ CancelSchedule(k) PROVE Goal
    BY <2>7, <1>7 DEF ConfirmSchedule, CancelSchedule, RecordNodes, Statuses
  <2>8. ASSUME NEW k \in Free("MASS_PRODUCTION"), CreateBatch(k) PROVE Goal
    BY <2>8, <1>8 DEF CreateBatch, RecordNodes, Statuses
  <2>9. ASSUME NEW k, StartBatch(k) \/ CompleteBatch(k) \/ CancelBatch(k) PROVE Goal
    BY <2>9, <1>7 DEF StartBatch, CompleteBatch, CancelBatch, RecordNodes, Statuses
  <2>10. CASE CompletePlanTask
    BY <2>10, PlansCloseIs, <1>1, <1>3 DEF TypeOK, RecordNodes
  <2>11. CASE CompleteTrialTask \/ CompleteScheduleTask \/ CompleteBatchTask
    BY <2>11, <1>5 DEF CompleteTrialTask, CompleteScheduleTask, CompleteBatchTask, Stages, RecordNodes
  <2>. QED
    BY <1>11, <2>1, <2>2, <2>3, <2>4, <2>5, <2>6, <2>7, <2>8, <2>9, <2>10, <2>11 DEF ProductionStep
<1>12. CASE ReviewStep
  <2>1. ASSUME NEW k \in Free("CAB_REVIEW"), NEW t \in ReviewableTrials, CreateCabinReview(k, t) PROVE Goal
    <3>1. t \in Keys \cup {NoKey}
      BY DEF ReviewableTrials, In, Kept
    <3>. QED
      BY <3>1, <2>1, <1>8 DEF CreateCabinReview, RecordNodes, Statuses
  <2>2. ASSUME NEW k \in Free("COLOR_CONSISTENCY_REVIEW"), CreateConsistencyReview(k) PROVE Goal
    BY <2>2, <1>8 DEF CreateConsistencyReview, RecordNodes, Statuses
  <2>3. ASSUME NEW n \in ReviewedNodes, NEW k, NEW verdict \in {"ENDORSED", "OBJECTED"}, SubmitReview(n, k, verdict)
        PROVE  Goal
    BY <2>3, <1>7 DEF SubmitReview, ReviewedNodes, RecordNodes, Statuses
  <2>4. ASSUME NEW n \in ReviewedNodes, NEW k, NEW a \in {"APPROVE", "REJECT"}, DecideReview(n, k, a)
        PROVE  Goal
    <3>1. n \in Stages /\ n \notin EvidenceNodes /\ n \in ReviewNodes /\ a \in Acts
      BY <1>3 DEF ReviewedNodes, RecordNodes, Stages, EvidenceNodes, ReviewNodes
    <3>2. /\ Finish(n, a) /\ rec' = rec
          /\ UNCHANGED <<standard, linked, required>>
      BY <2>4 DEF DecideReview
    <3>3. n = "CAB_REVIEW" /\ Concludes(n, a) => In(Latest(n), {"ENDORSED"}) # {}
      <4>. SUFFICES ASSUME n = "CAB_REVIEW", Concludes(n, a)
                    PROVE  In(Latest(n), {"ENDORSED"}) # {}
        OBVIOUS
      <4>1. a = "APPROVE"
        BY DEF Concludes, ReviewNodes, CompletionActions
      <4>. QED
        BY <4>1, <2>4 DEF DecideReview
    <3>. QED
      BY <3>1, <3>2, <3>3, <1>4 DEF TypeOK
  <2>. QED
    BY <1>12, <2>1, <2>2, <2>3, <2>4 DEF ReviewStep
<1>13. ASSUME NEW n \in Stages, CompleteOrdinarily(n) PROVE Goal
  <2>1. PICK a \in Acts :
          /\ Finish(n, a) /\ n # "CAB_REVIEW"
          /\ n \in ReviewNodes \/ a = "COMPLETE"
          /\ n \in EvidenceNodes => EngineAllows(n)
    BY <1>13, <1>3 DEF CompleteOrdinarily, EvidenceNodes, ReviewNodes
  <2>2. rec' = rec /\ UNCHANGED <<standard, linked, required>>
    BY <1>13 DEF CompleteOrdinarily
  <2>. QED
    BY <2>1, <2>2, <1>4 DEF TypeOK
<1>14. CASE NumberColor
  <2>1. /\ Finish("COLOR_NUMBERING", "COMPLETE")
        /\ rec' = rec /\ standard' = standard /\ linked' = TRUE /\ required' = required
    BY <1>14 DEF NumberColor
  <2>2. "COLOR_NUMBERING" \in Stages /\ "COLOR_NUMBERING" \notin EvidenceNodes
    BY DEF Stages, EvidenceNodes
  <2>. QED
    BY <2>1, <2>2, <1>3, <1>4
<1>15. CASE LinkColor \/ UNCHANGED vars
  <2>1. /\ task' = task /\ rec' = rec /\ standard' = standard
        /\ linked' \in BOOLEAN /\ required' = required
    BY <1>15 DEF LinkColor, vars, TypeOK
  <2>2. TypeOK'
    BY <2>1 DEF TypeOK
  <2>. QED
    BY <2>1, <2>2 DEF Goal
<1>. QED
  BY <1>6, <1>9, <1>10, <1>11, <1>12, <1>13, <1>14, <1>15 DEF Next

-----------------------------------------------------------------------------
(* Working on the records of an open stage preserves the invariant.        *)

(* The records of the other stages stay as they are.                       *)
LEMMA Local ==
  ASSUME NEW n, RecordStep(n), NEW m, m # n
  PROVE  /\ Kept(m)' = Kept(m)
         /\ Latest(m)' = Latest(m)
         /\ \A k \in Kept(m) : rec'[k] = rec[k]
BY DEF RecordStep, Kept, Latest

LEMMA LocalIn ==
  ASSUME NEW n, RecordStep(n), NEW m, m # n, NEW ss
  PROVE  /\ In(Latest(m), ss)' = In(Latest(m), ss)
         /\ In(Kept(m), ss)' = In(Kept(m), ss)
<1>1. Latest(m) \subseteq Kept(m)
  BY DEF Latest
<1>. QED
  BY <1>1, Local DEF In

(* What a stage rests on is out of reach of the stages it does not follow. *)
LEMMA ProofLocal ==
  ASSUME NEW n, RecordStep(n), NEW m \in RecordNodes, m # n,
         m = "BOARD_DETAIL_UPDATE" => n # "STANDARD_BOARD_PRODUCTION",
         m = "TRIAL_PRODUCTION" => n # "FIRST_UNIT_PRODUCTION_PLAN",
         OwnProof(m)
  PROVE  OwnProof(m)'
<1>1. task' = task
  BY DEF RecordStep
<1>2. \A l : l # n => Latest(l)' = Latest(l) /\ (\A k \in Latest(l) : rec'[k] = rec[k])
  BY Local DEF Latest
<1>3. \A l, ss : l # n => In(Latest(l), ss)' = In(Latest(l), ss)
  BY LocalIn
<1>4. CASE m = "PAINT_DEVELOPMENT"
  <2>1. PICK k \in In(Latest(m), {"IN_PREPARATION", "CONFIRMED"}) : rec[k].current
    BY <1>4 DEF OwnProof
  <2>2. k \in In(Latest(m), {"IN_PREPARATION", "CONFIRMED"})' /\ rec'[k].current
    BY <2>1, <1>2, <1>3 DEF In
  <2>. QED
    BY <2>2, <1>4 DEF OwnProof
<1>5. CASE m = "STANDARD_BOARD_PRODUCTION"
  <2>1. PICK k \in In(Latest(m), {"ISSUED"}) : rec[k].current
    BY <1>5 DEF OwnProof
  <2>2. k \in In(Latest(m), {"ISSUED"})' /\ rec'[k].current
    BY <2>1, <1>2, <1>3 DEF In
  <2>. QED
    BY <2>2, <1>5 DEF OwnProof
<1>6. CASE m = "BOARD_DETAIL_UPDATE"
  <2>. DEFINE board == "STANDARD_BOARD_PRODUCTION"
  <2>1. PICK k \in In(Latest(m), {"UPDATED"}) :
          rec[k].about \in In(Latest(board), {"ISSUED"}) /\ rec[rec[k].about].current
    BY <1>6 DEF OwnProof
  <2>2. k \in In(Latest(m), {"UPDATED"})' /\ rec'[k] = rec[k]
    BY <2>1, <1>2, <1>3 DEF In
  <2>3. rec[k].about \in In(Latest(board), {"ISSUED"})' /\ rec'[rec[k].about] = rec[rec[k].about]
    BY <2>1, <1>2, <1>3, <1>6 DEF In
  <2>. QED
    BY <2>1, <2>2, <2>3, <1>6 DEF OwnProof
<1>7. CASE m = "TRIAL_PRODUCTION"
  <2>. DEFINE plan == "FIRST_UNIT_PRODUCTION_PLAN"
  <2>1. PICK k \in In(Latest(m), {"JUDGED"}) :
          task[m].technical => rec[k].about \in In(Latest(plan), ConfirmedPlan)
    BY <1>7 DEF OwnProof
  <2>2. k \in In(Latest(m), {"JUDGED"})' /\ rec'[k] = rec[k]
    BY <2>1, <1>2, <1>3 DEF In
  <2>3. In(Latest(plan), ConfirmedPlan)' = In(Latest(plan), ConfirmedPlan)
    BY <1>3, <1>7 DEF ConfirmedPlan
  <2>. QED
    BY <2>1, <2>2, <2>3, <1>1, <1>7 DEF OwnProof
<1>8. CASE m \in {"PAINT_PROCUREMENT", "PERFORMANCE_TEST", "FIRST_UNIT_PRODUCTION_PLAN"}
  BY <1>3, <1>8 DEF OwnProof, ConfirmedPlan
<1>9. CASE m \notin {"PAINT_DEVELOPMENT", "PAINT_PROCUREMENT", "PERFORMANCE_TEST", "STANDARD_BOARD_PRODUCTION",
                     "BOARD_DETAIL_UPDATE", "FIRST_UNIT_PRODUCTION_PLAN", "TRIAL_PRODUCTION"}
  BY <1>9 DEF OwnProof
<1>. QED
  BY <1>4, <1>5, <1>6, <1>7, <1>8, <1>9

(* A trial a cabin review may take is one of the latest round.             *)
LEMMA ReviewableIsLatest ==
  ASSUME TypeOK, EngineInv, NoFuture, Open("CAB_REVIEW"),
         NEW t \in ReviewableTrials
  PROVE  t \in In(Latest("TRIAL_PRODUCTION"), {"JUDGED"})
<1>1. t \in In(Kept("TRIAL_PRODUCTION"), {"JUDGED"})
      /\ (Rework("CAB_REVIEW") => t \in Latest("TRIAL_PRODUCTION"))
  BY DEF ReviewableTrials
<1>2. CASE Rework("CAB_REVIEW")
  BY <1>1, <1>2 DEF In
<1>3. CASE ~Rework("CAB_REVIEW")
  <2>1. "TRIAL_PRODUCTION" \in MainStages /\ "CAB_REVIEW" \in MainStages
    BY DEF MainStages, Stages, RecordNodes, PrimaryNodes
  <2>2. ~Open("TRIAL_PRODUCTION")
    BY <2>1 DEF EngineInv
  <2>3. /\ task["CAB_REVIEW"].round \in Nat /\ task["TRIAL_PRODUCTION"].round \in Nat
        /\ MaxRound \in Nat
    BY <2>1, RecordBoundsAssumption DEF TypeOK, Tasks, MainStages
  <2>4. task["TRIAL_PRODUCTION"].round = task["CAB_REVIEW"].round /\ task["CAB_REVIEW"].round <= 1
    BY <2>2, <2>3, <1>3 DEF EngineInv, Rework
  <2>5. t \in Keys /\ t[1] = "TRIAL_PRODUCTION" /\ rec[t].status # "NONE"
    BY <1>1 DEF In, Kept
  <2>6. t[2] \in 1 .. MaxRound /\ t[2] <= task["TRIAL_PRODUCTION"].round
    BY <2>5 DEF NoFuture, Keys
  <2>7. t[2] = task["TRIAL_PRODUCTION"].round
    BY <2>3, <2>4, <2>6
  <2>. QED
    BY <2>7, <1>1 DEF In, Latest
<1>. QED
  BY <1>2, <1>3

LEMMA RecordStepKeeps ==
  ASSUME RecordsInv, TypeOK', NEW n \in RecordNodes, RecordStep(n)
  PROVE  RecordsInv'
<1>1. task' = task /\ Open(n)
  BY DEF RecordStep
<1>2. EngineInv'
  BY <1>1 DEF RecordsInv, EngineInv, Open, Idle
<1>3. \A l : l # n => Latest(l)' = Latest(l) /\ Kept(l)' = Kept(l) /\ (\A k \in Kept(l) : rec'[k] = rec[k])
  BY Local
<1>4. \A l, ss : l # n => In(Latest(l), ss)' = In(Latest(l), ss) /\ In(Kept(l), ss)' = In(Kept(l), ss)
  BY LocalIn
<1>5. /\ \A l \in Stages : <<n, l>> \in Ahead => Idle(l)
      /\ \A l \in MainStages : n \in MainStages /\ Open(l) => l = n
  BY <1>1 DEF RecordsInv, EngineInv, Stages
<1>6. \A l \in Later : n \in {"PAINT_DEVELOPMENT", "PAINT_PROCUREMENT"} => Idle(l)
  BY <1>5 DEF Ahead, Later, Stages, RecordNodes
<1>7. /\ n = "FIRST_UNIT_PRODUCTION_PLAN" => Idle("TRIAL_PRODUCTION") /\ Idle("CAB_REVIEW")
      /\ n = "TRIAL_PRODUCTION" => Idle("CAB_REVIEW")
      /\ n = "STANDARD_BOARD_PRODUCTION" => Idle("BOARD_DETAIL_UPDATE")
  BY <1>5 DEF Ahead, Stages, RecordNodes
<1>8. NoFuture'
  <2>. SUFFICES ASSUME NEW k \in Keys, rec'[k].status # "NONE"
                PROVE  k[2] <= task[k[1]].round
    BY <1>1 DEF NoFuture
  <2>1. CASE rec[k].status # "NONE"
    BY <2>1 DEF RecordsInv, NoFuture
  <2>2. CASE rec[k].status = "NONE"
    <3>1. k[1] = n /\ k[2] = task[n].round
      BY <2>2 DEF RecordStep
    <3>2. k[2] \in Nat
      BY DEF Keys
    <3>. QED
      BY <3>1, <3>2
  <2>. QED
    BY <2>1, <2>2
<1>9. Unconfirmed'
  <2>1. CASE n = "PAINT_DEVELOPMENT"
    BY <2>1, <1>1 DEF RecordsInv, Unconfirmed, RecordStep, Open, In, Latest, Kept
  <2>2. CASE n # "PAINT_DEVELOPMENT"
    BY <2>2, <1>1, <1>4 DEF RecordsInv, Unconfirmed, Open
  <2>. QED
    BY <2>1, <2>2
<1>10. PlanStands'
  BY <1>1, <1>4, <1>7 DEF RecordsInv, PlanStands, Open, Idle, ConfirmedPlan
<1>11. PaintArrived'
  <2>1. CASE n = "PAINT_PROCUREMENT"
    BY <2>1, <1>1, <1>6 DEF PaintArrived, Idle, Later
  <2>2. CASE n # "PAINT_PROCUREMENT"
    BY <2>2, <1>1, <1>4 DEF RecordsInv, PaintArrived, Idle
  <2>. QED
    BY <2>1, <2>2
<1>12. ProofStands'
  <2>. SUFFICES ASSUME NEW m \in RecordNodes,
                       task[m].status = "DONE", ~task[m].invalid,
                       Rework(m) \/ m = "PAINT_DEVELOPMENT"
                PROVE  OwnProof(m)'
    BY <1>1 DEF ProofStands, Rework
  <2>1. OwnProof(m)
    BY DEF RecordsInv, ProofStands
  <2>2. ~Idle(m) /\ m # n
    BY <1>1 DEF Idle, Open
  <2>. QED
    BY <2>1, <2>2, <1>7, ProofLocal
<1>13. NoStageStarves'
  <2>1. Open("SAMPLE_COLOR_CONFIRMATION") => (\E k \in Latest("PAINT_DEVELOPMENT") : SampleWritable(k))'
    <3>. SUFFICES ASSUME Open("SAMPLE_COLOR_CONFIRMATION")
                  PROVE  (\E k \in Latest("PAINT_DEVELOPMENT") : SampleWritable(k))'
      OBVIOUS
    <3>1. n # "PAINT_DEVELOPMENT"
      BY <1>5 DEF MainStages, Stages, RecordNodes, PrimaryNodes
    <3>2. PICK k \in Latest("PAINT_DEVELOPMENT") : SampleWritable(k)
      BY DEF RecordsInv, NoStageStarves
    <3>3. k \in Latest("PAINT_DEVELOPMENT")'
      BY <3>1, <3>2, <1>3
    <3>4. SampleWritable(k)'
      <4>1. rec'[k] = rec[k]
        BY <3>1, <3>2, <1>3 DEF Latest
      <4>2. k \in In(Kept("PAINT_DEVELOPMENT"), {"DRAFT", "IN_PREPARATION"})'
        BY <3>1, <3>2, <1>4 DEF SampleWritable
      <4>. QED
        BY <3>2, <4>1, <4>2 DEF SampleWritable
    <3>. QED
      BY <3>3, <3>4
  <2>2. Open("BOARD_DETAIL_UPDATE") /\ Rework("BOARD_DETAIL_UPDATE") =>
          (\E b \in In(Latest("STANDARD_BOARD_PRODUCTION"), {"ISSUED"}) : rec[b].current)'
    <3>. SUFFICES ASSUME Open("BOARD_DETAIL_UPDATE"), Rework("BOARD_DETAIL_UPDATE")
                  PROVE  (\E b \in In(Latest("STANDARD_BOARD_PRODUCTION"), {"ISSUED"}) : rec[b].current)'
      OBVIOUS
    <3>1. n # "STANDARD_BOARD_PRODUCTION"
      BY <1>7 DEF Idle, Open
    <3>2. PICK b \in In(Latest("STANDARD_BOARD_PRODUCTION"), {"ISSUED"}) : rec[b].current
      BY DEF RecordsInv, NoStageStarves
    <3>3. b \in In(Latest("STANDARD_BOARD_PRODUCTION"), {"ISSUED"})'
      BY <3>1, <3>2, <1>4
    <3>4. rec'[b] = rec[b]
      BY <3>1, <3>2, <1>3 DEF In, Latest
    <3>. QED
      BY <3>2, <3>3, <3>4
  <2>3. Open("TRIAL_PRODUCTION") => In(Latest("FIRST_UNIT_PRODUCTION_PLAN"), ConfirmedPlan)' # {}
    BY <1>1, <1>10 DEF PlanStands, Open
  <2>4. Open("CAB_REVIEW") => ReviewableTrials' # {}
    <3>. SUFFICES ASSUME Open("CAB_REVIEW")
                  PROVE  ReviewableTrials' # {}
      OBVIOUS
    <3>1. n # "TRIAL_PRODUCTION" /\ n # "FIRST_UNIT_PRODUCTION_PLAN"
      BY <1>7 DEF Idle, Open
    <3>2. PICK t : t \in ReviewableTrials
      BY DEF RecordsInv, NoStageStarves
    <3>3. rec'[t] = rec[t]
      BY <3>1, <3>2, <1>3 DEF ReviewableTrials, In
    <3>4. /\ In(Kept("TRIAL_PRODUCTION"), {"JUDGED"})' = In(Kept("TRIAL_PRODUCTION"), {"JUDGED"})
          /\ Latest("TRIAL_PRODUCTION")' = Latest("TRIAL_PRODUCTION")
          /\ In(Latest("FIRST_UNIT_PRODUCTION_PLAN"), ConfirmedPlan)'
               = In(Latest("FIRST_UNIT_PRODUCTION_PLAN"), ConfirmedPlan)
      BY <3>1, <1>3, <1>4 DEF ConfirmedPlan
    <3>5. t \in ReviewableTrials'
      BY <3>2, <3>3, <3>4, <1>1 DEF ReviewableTrials, Rework
    <3>. QED
      BY <3>5
  <2>. QED
    BY <2>1, <2>2, <2>3, <2>4, <1>1 DEF NoStageStarves, Open, Rework
<1>14. SeriesRestsOnRound'
  <2>. DEFINE cabin == task["CAB_REVIEW"]
              Rests(k) ==
                /\ rec[k].about \in In(Latest("TRIAL_PRODUCTION"), {"JUDGED"})
                /\ cabin.technical =>
                     /\ rec[rec[k].about].about \in In(Latest("FIRST_UNIT_PRODUCTION_PLAN"), ConfirmedPlan)
                     /\ In(Latest("PAINT_PROCUREMENT"), {"ARRIVED"}) # {}
  <2>1. ASSUME ~cabin.invalid, cabin.status \in {"OPEN", "DONE"}, NEW k \in Latest("CAB_REVIEW")'
        PROVE  Rests(k)'
    <3>1. ~Idle("CAB_REVIEW")
      BY <2>1 DEF Idle
    <3>2. n \notin {"PAINT_DEVELOPMENT", "PAINT_PROCUREMENT", "FIRST_UNIT_PRODUCTION_PLAN", "TRIAL_PRODUCTION"}
      BY <3>1, <1>6, <1>7 DEF Later
    <3>3. ASSUME NEW t, t \in In(Latest("TRIAL_PRODUCTION"), {"JUDGED"}), rec'[k].about = t,
                 cabin.technical =>
                   /\ rec[t].about \in In(Latest("FIRST_UNIT_PRODUCTION_PLAN"), ConfirmedPlan)
                   /\ In(Latest("PAINT_PROCUREMENT"), {"ARRIVED"}) # {}
          PROVE  Rests(k)'
      <4>1. t \in In(Latest("TRIAL_PRODUCTION"), {"JUDGED"})'
        BY <3>2, <3>3, <1>4
      <4>2. rec'[t] = rec[t]
        BY <3>2, <3>3, <1>3 DEF In, Latest
      <4>3. /\ In(Latest("FIRST_UNIT_PRODUCTION_PLAN"), ConfirmedPlan)'
                 = In(Latest("FIRST_UNIT_PRODUCTION_PLAN"), ConfirmedPlan)
            /\ In(Latest("PAINT_PROCUREMENT"), {"ARRIVED"})' = In(Latest("PAINT_PROCUREMENT"), {"ARRIVED"})
        BY <3>2, <1>4 DEF ConfirmedPlan
      <4>. QED
        BY <3>3, <4>1, <4>2, <4>3, <1>1
    <3>4. CASE k \in Latest("CAB_REVIEW") /\ rec'[k].about = rec[k].about
      <4>1. Rests(k)
        BY <3>4, <2>1 DEF RecordsInv, SeriesRestsOnRound
      <4>. QED
        BY <4>1, <3>3, <3>4
    <3>5. CASE n = "CAB_REVIEW" /\ rec'[k].about \in ReviewableTrials
      <4>1. rec'[k].about \in In(Latest("TRIAL_PRODUCTION"), {"JUDGED"})
        BY <3>5, <1>1, ReviewableIsLatest DEF RecordsInv
      <4>2. cabin.technical =>
              /\ rec[rec'[k].about].about \in In(Latest("FIRST_UNIT_PRODUCTION_PLAN"), ConfirmedPlan)
              /\ In(Latest("PAINT_PROCUREMENT"), {"ARRIVED"}) # {}
        BY <3>1, <3>5 DEF RecordsInv, PaintArrived, ReviewableTrials
      <4>. QED
        BY <4>1, <4>2, <3>3
    <3>6. CASE n # "CAB_REVIEW"
      <4>1. k \in Latest("CAB_REVIEW") /\ rec'[k] = rec[k]
        BY <3>6, <2>1, <1>3 DEF Latest
      <4>. QED
        BY <4>1, <3>4
    <3>7. CASE n = "CAB_REVIEW"
      <4>1. k \in Keys /\ k[1] = n /\ rec'[k].status # "NONE" /\ k[2] = task[n].round
        BY <3>7, <2>1, <1>1 DEF Latest, Kept
      <4>2. (rec[k].status # "NONE" /\ rec'[k].about = rec[k].about) \/ rec'[k].about \in ReviewableTrials
        BY <4>1, <3>7 DEF RecordStep
      <4>3. rec[k].status # "NONE" => k \in Latest("CAB_REVIEW")
        BY <4>1, <3>7 DEF Latest, Kept
      <4>. QED
        BY <4>2, <4>3, <3>4, <3>5, <3>7
    <3>. QED
      BY <3>6, <3>7
  <2>2. ASSUME NEW m \in {"COLOR_CONSISTENCY_REVIEW", "MASS_PRODUCTION_PLAN", "MASS_PRODUCTION"}, Open(m)
        PROVE  cabin.status = "DONE" /\ In(Latest("CAB_REVIEW"), {"ENDORSED"})' # {}
    <3>1. cabin.status = "DONE" /\ In(Latest("CAB_REVIEW"), {"ENDORSED"}) # {}
      BY <2>2 DEF RecordsInv, SeriesRestsOnRound
    <3>2. n # "CAB_REVIEW"
      BY <3>1, <1>1 DEF Open
    <3>. QED
      BY <3>1, <3>2, <1>4
  <2>. QED
    BY <2>1, <2>2, <1>1 DEF SeriesRestsOnRound, Open
<1>15. OneCurrentBoard'
  <2>1. CASE n = "STANDARD_BOARD_PRODUCTION"
    BY <2>1 DEF RecordsInv, RecordStep
  <2>2. CASE n # "STANDARD_BOARD_PRODUCTION"
    <3>1. Boards' = Boards /\ \A b \in Boards : rec'[b] = rec[b]
      BY <2>2, <1>3 DEF Boards
    <3>. QED
      BY <3>1 DEF RecordsInv, OneCurrentBoard
  <2>. QED
    BY <2>1, <2>2
<1>. QED
  BY <1>2, <1>8, <1>9, <1>10, <1>11, <1>12, <1>13, <1>14, <1>15 DEF RecordsInv

-----------------------------------------------------------------------------
(* Finishing a stage preserves the invariant.                              *)

(* What is open after a finishing step was just opened or was open before  *)
(* and is left alone.                                                      *)
LEMMA FinishOpen ==
  ASSUME TypeOK, NEW n \in Stages, NEW a, Finish(n, a), NEW m \in Stages, Open(m)'
  PROVE  /\ m # n
         /\ \/ m \in Created(n, a)
            \/ m \notin Created(n, a) /\ Open(m) /\ task'[m] = task[m]
<1>1. task'[n].status # "OPEN"
  BY FinishTasks
<1>2. m # n
  BY <1>1 DEF Open
<1>3. CASE m \notin Created(n, a)
  <2>1. CASE ConsistencyReturn(n, a) /\ m \in TechnicalNodes
    BY <2>1, <1>2, <1>3, FinishTasks DEF Open
  <2>2. CASE ~(ConsistencyReturn(n, a) /\ m \in TechnicalNodes)
    <3>1. task'[m] = task[m]
      BY <2>2, <1>2, <1>3, FinishTasks
    <3>. QED
      BY <3>1, <1>2, <1>3 DEF Open
  <2>. QED
    BY <2>1, <2>2
<1>. QED
  BY <1>2, <1>3

(* What is idle stays idle until it is opened.                             *)
LEMMA FinishIdle ==
  ASSUME TypeOK, NEW n \in Stages, NEW a, Finish(n, a),
         NEW m \in Stages, m \notin Created(n, a),
         Idle(m) \/ (ConsistencyReturn(n, a) /\ m \in TechnicalNodes) \/ (m = n /\ ~Concludes(n, a)),
         m = n => ~Concludes(n, a)
  PROVE  Idle(m)'
<1>1. CASE m = n
  BY <1>1, FinishTasks DEF Idle
<1>2. CASE m # n /\ ConsistencyReturn(n, a) /\ m \in TechnicalNodes
  BY <1>2, FinishTasks DEF Idle
<1>3. CASE m # n /\ ~(ConsistencyReturn(n, a) /\ m \in TechnicalNodes)
  <2>1. task'[m] = task[m]
    BY <1>3, FinishTasks
  <2>. QED
    BY <2>1, <1>3 DEF Idle
<1>. QED
  BY <1>1, <1>2, <1>3

(* A finishing step leaves the records of what it does not open.           *)
LEMMA FinishRecords ==
  ASSUME TypeOK, NoFuture, NEW n \in Stages, NEW a, FinishStep(n, a), NEW m \in Stages
  PROVE  /\ Kept(m)' = Kept(m)
         /\ m \in Created(n, a) => Latest(m)' = {}
         /\ m \notin Created(n, a) => task'[m].round = task[m].round /\ Latest(m)' = Latest(m)
         /\ task'[m].round \in Nat /\ task[m].round \in Nat
         /\ task[m].round <= task'[m].round
<1>1. Kept(m)' = Kept(m)
  BY DEF FinishStep, Kept
<1>2. task[m].round \in Nat
  BY RecordBoundsAssumption DEF TypeOK, Tasks
<1>3. Finish(n, a)
  BY DEF FinishStep
<1>4. CASE m \in Created(n, a)
  <2>1. task'[m].round = task[m].round + 1
    BY <1>3, <1>4, FinishTasks
  <2>2. ASSUME NEW k \in Latest(m)' PROVE FALSE
    <3>1. k \in Kept(m) /\ k[2] = task[m].round + 1
      BY <2>1, <2>2, <1>1 DEF Latest
    <3>2. k \in Keys /\ k[1] = m /\ k[2] <= task[m].round
      BY <3>1 DEF Kept, NoFuture
    <3>3. k[2] \in Nat
      BY <3>2 DEF Keys
    <3>. QED
      BY <3>1, <3>2, <3>3, <1>2
  <2>. QED
    BY <2>1, <2>2, <1>1, <1>2, <1>4
<1>5. CASE m \notin Created(n, a)
  <2>1. task'[m].round = task[m].round
    <3>1. CASE m = n
      BY <3>1, <1>3, FinishTasks
    <3>2. CASE m # n /\ ConsistencyReturn(n, a) /\ m \in TechnicalNodes
      BY <3>2, <1>3, <1>5, FinishTasks
    <3>3. CASE m # n /\ ~(ConsistencyReturn(n, a) /\ m \in TechnicalNodes)
      <4>1. task'[m] = task[m]
        BY <3>3, <1>3, <1>5, FinishTasks
      <4>. QED
        BY <4>1
    <3>. QED
      BY <3>1, <3>2, <3>3
  <2>2. Latest(m)' = Latest(m)
    BY <2>1, <1>1 DEF Latest
  <2>. QED
    BY <2>1, <2>2, <1>1, <1>2, <1>5
<1>. QED
  BY <1>4, <1>5

LEMMA FinishIn ==
  ASSUME TypeOK, NoFuture, NEW n \in Stages, NEW a, FinishStep(n, a),
         NEW m \in Stages, NEW ss,
         m = "PAINT_DEVELOPMENT" => ss = {"IN_PREPARATION", "CONFIRMED"},
         m = "FIRST_UNIT_PRODUCTION_PLAN" => ss = ConfirmedPlan,
         m \notin Created(n, a)
  PROVE  In(Latest(m), ss) \subseteq In(Latest(m), ss)'
<1>1. Latest(m)' = Latest(m) /\ Latest(m) \subseteq {k \in Keys : k[1] = m}
  BY FinishRecords DEF Latest, Kept
<1>. QED
  BY <1>1 DEF FinishStep, In

(* The engine's part.                                                      *)
LEMMA FinishOneOpen ==
  ASSUME TypeOK, EngineInv, NEW n \in Stages, NEW a, Finish(n, a),
         NEW m \in MainStages, NEW l \in MainStages, Open(m)', Open(l)'
  PROVE  m = l
<1>1. m \in Stages /\ l \in Stages /\ Open(n)
  BY FinishTasks DEF MainStages
<1>2. CASE m \in Created(n, a) /\ l \in Created(n, a)
  BY <1>2, OneMainOpened
<1>3. ASSUME NEW i \in MainStages, NEW j \in MainStages, i \in Created(n, a), j \notin Created(n, a), Open(j)'
      PROVE  FALSE
  <2>1. j # n /\ Open(j)
    BY <1>3, FinishOpen DEF MainStages
  <2>2. n \in MainStages
    BY <1>3, OneMainOpened
  <2>. QED
    BY <2>1, <2>2, <1>1 DEF EngineInv
<1>4. CASE m \notin Created(n, a) /\ l \notin Created(n, a)
  <2>1. Open(m) /\ Open(l)
    BY <1>1, <1>4, FinishOpen
  <2>. QED
    BY <2>1 DEF EngineInv
<1>. QED
  BY <1>2, <1>3, <1>4

LEMMA FinishAhead ==
  ASSUME TypeOK, EngineInv, NEW n \in Stages, NEW a, Finish(n, a), n \in ReviewNodes \/ Concludes(n, a),
         NEW m \in Stages, NEW l \in Stages, <<m, l>> \in Ahead, Open(m)'
  PROVE  Idle(l)'
<1>1. Open(n) /\ m # n
  BY FinishTasks, FinishOpen
<1>2. \A i, j \in Stages : <<i, j>> \in Ahead /\ Open(i) => Idle(j)
  BY DEF EngineInv
<1>3. \A i, j \in MainStages : Open(i) /\ Open(j) => i = j
  BY DEF EngineInv
<1>4. ~Idle(n)
  BY <1>1 DEF Idle, Open
<1>5. l \in Later /\ l \in TechnicalNodes
  BY DEF Ahead, Later, TechnicalNodes
<1>6. CASE m \notin Created(n, a)
  <2>1. Open(m)
    BY <1>6, FinishOpen
  <2>2. Idle(l) /\ l # n
    BY <2>1, <1>2, <1>4
  <2>3. l \notin Created(n, a)
    <3>. SUFFICES ASSUME l \in Created(n, a)
                  PROVE  FALSE
      OBVIOUS
    <3>1. CASE l = "STANDARD_BOARD_PRODUCTION" \/ l = "FIRST_UNIT_PRODUCTION_PLAN"
      <4>1. n = "PAINT_PROCUREMENT"
        BY <3>1, Openers
      <4>2. m \in {"PAINT_DEVELOPMENT", "SAMPLE_COLOR_CONFIRMATION", "PAINT_PROCUREMENT"}
        BY <3>1 DEF Ahead
      <4>. QED
        BY <4>1, <4>2, <2>1, <1>1, <1>3 DEF MainStages, Stages, RecordNodes, PrimaryNodes
    <3>2. CASE l = "BOARD_DETAIL_UPDATE"
      <4>1. n = "STANDARD_BOARD_PRODUCTION"
        BY <3>2, Openers
      <4>2. m = n \/ <<m, n>> \in Ahead
        BY <3>2, <4>1 DEF Ahead, Later
      <4>. QED
        BY <4>2, <2>1, <1>1, <1>2, <1>4
    <3>3. CASE l = "TRIAL_PRODUCTION"
      <4>1. n = "FIRST_UNIT_PRODUCTION_PLAN" \/ n = "CAB_REVIEW"
        BY <3>3, Openers
      <4>2. m = n \/ <<m, n>> \in Ahead
        BY <3>3, <4>1 DEF Ahead, Later
      <4>. QED
        BY <4>2, <2>1, <1>1, <1>2, <1>4
    <3>4. CASE l = "CAB_REVIEW"
      <4>1. n = "TRIAL_PRODUCTION"
        BY <3>4, Openers
      <4>2. m = n \/ <<m, n>> \in Ahead
        BY <3>4, <4>1 DEF Ahead, Later
      <4>. QED
        BY <4>2, <2>1, <1>1, <1>2, <1>4
    <3>. QED
      BY <3>1, <3>2, <3>3, <3>4, <1>5 DEF Later
  <2>. QED
    BY <2>2, <2>3, FinishIdle
<1>7. CASE m \in Created(n, a)
  <2>1. CASE <<n, l>> \in Ahead
    <3>1. Idle(l) /\ l # n
      BY <2>1, <1>1, <1>2, <1>4
    <3>2. l \notin Created(n, a)
      <4>. SUFFICES ASSUME l \in Created(n, a)
                    PROVE  FALSE
        OBVIOUS
      <4>1. <<n, l>> \in {<<"FIRST_UNIT_PRODUCTION_PLAN", "TRIAL_PRODUCTION">>,
                          <<"TRIAL_PRODUCTION", "CAB_REVIEW">>,
                          <<"STANDARD_BOARD_PRODUCTION", "BOARD_DETAIL_UPDATE">>,
                          <<"PAINT_PROCUREMENT", "STANDARD_BOARD_PRODUCTION">>,
                          <<"PAINT_PROCUREMENT", "FIRST_UNIT_PRODUCTION_PLAN">>}
        BY <2>1, Openers DEF Ahead, Later
      <4>2. /\ m # n
            /\ m = "SAMPLE_COLOR_CONFIRMATION" => n = "PAINT_DEVELOPMENT"
            /\ m = "PAINT_PROCUREMENT" => n = "SAMPLE_COLOR_CONFIRMATION"
            /\ m \in {"STANDARD_BOARD_PRODUCTION", "FIRST_UNIT_PRODUCTION_PLAN"} => n = "PAINT_PROCUREMENT"
            /\ m = "TRIAL_PRODUCTION" => n \in {"FIRST_UNIT_PRODUCTION_PLAN", "CAB_REVIEW"}
            /\ m = "PAINT_DEVELOPMENT" => n \in {"SAMPLE_COLOR_CONFIRMATION", "COLOR_CONSISTENCY_REVIEW"}
        BY <1>7, Openers DEF ConsistencyReturn
      <4>3. /\ m = "STANDARD_BOARD_PRODUCTION" => l = "BOARD_DETAIL_UPDATE"
            /\ m = "FIRST_UNIT_PRODUCTION_PLAN" => l \in {"TRIAL_PRODUCTION", "CAB_REVIEW"}
            /\ m = "TRIAL_PRODUCTION" => l = "CAB_REVIEW"
            /\ m \in {"PAINT_DEVELOPMENT", "SAMPLE_COLOR_CONFIRMATION", "PAINT_PROCUREMENT",
                      "STANDARD_BOARD_PRODUCTION", "FIRST_UNIT_PRODUCTION_PLAN", "TRIAL_PRODUCTION"}
        BY DEF Ahead
      <4>. QED
        BY <4>1, <4>2, <4>3
    <3>. QED
      BY <3>1, <3>2, FinishIdle
  <2>2. CASE m = "PAINT_DEVELOPMENT" /\ ConsistencyReturn(n, a)
    <3>1. n = "COLOR_CONSISTENCY_REVIEW"
      BY <2>2 DEF ConsistencyReturn
    <3>2. l # n /\ l \notin Created(n, a)
      BY <3>1, <1>5, Openers DEF Later
    <3>. QED
      BY <3>2, <2>2, <1>5, FinishIdle
  <2>3. CASE m = "TRIAL_PRODUCTION" /\ n = "CAB_REVIEW" /\ ~Concludes(n, a)
    <3>1. l = n
      BY <2>3 DEF Ahead
    <3>2. l \notin Created(n, a)
      BY <3>1, Openers
    <3>. QED
      BY <3>1, <3>2, <2>3, FinishIdle
  <2>4. <<n, l>> \in Ahead
        \/ (m = "PAINT_DEVELOPMENT" /\ ConsistencyReturn(n, a))
        \/ (m = "TRIAL_PRODUCTION" /\ n = "CAB_REVIEW" /\ ~Concludes(n, a))
    <3>1. CASE m \in {"PAINT_DEVELOPMENT", "SAMPLE_COLOR_CONFIRMATION", "PAINT_PROCUREMENT"}
      BY <3>1, <1>5, <1>7, Openers DEF Ahead
    <3>2. CASE m \in {"STANDARD_BOARD_PRODUCTION", "FIRST_UNIT_PRODUCTION_PLAN"}
      BY <3>2, <1>5, <1>7, Openers DEF Ahead
    <3>3. CASE m = "TRIAL_PRODUCTION"
      <4>1. l = "CAB_REVIEW"
        BY <3>3 DEF Ahead
      <4>2. n = "FIRST_UNIT_PRODUCTION_PLAN" \/ (n = "CAB_REVIEW" /\ ~Concludes(n, a))
        BY <3>3, <1>7, Openers
      <4>. QED
        BY <3>3, <4>1, <4>2 DEF Ahead
    <3>. QED
      BY <3>1, <3>2, <3>3 DEF Ahead
  <2>. QED
    BY <2>1, <2>2, <2>3, <2>4
<1>. QED
  BY <1>6, <1>7

LEMMA FinishEngine ==
  ASSUME TypeOK, EngineInv, NoFuture, NEW n \in Stages, NEW a, FinishStep(n, a)
  PROVE  EngineInv'
<1>. DEFINE board  == "STANDARD_BOARD_PRODUCTION"
            detail == "BOARD_DETAIL_UPDATE"
            trial  == "TRIAL_PRODUCTION"
            cabin  == "CAB_REVIEW"
<1>1. Finish(n, a) /\ (n \in ReviewNodes \/ Concludes(n, a)) /\ Open(n)
  BY FinishTasks DEF FinishStep
<1>2. \A m, l \in MainStages : Open(m)' /\ Open(l)' => m = l
  BY <1>1, FinishOneOpen
<1>3. \A m, l \in Stages : <<m, l>> \in Ahead /\ Open(m)' => Idle(l)'
  BY <1>1, FinishAhead
<1>4. board \in Stages /\ detail \in Stages /\ trial \in MainStages /\ cabin \in MainStages /\ MainStages \subseteq Stages
  BY DEF MainStages, Stages, RecordNodes, PrimaryNodes
<1>5. \A m \in {board, detail, trial, cabin} :
        /\ m \in Created(n, a) => task'[m].round = task[m].round + 1 /\ Open(m)'
        /\ m \notin Created(n, a) => task'[m].round = task[m].round /\ (Open(m)' => Open(m) /\ m # n)
        /\ task[m].round \in Nat
  <2>1. \A m \in {board, detail, trial, cabin} : m \in Stages
    BY <1>4
  <2>2. \A m \in {board, detail, trial, cabin} :
          m \in Created(n, a) => task'[m].round = task[m].round + 1 /\ Open(m)'
    BY <1>1, FinishTasks DEF Open
  <2>3. \A m \in {board, detail, trial, cabin} :
          m \notin Created(n, a) => task'[m].round = task[m].round /\ (Open(m)' => Open(m) /\ m # n)
    BY <2>1, <1>1, FinishOpen, FinishRecords
  <2>4. \A m \in {board, detail, trial, cabin} : task[m].round \in Nat
    BY <2>1, FinishRecords
  <2>. QED
    BY <2>2, <2>3, <2>4
<1>6. /\ task[detail].round <= task[board].round
      /\ Open(board) => task[detail].round < task[board].round
      /\ task[trial].round = task[cabin].round + (IF Open(trial) THEN 1 ELSE 0)
  BY DEF EngineInv
<1>7. /\ task'[detail].round <= task'[board].round
      /\ Open(board)' => task'[detail].round < task'[board].round
  <2>1. CASE board \in Created(n, a)
    <3>1. n = "PAINT_PROCUREMENT"
      BY <2>1, Openers
    <3>2. detail \notin Created(n, a)
      BY <3>1, Openers
    <3>. QED
      BY <2>1, <3>2, <1>5, <1>6
  <2>2. CASE detail \in Created(n, a)
    <3>1. n = board
      BY <2>2, Openers
    <3>2. board \notin Created(n, a)
      BY <3>1, Openers
    <3>. QED
      BY <2>2, <3>1, <3>2, <1>1, <1>5, <1>6
  <2>3. CASE board \notin Created(n, a) /\ detail \notin Created(n, a)
    BY <2>3, <1>5, <1>6
  <2>. QED
    BY <2>1, <2>2, <2>3
<1>8. task'[trial].round = task'[cabin].round + (IF Open(trial)' THEN 1 ELSE 0)
  <2>1. CASE trial \in Created(n, a)
    <3>1. n \in {"FIRST_UNIT_PRODUCTION_PLAN", cabin}
      BY <2>1, Openers
    <3>2. n \in MainStages /\ n # trial
      BY <3>1, <1>4 DEF MainStages, Stages, RecordNodes, PrimaryNodes
    <3>3. ~Open(trial)
      BY <3>2, <1>1, <1>4 DEF EngineInv
    <3>4. cabin \notin Created(n, a)
      BY <3>1, Openers
    <3>. QED
      BY <2>1, <3>3, <3>4, <1>5, <1>6
  <2>2. CASE cabin \in Created(n, a)
    <3>1. n = trial
      BY <2>2, Openers
    <3>2. trial \notin Created(n, a)
      BY <3>1, Openers
    <3>. QED
      BY <2>2, <3>1, <3>2, <1>1, <1>5, <1>6
  <2>3. CASE trial \notin Created(n, a) /\ cabin \notin Created(n, a)
    <3>1. n # trial
      <4>. SUFFICES ASSUME n = trial
                    PROVE  FALSE
        OBVIOUS
      <4>1. Concludes(n, a)
        BY <1>1 DEF ReviewNodes
      <4>2. cabin \in NextNodes(n, a)
        BY <4>1 DEF NextNodes, ForwardEdges, NodeCodes, PrimaryNodes
      <4>. QED
        BY <4>2, <2>3, <1>4 DEF Created, OnceNodes
    <3>2. Open(trial) => Open(trial)'
      <4>. SUFFICES ASSUME Open(trial)
                    PROVE  Open(trial)'
        OBVIOUS
      <4>1. n # "COLOR_CONSISTENCY_REVIEW"
        BY <1>1, <1>4 DEF EngineInv, MainStages, Stages, RecordNodes, PrimaryNodes
      <4>2. task'[trial] = task[trial]
        BY <4>1, <3>1, <2>3, <1>1, <1>4, FinishTasks DEF ConsistencyReturn
      <4>. QED
        BY <4>2 DEF Open
    <3>. QED
      BY <2>3, <3>2, <1>5, <1>6
  <2>. QED
    BY <2>1, <2>2, <2>3
<1>. QED
  BY <1>2, <1>3, <1>7, <1>8 DEF EngineInv

(* What a stage rests on stays, unless what it rests on opens again.       *)
LEMMA FinishProof ==
  ASSUME TypeOK, NoFuture, NEW n \in Stages, NEW a, FinishStep(n, a),
         NEW m \in RecordNodes, m \notin Created(n, a),
         m = "BOARD_DETAIL_UPDATE" => "STANDARD_BOARD_PRODUCTION" \notin Created(n, a),
         m = "TRIAL_PRODUCTION" => "FIRST_UNIT_PRODUCTION_PLAN" \notin Created(n, a),
         OwnProof(m)
  PROVE  OwnProof(m)'
<1>1. /\ \A k \in Keys : rec'[k].current = rec[k].current /\ rec'[k].about = rec[k].about
      /\ m \in Stages /\ Finish(n, a)
  BY DEF FinishStep, Stages
<1>2. \A l, ss : In(Latest(l), ss) \subseteq Keys
  BY DEF In, Latest, Kept
<1>3. CASE m = "PAINT_DEVELOPMENT"
  <2>1. PICK k \in In(Latest(m), {"IN_PREPARATION", "CONFIRMED"}) : rec[k].current
    BY <1>3 DEF OwnProof
  <2>2. k \in In(Latest(m), {"IN_PREPARATION", "CONFIRMED"})'
    BY <2>1, <1>1, <1>3, FinishIn
  <2>. QED
    BY <2>1, <2>2, <1>1, <1>2, <1>3 DEF OwnProof
<1>4. CASE m = "STANDARD_BOARD_PRODUCTION"
  <2>1. PICK k \in In(Latest(m), {"ISSUED"}) : rec[k].current
    BY <1>4 DEF OwnProof
  <2>2. k \in In(Latest(m), {"ISSUED"})'
    BY <2>1, <1>1, <1>4, FinishIn
  <2>. QED
    BY <2>1, <2>2, <1>1, <1>2, <1>4 DEF OwnProof
<1>5. CASE m = "BOARD_DETAIL_UPDATE"
  <2>. DEFINE board == "STANDARD_BOARD_PRODUCTION"
  <2>1. PICK k \in In(Latest(m), {"UPDATED"}) :
          rec[k].about \in In(Latest(board), {"ISSUED"}) /\ rec[rec[k].about].current
    BY <1>5 DEF OwnProof
  <2>2. k \in In(Latest(m), {"UPDATED"})'
    BY <2>1, <1>1, <1>5, FinishIn
  <2>3. rec[k].about \in In(Latest(board), {"ISSUED"})'
    BY <2>1, <1>5, FinishIn DEF Stages, RecordNodes
  <2>4. rec'[k].about = rec[k].about /\ rec'[rec[k].about].current
    BY <2>1, <1>1, <1>2
  <2>. QED
    BY <2>2, <2>3, <2>4, <1>5 DEF OwnProof
<1>6. CASE m = "TRIAL_PRODUCTION"
  <2>. DEFINE plan == "FIRST_UNIT_PRODUCTION_PLAN"
  <2>1. PICK k \in In(Latest(m), {"JUDGED"}) :
          task[m].technical => rec[k].about \in In(Latest(plan), ConfirmedPlan)
    BY <1>6 DEF OwnProof
  <2>2. k \in In(Latest(m), {"JUDGED"})'
    BY <2>1, <1>1, <1>6, FinishIn
  <2>3. In(Latest(plan), ConfirmedPlan) \subseteq In(Latest(plan), ConfirmedPlan)'
    BY <1>6, FinishIn DEF Stages, RecordNodes, ConfirmedPlan
  <2>4. rec'[k].about = rec[k].about
    BY <2>1, <1>1, <1>2
  <2>5. task'[m].technical = task[m].technical
    <3>1. CASE m = n
      BY <3>1, <1>1, FinishTasks
    <3>2. CASE m # n /\ ConsistencyReturn(n, a) /\ m \in TechnicalNodes
      BY <3>2, <1>1, FinishTasks
    <3>3. CASE m # n /\ ~(ConsistencyReturn(n, a) /\ m \in TechnicalNodes)
      <4>1. task'[m] = task[m]
        BY <3>3, <1>1, FinishTasks
      <4>. QED
        BY <4>1
    <3>. QED
      BY <3>1, <3>2, <3>3
  <2>. QED
    BY <2>1, <2>2, <2>3, <2>4, <2>5, <1>6 DEF OwnProof, ConfirmedPlan
<1>7. CASE m \in {"PAINT_PROCUREMENT", "PERFORMANCE_TEST", "FIRST_UNIT_PRODUCTION_PLAN"}
  BY <1>1, <1>7, FinishIn DEF OwnProof, ConfirmedPlan
<1>8. CASE m \notin {"PAINT_DEVELOPMENT", "PAINT_PROCUREMENT", "PERFORMANCE_TEST", "STANDARD_BOARD_PRODUCTION",
                     "BOARD_DETAIL_UPDATE", "FIRST_UNIT_PRODUCTION_PLAN", "TRIAL_PRODUCTION"}
  BY <1>8 DEF OwnProof
<1>. QED
  BY <1>3, <1>4, <1>5, <1>6, <1>7, <1>8

(* A first round qualifies on any record, a later one on its own.          *)
LEMMA FirstRound ==
  ASSUME TypeOK, NoFuture, NEW n \in Stages, task[n].round <= 1, NEW k \in Kept(n)
  PROVE  k \in Latest(n)
<1>1. k \in Keys /\ k[1] = n /\ rec[k].status # "NONE"
  BY DEF Kept
<1>2. k[2] <= task[n].round /\ k[2] \in 1 .. MaxRound /\ MaxRound \in Nat
  BY <1>1, RecordBoundsAssumption DEF NoFuture, Keys
<1>3. task[n].round \in Nat
  BY RecordBoundsAssumption DEF TypeOK, Tasks
<1>4. k[2] = task[n].round
  BY <1>2, <1>3
<1>. QED
  BY <1>4 DEF Latest

LEMMA FinishStepKeeps ==
  ASSUME RecordsInv, TypeOK', NEW n \in Stages, NEW a, FinishStep(n, a)
  PROVE  RecordsInv'
<1>. DEFINE dev    == "PAINT_DEVELOPMENT"
            sample == "SAMPLE_COLOR_CONFIRMATION"
            paint  == "PAINT_PROCUREMENT"
            board  == "STANDARD_BOARD_PRODUCTION"
            detail == "BOARD_DETAIL_UPDATE"
            plan   == "FIRST_UNIT_PRODUCTION_PLAN"
            trial  == "TRIAL_PRODUCTION"
            cabin  == "CAB_REVIEW"
<1>1. TypeOK /\ EngineInv /\ NoFuture
  BY DEF RecordsInv
<1>2. Finish(n, a) /\ Open(n)
  BY <1>1, FinishTasks DEF FinishStep
<1>3. EngineInv'
  BY <1>1, FinishEngine
<1>4. /\ \A k \in Keys : rec'[k].current = rec[k].current /\ rec'[k].about = rec[k].about
      /\ \A l, ss : In(Latest(l), ss) \subseteq Keys /\ In(Kept(l), ss) \subseteq Keys
  BY DEF FinishStep, In, Latest, Kept
<1>5. RecordNodes \subseteq Stages /\ {dev, sample, paint, board, detail, plan, trial, cabin} \subseteq Stages
      /\ {dev, sample, paint, plan, trial, cabin, "COLOR_CONSISTENCY_REVIEW", "MASS_PRODUCTION_PLAN",
          "MASS_PRODUCTION"} \subseteq MainStages
      /\ MainStages \subseteq Stages
  BY DEF Stages, RecordNodes, MainStages, PrimaryNodes
<1>6. \A l \in Stages : l \in Created(n, a) => Open(l)' /\ l # n
  BY <1>1, <1>2, FinishTasks, Openers DEF Open
<1>7. \A m, l \in Stages : <<m, l>> \in Ahead /\ m \in Created(n, a) => Idle(l)'
  BY <1>3, <1>6 DEF EngineInv
<1>8. /\ paint \in Created(n, a) => Idle(plan)' /\ Idle(trial)' /\ Idle(cabin)'
      /\ plan \in Created(n, a) => Idle(trial)' /\ Idle(cabin)'
      /\ trial \in Created(n, a) => Idle(cabin)'
      /\ board \in Created(n, a) => Idle(detail)'
  BY <1>5, <1>7 DEF Ahead, Later
<1>9. \A l \in Stages : Open(l)' => ~Idle(l)'
  BY DEF Open, Idle
<1>10. \A m, l \in MainStages : Open(m)' /\ Open(l)' => m = l
  BY <1>3 DEF EngineInv
<1>11. \A l \in Stages : Open(l)' /\ l \notin Created(n, a) => l # n /\ Open(l) /\ task'[l] = task[l]
  BY <1>1, <1>2, FinishOpen
<1>12. \A l \in Stages : l \in Created(n, a) =>
         /\ task'[l].technical = (ConsistencyReturn(n, a) \/ task[n].technical)
         /\ task'[l].round = task[l].round + 1
  BY <1>1, <1>2, FinishTasks
<1>13. \A l \in Stages : l \notin Created(n, a) /\ l # n /\ ~Idle(l)' => task'[l] = task[l]
  BY <1>1, <1>2, FinishTasks DEF Idle
<1>14. \A l \in Stages : task[l].round \in Nat /\ task'[l].round \in Nat
  BY <1>1, FinishRecords
<1>15. NoFuture'
  <2>. SUFFICES ASSUME NEW k \in Keys, rec'[k].status # "NONE"
                PROVE  k[2] <= task'[k[1]].round
    BY DEF NoFuture
  <2>1. rec[k].status # "NONE"
    BY DEF FinishStep
  <2>2. k[1] \in Stages /\ k[2] \in Nat
    BY <1>5 DEF Keys
  <2>3. k[2] <= task[k[1]].round
    BY <2>1, <1>1 DEF NoFuture
  <2>4. task[k[1]].round <= task'[k[1]].round
    BY <2>2, <1>1, FinishRecords
  <2>. QED
    BY <2>2, <2>3, <2>4, <1>14
<1>16. Unconfirmed'
  <2>. SUFFICES ASSUME Open(dev)' \/ Open(sample)', NEW k \in In(Latest(dev), {"CONFIRMED"})'
                PROVE  FALSE
    BY DEF Unconfirmed
  <2>1. dev \notin Created(n, a)
    <3>1. k \in Latest(dev)'
      BY DEF In
    <3>. QED
      BY <3>1, <1>1, <1>5, FinishRecords
  <2>2. Latest(dev)' = Latest(dev)
    BY <2>1, <1>1, <1>5, FinishRecords
  <2>3. k \in Latest(dev) /\ k \in Keys /\ k[1] = dev /\ rec'[k].status = "CONFIRMED"
    BY <2>2 DEF In, Latest, Kept
  <2>4. n # sample
    <3>1. CASE Open(dev)'
      <4>1. Open(dev)
        BY <3>1, <2>1, <1>5, <1>11
      <4>. QED
        BY <4>1, <1>2, <1>1, <1>5 DEF EngineInv
    <3>2. CASE Open(sample)'
      BY <3>2, <1>2, <1>1, <1>5, FinishOpen
    <3>. QED
      BY <3>1, <3>2
  <2>5. rec[k].status = "CONFIRMED"
    BY <2>3, <2>4 DEF FinishStep
  <2>6. Open(dev) \/ Open(sample)
    <3>1. sample \in Created(n, a) => n = dev
      BY Openers
    <3>. QED
      BY <3>1, <2>1, <1>2, <1>5, <1>11
  <2>. QED
    BY <2>3, <2>5, <2>6 DEF RecordsInv, Unconfirmed, In
<1>17. PlanStands'
  <2>. SUFFICES ASSUME Open(trial)' \/ Open(cabin)'
                PROVE  In(Latest(plan), ConfirmedPlan)' # {}
    BY DEF PlanStands
  <2>1. plan \notin Created(n, a)
    BY <1>5, <1>8, <1>9
  <2>2. In(Latest(plan), ConfirmedPlan) \subseteq In(Latest(plan), ConfirmedPlan)'
    BY <2>1, <1>1, <1>5, FinishIn DEF ConfirmedPlan
  <2>3. In(Latest(plan), ConfirmedPlan) # {}
    <3>1. CASE Open(trial) \/ Open(cabin)
      BY <3>1 DEF RecordsInv, PlanStands
    <3>2. CASE ~(Open(trial) \/ Open(cabin))
      <4>1. trial \in Created(n, a) \/ cabin \in Created(n, a)
        BY <3>2, <1>5, <1>11
      <4>2. n = plan
        BY <4>1, <3>2, <1>2, Openers
      <4>3. EngineAllows(plan)
        BY <4>2 DEF FinishStep, EvidenceNodes
      <4>4. CASE Rework(plan)
        BY <4>3, <4>4 DEF EngineAllows, OwnProof
      <4>5. CASE ~Rework(plan)
        <5>1. PICK k : k \in In(Kept(plan), ConfirmedPlan)
          BY <4>3 DEF EngineAllows
        <5>2. task[plan].round <= 1
          BY <4>5, <1>5, <1>14 DEF Rework
        <5>3. k \in Latest(plan)
          BY <5>1, <5>2, <1>1, <1>5, FirstRound DEF In
        <5>. QED
          BY <5>1, <5>3 DEF In
      <4>. QED
        BY <4>4, <4>5
    <3>. QED
      BY <3>1, <3>2
  <2>. QED
    BY <2>2, <2>3
<1>18. PaintArrived'
  <2>. SUFFICES ASSUME NEW m \in {plan, trial, cabin}, ~Idle(m)', task'[m].technical
                PROVE  In(Latest(paint), {"ARRIVED"})' # {}
    BY DEF PaintArrived
  <2>1. paint \notin Created(n, a)
    BY <1>8
  <2>2. In(Latest(paint), {"ARRIVED"}) \subseteq In(Latest(paint), {"ARRIVED"})'
    BY <2>1, <1>1, <1>5, FinishIn
  <2>3. In(Latest(paint), {"ARRIVED"}) # {}
    <3>1. CASE m \in Created(n, a)
      <4>1. n \in {paint, plan, trial, cabin}
        BY <3>1, Openers
      <4>2. task[n].technical
        BY <4>1, <3>1, <1>5, <1>12 DEF ConsistencyReturn
      <4>3. CASE n = paint
        <5>1. EngineAllows(paint) /\ Rework(paint)
          BY <4>2, <4>3 DEF FinishStep, EvidenceNodes, Rework
        <5>. QED
          BY <5>1 DEF EngineAllows, OwnProof
      <4>4. CASE n \in {plan, trial, cabin}
        <5>1. ~Idle(n)
          BY <1>2 DEF Idle, Open
        <5>. QED
          BY <5>1, <4>2, <4>4 DEF RecordsInv, PaintArrived
      <4>. QED
        BY <4>1, <4>3, <4>4
    <3>2. CASE m \notin Created(n, a) /\ m = n
      <4>1. ~Idle(m)
        BY <3>2, <1>2 DEF Idle, Open
      <4>2. task[m].technical
        BY <3>2, <1>1, <1>2, FinishTasks
      <4>. QED
        BY <4>1, <4>2 DEF RecordsInv, PaintArrived
    <3>3. CASE m \notin Created(n, a) /\ m # n
      <4>1. task'[m] = task[m]
        BY <3>3, <1>5, <1>13
      <4>. QED
        BY <4>1 DEF RecordsInv, PaintArrived, Idle
    <3>. QED
      BY <3>1, <3>2, <3>3
  <2>. QED
    BY <2>2, <2>3
<1>19. ProofStands'
  <2>. SUFFICES ASSUME NEW m \in RecordNodes,
                       task'[m].status = "DONE", ~task'[m].invalid,
                       Rework(m)' \/ m = dev
                PROVE  OwnProof(m)'
    BY DEF ProofStands
  <2>1. m \notin Created(n, a) /\ ~Idle(m)'
    BY <1>5, <1>6 DEF Open, Idle
  <2>2. OwnProof(m)
    <3>1. CASE m = n
      <4>1. Rework(m) \/ m = dev
        BY <3>1, <1>1, <1>2, FinishTasks DEF Rework
      <4>2. CASE m \in EvidenceNodes
        BY <4>1, <4>2, <3>1 DEF FinishStep, EngineAllows
      <4>3. CASE m \notin EvidenceNodes
        BY <4>3 DEF OwnProof, EvidenceNodes
      <4>. QED
        BY <4>2, <4>3
    <3>2. CASE m # n
      <4>1. task'[m] = task[m]
        BY <3>2, <2>1, <1>5, <1>13
      <4>. QED
        BY <4>1 DEF RecordsInv, ProofStands, Rework
    <3>. QED
      BY <3>1, <3>2
  <2>. QED
    BY <2>1, <2>2, <1>1, <1>8, FinishProof
<1>20. Open(sample)' => (\E k \in Latest(dev) : SampleWritable(k))'
  <2>. SUFFICES ASSUME Open(sample)'
                PROVE  (\E k \in Latest(dev) : SampleWritable(k))'
    OBVIOUS
  <2>1. n # sample /\ dev \notin Created(n, a)
    BY <1>1, <1>2, <1>5, <1>6, <1>10, FinishOpen
  <2>2. PICK k \in Latest(dev) : rec[k].status \in {"DRAFT", "IN_PREPARATION"} /\ rec[k].current
    <3>1. CASE sample \in Created(n, a)
      <4>1. n = dev
        BY <3>1, Openers
      <4>2. OwnProof(dev)
        BY <4>1 DEF FinishStep, EvidenceNodes, EngineAllows
      <4>3. PICK k \in In(Latest(dev), {"IN_PREPARATION", "CONFIRMED"}) : rec[k].current
        BY <4>2 DEF OwnProof
      <4>4. rec[k].status # "CONFIRMED"
        BY <4>1, <4>3, <1>2 DEF RecordsInv, Unconfirmed, In
      <4>. QED
        BY <4>3, <4>4 DEF In
    <3>2. CASE sample \notin Created(n, a)
      <4>1. Open(sample)
        BY <3>2, <1>5, <1>11
      <4>. QED
        BY <4>1 DEF RecordsInv, NoStageStarves, SampleWritable, In
    <3>. QED
      BY <3>1, <3>2
  <2>3. k \in Latest(dev)' /\ k \in Kept(dev)'
    BY <2>1, <2>2, <1>1, <1>5, FinishRecords DEF Latest
  <2>4. rec'[k].status = rec[k].status /\ rec'[k].current
    BY <2>1, <2>2 DEF FinishStep, Latest, Kept
  <2>. QED
    BY <2>2, <2>3, <2>4 DEF SampleWritable, In
<1>21. Open(detail)' /\ Rework(detail)' => (\E b \in In(Latest(board), {"ISSUED"}) : rec[b].current)'
  <2>. SUFFICES ASSUME Open(detail)', Rework(detail)'
                PROVE  (\E b \in In(Latest(board), {"ISSUED"}) : rec[b].current)'
    OBVIOUS
  <2>1. board \notin Created(n, a)
    BY <1>5, <1>8, <1>9
  <2>2. PICK b \in In(Latest(board), {"ISSUED"}) : rec[b].current
    <3>1. CASE detail \in Created(n, a)
      <4>1. n = board
        BY <3>1, Openers
      <4>2. (task'[detail].technical <=> task[board].technical) /\ task'[detail].round = task[detail].round + 1
        BY <4>1, <3>1, <1>5, <1>12 DEF ConsistencyReturn
      <4>3. task[detail].round < task[board].round
        BY <4>1, <1>1, <1>2 DEF EngineInv
      <4>4. Rework(board)
        BY <4>2, <4>3, <1>5, <1>14 DEF Rework
      <4>5. OwnProof(board)
        BY <4>1, <4>4 DEF FinishStep, EvidenceNodes, EngineAllows
      <4>. QED
        BY <4>5 DEF OwnProof
    <3>2. CASE detail \notin Created(n, a)
      <4>1. Open(detail) /\ Rework(detail)
        BY <3>2, <1>5, <1>11 DEF Rework
      <4>. QED
        BY <4>1 DEF RecordsInv, NoStageStarves
    <3>. QED
      BY <3>1, <3>2
  <2>3. b \in In(Latest(board), {"ISSUED"})'
    BY <2>1, <2>2, <1>1, <1>5, FinishIn
  <2>. QED
    BY <2>2, <2>3, <1>4
<1>22. Open(cabin)' => ReviewableTrials' # {}
  <2>. SUFFICES ASSUME Open(cabin)'
                PROVE  ReviewableTrials' # {}
    OBVIOUS
  <2>1. trial \notin Created(n, a) /\ plan \notin Created(n, a)
    BY <1>5, <1>8, <1>9
  <2>2. PICK t \in In(Kept(trial), {"JUDGED"}) :
          /\ Rework(cabin)' => t \in Latest(trial)
          /\ task'[cabin].technical => rec[t].about \in In(Latest(plan), ConfirmedPlan)
    <3>1. CASE cabin \in Created(n, a)
      <4>1. n = trial
        BY <3>1, Openers
      <4>2. (task'[cabin].technical <=> task[trial].technical) /\ task'[cabin].round = task[cabin].round + 1
        BY <4>1, <3>1, <1>5, <1>12 DEF ConsistencyReturn
      <4>3. task[trial].round = task[cabin].round + 1
        BY <4>1, <1>1, <1>2 DEF EngineInv
      <4>4. Rework(cabin)' => Rework(trial)
        BY <4>2, <4>3 DEF Rework
      <4>5. EngineAllows(trial)
        BY <4>1 DEF FinishStep, EvidenceNodes
      <4>6. CASE Rework(trial)
        <5>1. PICK t \in In(Latest(trial), {"JUDGED"}) :
                task[trial].technical => rec[t].about \in In(Latest(plan), ConfirmedPlan)
          BY <4>5, <4>6 DEF EngineAllows, OwnProof
        <5>. QED
          BY <5>1, <4>2 DEF In, Latest
      <4>7. CASE ~Rework(trial)
        <5>1. PICK t : t \in In(Kept(trial), {"JUDGED"})
          BY <4>5 DEF EngineAllows
        <5>2. ~Rework(cabin)' /\ ~task'[cabin].technical
          BY <4>4, <4>7 DEF Rework
        <5>. QED
          BY <5>1, <5>2
      <4>. QED
        BY <4>6, <4>7
    <3>2. CASE cabin \notin Created(n, a)
      <4>1. Open(cabin) /\ task'[cabin] = task[cabin]
        BY <3>2, <1>5, <1>11
      <4>2. PICK t : t \in ReviewableTrials
        BY <4>1 DEF RecordsInv, NoStageStarves
      <4>. QED
        BY <4>1, <4>2 DEF ReviewableTrials, Rework
    <3>. QED
      BY <3>1, <3>2
  <2>3. t \in In(Kept(trial), {"JUDGED"})' /\ rec'[t].about = rec[t].about
    BY <2>2, <1>4 DEF In, Kept, FinishStep
  <2>4. t \in Latest(trial) => t \in Latest(trial)'
    BY <2>1, <1>1, <1>5, FinishRecords
  <2>5. In(Latest(plan), ConfirmedPlan) \subseteq In(Latest(plan), ConfirmedPlan)'
    BY <2>1, <1>1, <1>5, FinishIn DEF ConfirmedPlan
  <2>6. t \in ReviewableTrials'
    BY <2>2, <2>3, <2>4, <2>5 DEF ReviewableTrials, ConfirmedPlan
  <2>. QED
    BY <2>6
<1>23. NoStageStarves'
  BY <1>17, <1>20, <1>21, <1>22 DEF NoStageStarves, PlanStands
<1>24. ASSUME ~task'[cabin].invalid, task'[cabin].status \in {"OPEN", "DONE"}, NEW k \in Latest(cabin)'
       PROVE  LET t == rec'[k].about
              IN  /\ t \in In(Latest(trial), {"JUDGED"})'
                  /\ task'[cabin].technical =>
                       /\ rec'[t].about \in In(Latest(plan), ConfirmedPlan)'
                       /\ In(Latest(paint), {"ARRIVED"})' # {}
  <2>. DEFINE t == rec[k].about
  <2>1. ~Idle(cabin)'
    BY <1>24 DEF Idle
  <2>2. cabin \notin Created(n, a) /\ k \in Latest(cabin)
    BY <1>24, <1>1, <1>5, FinishRecords
  <2>3. {trial, plan, paint} \cap Created(n, a) = {}
    BY <2>1, <1>5, <1>8
  <2>4. ~task[cabin].invalid /\ task[cabin].status \in {"OPEN", "DONE"} /\ task'[cabin].technical = task[cabin].technical
    <3>1. CASE cabin = n
      BY <3>1, <1>1, <1>2, <1>24, FinishTasks DEF Open
    <3>2. CASE cabin # n
      <4>1. task'[cabin] = task[cabin]
        BY <3>2, <2>1, <2>2, <1>5, <1>13
      <4>. QED
        BY <4>1, <1>24
    <3>. QED
      BY <3>1, <3>2
  <2>5. /\ t \in In(Latest(trial), {"JUDGED"})
        /\ task[cabin].technical =>
             /\ rec[t].about \in In(Latest(plan), ConfirmedPlan)
             /\ In(Latest(paint), {"ARRIVED"}) # {}
    BY <2>2, <2>4 DEF RecordsInv, SeriesRestsOnRound
  <2>6. rec'[k].about = t /\ rec'[t].about = rec[t].about
    BY <2>2, <2>5, <1>4 DEF Latest, Kept
  <2>7. /\ In(Latest(trial), {"JUDGED"}) \subseteq In(Latest(trial), {"JUDGED"})'
        /\ In(Latest(plan), ConfirmedPlan) \subseteq In(Latest(plan), ConfirmedPlan)'
        /\ In(Latest(paint), {"ARRIVED"}) \subseteq In(Latest(paint), {"ARRIVED"})'
    BY <2>3, <1>1, <1>5, FinishIn DEF ConfirmedPlan
  <2>. HIDE DEF t
  <2>. QED
    BY <2>4, <2>5, <2>6, <2>7
<1>25. ASSUME NEW m \in {"COLOR_CONSISTENCY_REVIEW", "MASS_PRODUCTION_PLAN", "MASS_PRODUCTION"}, Open(m)'
       PROVE  task'[cabin].status = "DONE" /\ In(Latest(cabin), {"ENDORSED"})' # {}
  <2>1. m \in MainStages /\ m # cabin
    BY <1>5
  <2>2. cabin \notin Created(n, a)
    BY <1>25, <2>1, <1>5, <1>6, <1>10
  <2>3. In(Latest(cabin), {"ENDORSED"}) \subseteq In(Latest(cabin), {"ENDORSED"})'
    BY <2>2, <1>1, <1>5, FinishIn
  <2>4. CASE m \in Created(n, a) /\ m = "COLOR_CONSISTENCY_REVIEW"
    <3>1. n = cabin /\ Concludes(n, a)
      BY <2>4, Openers
    <3>2. task'[cabin].status = "DONE"
      BY <3>1, <1>1, <1>2, FinishTasks
    <3>3. In(Latest(cabin), {"ENDORSED"}) # {}
      BY <3>1 DEF FinishStep
    <3>. QED
      BY <3>2, <3>3, <2>3
  <2>5. ASSUME NEW l \in {"COLOR_CONSISTENCY_REVIEW", "MASS_PRODUCTION_PLAN", "MASS_PRODUCTION"},
               Open(l), ~ConsistencyReturn(n, a)
        PROVE  task'[cabin].status = "DONE" /\ In(Latest(cabin), {"ENDORSED"})' # {}
    <3>1. task[cabin].status = "DONE" /\ In(Latest(cabin), {"ENDORSED"}) # {}
      BY <2>5 DEF RecordsInv, SeriesRestsOnRound
    <3>2. cabin # n
      BY <3>1, <1>2 DEF Open
    <3>3. task'[cabin] = task[cabin]
      BY <3>2, <2>2, <2>5, <1>1, <1>2, <1>5, FinishTasks
    <3>. QED
      BY <3>1, <3>3, <2>3
  <2>6. CASE m \in Created(n, a) /\ m # "COLOR_CONSISTENCY_REVIEW"
    <3>1. (n = "COLOR_CONSISTENCY_REVIEW" /\ Concludes(n, a)) \/ n = "MASS_PRODUCTION_PLAN"
      BY <2>6, Openers
    <3>2. ~ConsistencyReturn(n, a)
      BY <3>1 DEF ConsistencyReturn, Concludes, ReviewNodes
    <3>. QED
      BY <3>1, <3>2, <2>5, <1>2
  <2>7. CASE m \notin Created(n, a)
    <3>1. Open(m) /\ m # n
      BY <2>7, <2>1, <1>5, <1>11, <1>25
    <3>2. n # "COLOR_CONSISTENCY_REVIEW"
      BY <3>1, <2>1, <1>1, <1>2, <1>5 DEF EngineInv
    <3>3. ~ConsistencyReturn(n, a)
      BY <3>2 DEF ConsistencyReturn
    <3>. QED
      BY <3>1, <3>3, <2>5
  <2>. QED
    BY <2>4, <2>6, <2>7
<1>26. SeriesRestsOnRound'
  BY <1>24, <1>25 DEF SeriesRestsOnRound
<1>27. OneCurrentBoard'
  <2>1. Boards' = Boards /\ \A b \in Boards : rec'[b].current = rec[b].current
    BY DEF Boards, Kept, FinishStep
  <2>. QED
    BY <2>1 DEF RecordsInv, OneCurrentBoard
<1>. QED
  BY <1>3, <1>15, <1>16, <1>17, <1>18, <1>19, <1>23, <1>26, <1>27 DEF RecordsInv

-----------------------------------------------------------------------------
(* The theorems.                                                           *)

LEMMA RecordsInit == Init => RecordsInv
<1>. SUFFICES ASSUME Init
              PROVE  RecordsInv
  OBVIOUS
<1>. DEFINE fresh(n) == [round |-> IF n = "PAINT_DEVELOPMENT" THEN 1 ELSE 0,
                         status |-> IF n = "PAINT_DEVELOPMENT" THEN "OPEN" ELSE "NONE",
                         technical |-> FALSE, invalid |-> FALSE]
<1>1. /\ task = [n \in Stages |-> fresh(n)]
      /\ rec = [k \in Keys |-> NoRecord]
      /\ standard = {} /\ linked \in BOOLEAN /\ required = linked
  BY DEF Init
<1>2. \A n \in Stages : fresh(n) \in Tasks
  BY RecordBoundsAssumption DEF Tasks
<1>3. NoRecord \in Records /\ NoRecord.status = "NONE"
  BY DEF NoRecord, Records, Statuses
<1>4. TypeOK
  BY <1>1, <1>2, <1>3 DEF TypeOK
<1>5. \A n \in Stages :
        /\ task[n].round = IF n = "PAINT_DEVELOPMENT" THEN 1 ELSE 0
        /\ task[n].status = IF n = "PAINT_DEVELOPMENT" THEN "OPEN" ELSE "NONE"
        /\ ~task[n].technical
  BY <1>1
<1>. HIDE DEF fresh
<1>6. \A n \in Stages : Open(n) => n = "PAINT_DEVELOPMENT"
  BY <1>5 DEF Open
<1>7. \A n \in Stages : n # "PAINT_DEVELOPMENT" => Idle(n)
  BY <1>5 DEF Idle
<1>8. /\ \A k \in Keys : rec[k].status = "NONE"
      /\ \A n : Kept(n) = {} /\ Latest(n) = {}
  BY <1>1, <1>3 DEF Kept, Latest
<1>9. RecordNodes \subseteq Stages /\ "SAMPLE_COLOR_CONFIRMATION" \in Stages /\ MainStages \subseteq Stages
  BY DEF Stages, MainStages
<1>10. EngineInv
  <2>1. \A m, n \in MainStages : Open(m) /\ Open(n) => m = n
    BY <1>6, <1>9
  <2>2. \A m, n \in Stages : <<m, n>> \in Ahead /\ Open(m) => Idle(n)
    BY <1>7 DEF Ahead, Later
  <2>3. /\ task["BOARD_DETAIL_UPDATE"].round = 0 /\ task["STANDARD_BOARD_PRODUCTION"].round = 0
        /\ task["TRIAL_PRODUCTION"].round = 0 /\ task["CAB_REVIEW"].round = 0
        /\ ~Open("STANDARD_BOARD_PRODUCTION") /\ ~Open("TRIAL_PRODUCTION")
    BY <1>5, <1>6 DEF Stages, RecordNodes
  <2>. QED
    BY <2>1, <2>2, <2>3 DEF EngineInv
<1>11. NoFuture
  BY <1>8 DEF NoFuture
<1>12. Unconfirmed
  BY <1>8 DEF Unconfirmed, In
<1>13. /\ ~Open("TRIAL_PRODUCTION") /\ ~Open("CAB_REVIEW") /\ ~Open("SAMPLE_COLOR_CONFIRMATION")
       /\ ~Open("BOARD_DETAIL_UPDATE") /\ ~Open("COLOR_CONSISTENCY_REVIEW")
       /\ ~Open("MASS_PRODUCTION_PLAN") /\ ~Open("MASS_PRODUCTION")
  BY <1>6 DEF Stages, RecordNodes
<1>14. PlanStands
  BY <1>13 DEF PlanStands
<1>15. PaintArrived
  BY <1>7, <1>9 DEF PaintArrived, RecordNodes
<1>16. ProofStands
  BY <1>5, <1>9 DEF ProofStands
<1>17. NoStageStarves
  BY <1>13 DEF NoStageStarves
<1>18. SeriesRestsOnRound
  BY <1>8, <1>13 DEF SeriesRestsOnRound
<1>19. OneCurrentBoard
  BY <1>8 DEF OneCurrentBoard, Boards
<1>. QED
  BY <1>4, <1>10, <1>11, <1>12, <1>14, <1>15, <1>16, <1>17, <1>18, <1>19 DEF RecordsInv

LEMMA RecordsNext == RecordsInv /\ [Next]_vars => RecordsInv'
<1>. SUFFICES ASSUME RecordsInv, [Next]_vars
              PROVE  RecordsInv'
  OBVIOUS
<1>1. /\ TypeOK'
      /\ \/ \E n \in Stages, a \in CompletionActions \cup ReviewActions : FinishStep(n, a)
         \/ \E n \in RecordNodes : RecordStep(n)
         \/ task' = task /\ rec' = rec
  BY StepKinds DEF RecordsInv
<1>2. ASSUME NEW n \in Stages, NEW a, FinishStep(n, a)
      PROVE  RecordsInv'
  BY <1>1, <1>2, FinishStepKeeps
<1>3. ASSUME NEW n \in RecordNodes, RecordStep(n)
      PROVE  RecordsInv'
  BY <1>1, <1>3, RecordStepKeeps
<1>4. CASE task' = task /\ rec' = rec
  <2>1. /\ EngineInv' /\ NoFuture' /\ Unconfirmed' /\ PlanStands' /\ PaintArrived'
    BY <1>4 DEF RecordsInv, EngineInv, NoFuture, Unconfirmed, PlanStands, PaintArrived, Open, Idle, In, Latest, Kept
  <2>2. ProofStands'
    BY <1>4 DEF RecordsInv, ProofStands, OwnProof, Rework, In, Latest, Kept
  <2>3. NoStageStarves'
    BY <1>4 DEF RecordsInv, NoStageStarves, ReviewableTrials, SampleWritable, Open, Rework, In, Latest, Kept
  <2>4. SeriesRestsOnRound'
    BY <1>4 DEF RecordsInv, SeriesRestsOnRound, Open, In, Latest, Kept
  <2>5. OneCurrentBoard'
    BY <1>4 DEF RecordsInv, OneCurrentBoard, Boards, Kept
  <2>. QED
    BY <1>1, <2>1, <2>2, <2>3, <2>4, <2>5 DEF RecordsInv
<1>. QED
  BY <1>1, <1>2, <1>3, <1>4

(* The strengthened invariant holds in every reachable state.              *)
THEOREM RecordsInvariant == Spec => []RecordsInv
<1>1. Init => RecordsInv
  BY RecordsInit
<1>2. RecordsInv /\ [Next]_vars => RecordsInv'
  BY RecordsNext
<1>. QED
  BY <1>1, <1>2, PTL DEF Spec

(* Tasks and records keep their shape, whatever the services do.           *)
THEOREM RecordsTyped == Spec => []TypeOK
<1>1. RecordsInv => TypeOK
  BY DEF RecordsInv
<1>. QED
  BY <1>1, RecordsInvariant, PTL

(* What a stage was completed on is still there: nothing another stage     *)
(* edits, versions, makes current or cancels takes it away.                *)
THEOREM ProofAlways == Spec => []ProofStands
<1>1. RecordsInv => ProofStands
  BY DEF RecordsInv
<1>. QED
  BY <1>1, RecordsInvariant, PTL

(* No stage opens on a project that lacks what its services will ask for.  *)
THEOREM NeverStarves == Spec => []NoStageStarves
<1>1. RecordsInv => NoStageStarves
  BY DEF RecordsInv
<1>. QED
  BY <1>1, RecordsInvariant, PTL

(* Series production rests on an endorsed cabin review, whose trial, plan  *)
(* and paint are those of the current rounds.                              *)
THEOREM SeriesSound == Spec => []SeriesRestsOnRound
<1>1. RecordsInv => SeriesRestsOnRound
  BY DEF RecordsInv
<1>. QED
  BY <1>1, RecordsInvariant, PTL

(* A project with boards has exactly one current board, however its boards *)
(* are created, published and chosen.                                      *)
THEOREM BoardUnique == Spec => []OneCurrentBoard
<1>1. RecordsInv => OneCurrentBoard
  BY DEF RecordsInv
<1>. QED
  BY <1>1, RecordsInvariant, PTL

=============================================================================
