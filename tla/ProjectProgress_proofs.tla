----------------------- MODULE ProjectProgress_proofs -----------------------
(***************************************************************************)
(* Proofs about how a project gets on: work always remains, nothing is     *)
(* skipped, the evidence lookup finds the current round, and the engine    *)
(* implements ProjectLifecycle; for every number of rounds and periods.    *)
(***************************************************************************)
EXTENDS ProjectWorkflow_proofs, FiniteSetTheorems

-----------------------------------------------------------------------------
(* How the main line moves.                                                *)

(* From one main-line node to another there are steps to the next position *)
(* and returns to an earlier one; the return of a consistency review goes  *)
(* behind everything it sends back to review.                              *)
LEMMA LineEdges ==
  ASSUME NEW n \in PrimaryNodes, NEW a, NEW m \in NextNodes(n, a) \cap PrimaryNodes
  PROVE  /\ m # n
         /\ \/ Concludes(n, a) /\ Position[m] = Position[n] + 1
            \/ SendsBack(n, a) /\ <<n, m>> \in BackEdges /\ Position[m] < Position[n]
         /\ ConsistencyReturn(n, a) => m = "PAINT_DEVELOPMENT"
<1>1. \/ Concludes(n, a) /\ <<n, m>> \in ForwardEdges
      \/ SendsBack(n, a) /\ <<n, m>> \in BackEdges
  BY DEF NextNodes
<1>2. CASE Concludes(n, a) /\ <<n, m>> \in ForwardEdges
  <2>1. m # n /\ Position[m] = Position[n] + 1
    BY <1>2 DEF ForwardEdges, PrimaryNodes, Position
  <2>2. ~ConsistencyReturn(n, a)
    BY <1>2 DEF Concludes, ReviewNodes, ConsistencyReturn
  <2> QED
    BY <1>2, <2>1, <2>2
<1>3. CASE SendsBack(n, a) /\ <<n, m>> \in BackEdges
  BY <1>3 DEF BackEdges, PrimaryNodes, Position, ConsistencyReturn
<1> QED
  BY <1>1, <1>2, <1>3

(* Positions are numbers, and no two main-line nodes share one.            *)
LEMMA Positions ==
  /\ \A m \in PrimaryNodes : Position[m] \in 1 .. 13
  /\ \A m, n \in PrimaryNodes : Position[m] = Position[n] => m = n
BY DEF PrimaryNodes, Position

(* Only the closing and the rejection of a sample have no successor.       *)
LEMMA LineEnds ==
  ASSUME NEW n \in PrimaryNodes, NEW a \in AllowedActions(n),
         NextNodes(n, a) \cap PrimaryNodes = {}
  PROVE  n = "PROJECT_CLOSED" \/ (n = "SAMPLE_COLOR_CONFIRMATION" /\ a = "REJECT")
<1>1. \A m \in PrimaryNodes :
        /\ ~(Concludes(n, a) /\ <<n, m>> \in ForwardEdges)
        /\ ~(SendsBack(n, a) /\ <<n, m>> \in BackEdges)
  BY DEF NextNodes, NodeCodes
<1>2. SUFFICES ASSUME n # "PROJECT_CLOSED"
               PROVE  n = "SAMPLE_COLOR_CONFIRMATION" /\ a = "REJECT"
  OBVIOUS
<1>3. \E m \in PrimaryNodes : <<n, m>> \in ForwardEdges
  BY <1>2 DEF PrimaryNodes, ForwardEdges
<1>4. ~Concludes(n, a)
  BY <1>1, <1>3
<1>5. n \in ReviewNodes /\ a \in {"REJECT", "RETURN"}
  BY <1>2, <1>4 DEF Concludes, AllowedActions, ReviewActions, CompletionActions, ReviewNodes
<1>6. \E m \in PrimaryNodes : <<n, m>> \in BackEdges
  BY <1>5 DEF ReviewNodes, PrimaryNodes, BackEdges
<1>7. ~SendsBack(n, a)
  BY <1>1, <1>6
<1> QED
  BY <1>5, <1>7 DEF SendsBack

(* The number and the fee are the only nodes that a task may be spared.    *)
LEMMA SpawnsTheLine ==
  ASSUME NEW rd, NEW n, NEW a
  PROVE  Spawned(rd, n, a) \cap PrimaryNodes = NextNodes(n, a) \cap PrimaryNodes
BY DEF Spawned, OnceNodes, PrimaryNodes

(* The task a node gets next.                                              *)
NextTask(rd, m) == <<m, rd[m] + 1>>

(* A finishing action on the main line leaves its successor open and       *)
(* nothing else; one beside the line leaves the line alone.                *)
LEMMA LineMoves ==
  ASSUME NEW ts, NEW rd, NEW id, NEW a, Tables(ts, rd), Applies(ts, rd, id, a)
  PROVE  /\ id[1] \in PrimaryNodes =>
              ActivePrimary(TasksAfter(ts, rd, id, a)) =
                {NextTask(rd, m) : m \in NextNodes(id[1], a) \cap PrimaryNodes}
         /\ id[1] \notin PrimaryNodes =>
              ActivePrimary(TasksAfter(ts, rd, id, a)) = ActivePrimary(ts)
<1> DEFINE us == TasksAfter(ts, rd, id, a)
<1>1. id \in TaskIds /\ ts[id].active /\ id[1] \in NodeCodes /\ IsTasks(ts) /\ IsRounds(rd)
  BY DEF Applies, Tables, TaskIds
<1>2. ASSUME NEW m \in NextNodes(id[1], a) \cap PrimaryNodes
      PROVE  NextTask(rd, m) \in ActivePrimary(us)
  <2> DEFINE i == NextTask(rd, m)
  <2>1. m \in Spawned(rd, id[1], a) /\ m \in NodeCodes
    BY <1>2, SpawnsTheLine DEF NodeCodes
  <2>2. rd[m] < MaxRound /\ rd[m] \in 0 .. MaxRound
    BY <1>1, <2>1 DEF Applies, WithinBound, IsRounds
  <2>3. i \in TaskIds /\ i[1] = m /\ i[2] = rd[m] + 1 /\ i \in PrimaryNodes \X Rounds
    BY <1>2, <2>1, <2>2, BoundsAssumption DEF NextTask, TaskIds, Rounds
  <2> DEFINE tech == ConsistencyReturn(id[1], a) \/ ts[id].technical
  <2>4. tech \in BOOLEAN
    BY <1>1 DEF IsTasks, Rows, ConsistencyReturn
  <2>5. us[i] = ReadyRow(id, tech)
    BY <2>1, <2>3, AfterRow
  <2> HIDE DEF i, tech
  <2>6. us[i].active
    BY <1>1, <2>4, <2>5, ReadyRowType
  <2> QED
    BY <2>3, <2>6 DEF i, ActivePrimary
<1>3. ASSUME NEW i \in ActivePrimary(us), ~\E m \in NextNodes(id[1], a) \cap PrimaryNodes : i = NextTask(rd, m)
      PROVE  i \in ActivePrimary(ts) /\ i # id
  <2>1. i \in TaskIds /\ i[1] \in PrimaryNodes /\ us[i].active /\ i = <<i[1], i[2]>>
    BY ActivePrimaryNodes DEF TaskIds
  <2>2. ~(i[1] \in Spawned(rd, id[1], a) /\ i[2] = rd[i[1]] + 1)
    BY <1>3, <2>1, SpawnsTheLine DEF NextTask
  <2>3. us[i] = Settled(ts, rd, id, a)[i]
    BY <2>1, <2>2, AfterRow
  <2>4. i # id /\ ts[i].active
    BY <1>1, <2>1, <2>3, StillOpen
  <2> QED
    BY <2>1, <2>4 DEF ActivePrimary, TaskIds
<1>4. CASE id[1] \in PrimaryNodes
  <2>1. id \in ActivePrimary(ts)
    BY <1>1, <1>4 DEF ActivePrimary, TaskIds
  <2>2. \A i \in ActivePrimary(us) : \E m \in NextNodes(id[1], a) \cap PrimaryNodes : i = NextTask(rd, m)
    BY <1>3, <2>1 DEF Tables, OnePrimary
  <2> QED
    BY <1>2, <1>4, <2>2
<1>5. CASE id[1] \notin PrimaryNodes
  <2>1. NextNodes(id[1], a) \cap PrimaryNodes = {}
    BY <1>1, <1>5, ParallelCreatesParallel DEF NodeCodes
  <2>2. ASSUME NEW i \in ActivePrimary(ts) PROVE i \in ActivePrimary(us)
    <3>1. i \in TaskIds /\ i[1] \in PrimaryNodes /\ ts[i].active /\ i # id
      BY <1>5, ActivePrimaryNodes
    <3>2. us[i] = Settled(ts, rd, id, a)[i]
      BY <2>1, <3>1, SpawnsTheLine, AfterRow
    <3>3. ~Sweeps(ts, rd, id, a, i)
      BY <1>5 DEF Sweeps, ConsistencyReturn, PrimaryNodes
    <3>4. us[i] = ts[i]
      BY <1>1, <3>1, <3>2, <3>3, SettledRow DEF ClosedAt
    <3> QED
      BY <3>1, <3>4 DEF ActivePrimary, TaskIds
  <2> QED
    BY <1>3, <1>5, <2>1, <2>2
<1> QED
  BY <1>4, <1>5

-----------------------------------------------------------------------------
(* What is behind the main line is firm: finished well, not sent back, and *)
(* proved by a record of its own if it is rework.                          *)

Latest(rd, m) == <<m, rd[m]>>

Standing(ts, rd, m) ==
  /\ rd[m] > 0
  /\ ts[Latest(rd, m)].status \in {"COMPLETED", "APPROVED"}
  /\ ~ts[Latest(rd, m)].invalid

(* A task of an evidence node that is rework has a record of its own.      *)
Evidenced(ts, i) ==
  i[1] \in EvidenceNodes /\ (i[2] > 1 \/ ts[i].technical) => ts[i].records # {}

Firm(ts, rd, m) == Standing(ts, rd, m) /\ Evidenced(ts, Latest(rd, m))

Upstream(ts, rd) ==
  \A p \in ActivePrimary(ts), m \in PrimaryNodes :
    Position[m] < Position[p[1]] => Firm(ts, rd, m)

AllFirm(ts, rd) == \A m \in PrimaryNodes : Firm(ts, rd, m)

(* A row that is neither new, nor acted on, nor swept is as it was.        *)
LEMMA Untouched ==
  ASSUME NEW ts, NEW rd, NEW id, NEW a, Tables(ts, rd), Applies(ts, rd, id, a),
         NEW i \in TaskIds, i # id, ~Sweeps(ts, rd, id, a, i),
         ~(i[1] \in Spawned(rd, id[1], a) /\ i[2] = rd[i[1]] + 1)
  PROVE  TasksAfter(ts, rd, id, a)[i] = ts[i]
<1>1. id \in TaskIds /\ IsTasks(ts)
  BY DEF Applies, Tables
<1>2. TasksAfter(ts, rd, id, a)[i] = Settled(ts, rd, id, a)[i]
  BY AfterRow
<1> QED
  BY <1>1, <1>2, SettledRow DEF ClosedAt

(* The task acted on keeps its origin, its mark and its records, unless    *)
(* the sweep marks it.                                                     *)
LEMMA ActedOn ==
  ASSUME NEW ts, NEW rd, NEW id, NEW a, Tables(ts, rd), Applies(ts, rd, id, a)
  PROVE  LET row == TasksAfter(ts, rd, id, a)[id]
         IN  /\ row.from = ts[id].from
             /\ row.technical = ts[id].technical
             /\ row.records = ts[id].records
             /\ row.status # "NONE"
             /\ ~row.active
             /\ ~ConsistencyReturn(id[1], a) =>
                  row.status = TerminalStatus(a) /\ ~row.invalid
<1> DEFINE cls == Closed(ts[id], TerminalStatus(a))
<1>1. id \in TaskIds /\ IsTasks(ts) /\ ts[id] \in Rows /\ ts[id].active
  BY DEF Applies, Tables, IsTasks
<1>2. id[2] = rd[id[1]] /\ ~ts[id].invalid /\ id[1] \in NodeCodes /\ rd[id[1]] \in Nat
  BY <1>1, BoundsAssumption DEF Tables, Current, TaskIds, IsRounds
<1>3. TasksAfter(ts, rd, id, a)[id] = Settled(ts, rd, id, a)[id]
  BY <1>1, <1>2, AfterRow
<1>4. ClosedAt(ts, id, a, id) = cls
  BY DEF ClosedAt
<1>5. cls \in Rows /\ ~cls.active /\ cls.status = TerminalStatus(a) /\ ~cls.invalid
  BY <1>1, <1>2, ClosedRow, TerminalStatusType
<1>6. cls.from = ts[id].from /\ cls.technical = ts[id].technical /\ cls.records = ts[id].records
  BY <1>1 DEF Closed, Rows
<1>7. TerminalStatus(a) # "NONE"
  BY DEF TerminalStatus
<1>8. CASE Sweeps(ts, rd, id, a, id)
  <2>1. TasksAfter(ts, rd, id, a)[id] = Swept(cls)
    BY <1>1, <1>3, <1>4, <1>8, SettledRow
  <2>2. Swept(cls) = [cls EXCEPT !.invalid = TRUE]
    BY <1>5, SweptRow
  <2> HIDE DEF cls
  <2>3. /\ Swept(cls).from = cls.from /\ Swept(cls).technical = cls.technical
        /\ Swept(cls).records = cls.records /\ Swept(cls).status = cls.status
        /\ Swept(cls).active = cls.active
    BY <1>5, <2>2 DEF Rows
  <2> QED
    BY <1>5, <1>6, <1>7, <1>8, <2>1, <2>3 DEF Sweeps
<1>9. CASE ~Sweeps(ts, rd, id, a, id)
  <2>1. TasksAfter(ts, rd, id, a)[id] = cls
    BY <1>1, <1>3, <1>4, <1>9, SettledRow
  <2> HIDE DEF cls
  <2> QED
    BY <1>5, <1>6, <1>7, <2>1
<1> QED
  BY <1>8, <1>9

(* What is firm stays firm, unless the step redoes or sweeps it.           *)
LEMMA FirmAfter ==
  ASSUME NEW ts, NEW rd, NEW id, NEW a, Tables(ts, rd), Applies(ts, rd, id, a),
         NEW m \in PrimaryNodes, Firm(ts, rd, m), m # id[1],
         m \notin NextNodes(id[1], a), ConsistencyReturn(id[1], a) => m \notin TechnicalNodes
  PROVE  Firm(TasksAfter(ts, rd, id, a), RoundsAfter(rd, id[1], a), m)
<1> DEFINE i == Latest(rd, m)
<1>1. m \in NodeCodes /\ m \notin Spawned(rd, id[1], a)
  BY DEF NodeCodes, Spawned
<1>2. rd[m] \in Rounds
  BY <1>1, BoundsAssumption DEF Tables, IsRounds, Rounds, Firm, Standing
<1>3. i \in TaskIds /\ i[1] = m /\ i[2] = rd[m] /\ i # id
  BY <1>1, <1>2 DEF Latest, TaskIds
<1>4. RoundsAfter(rd, id[1], a)[m] = rd[m]
  BY <1>1 DEF RoundsAfter
<1> HIDE DEF i
<1>5. TasksAfter(ts, rd, id, a)[i] = ts[i]
  BY <1>1, <1>3, Untouched DEF Sweeps
<1>6. Latest(RoundsAfter(rd, id[1], a), m) = i
  BY <1>4 DEF Latest, i
<1> QED
  BY <1>4, <1>5, <1>6 DEF Firm, Standing, Evidenced, i

(* A main-line task that concludes well is firm.                           *)
LEMMA ConcludedFirm ==
  ASSUME NEW ts, NEW rd, NEW id, NEW a, Tables(ts, rd), Applies(ts, rd, id, a),
         id[1] \in PrimaryNodes, Concludes(id[1], a), Evidenced(ts, id)
  PROVE  Firm(TasksAfter(ts, rd, id, a), RoundsAfter(rd, id[1], a), id[1])
<1>1. id \in TaskIds /\ ts[id].active /\ id = <<id[1], id[2]>> /\ id[1] \in NodeCodes
  BY DEF Applies, TaskIds
<1>2. id[2] = rd[id[1]] /\ id[2] \in Nat /\ id[2] > 0
  BY <1>1, BoundsAssumption DEF Tables, Current, TaskIds, Rounds
<1>3. id[1] \notin Spawned(rd, id[1], a)
  BY LineEdges DEF Spawned
<1>4. RoundsAfter(rd, id[1], a)[id[1]] = rd[id[1]]
  BY <1>1, <1>3 DEF RoundsAfter
<1>5. Latest(RoundsAfter(rd, id[1], a), id[1]) = id
  BY <1>1, <1>2, <1>4 DEF Latest
<1>6. ~ConsistencyReturn(id[1], a) /\ TerminalStatus(a) \in {"COMPLETED", "APPROVED"}
  BY DEF Concludes, ConsistencyReturn, ReviewNodes, CompletionActions, TerminalStatus
<1> QED
  BY <1>2, <1>4, <1>5, <1>6, ActedOn DEF Firm, Standing, Evidenced

(* A finishing action leaves everything behind the main line firm, and the *)
(* closing leaves the whole main line firm.                                *)
LEMMA UpstreamAfter ==
  ASSUME NEW ts, NEW rd, NEW id, NEW a, Tables(ts, rd), Applies(ts, rd, id, a),
         Upstream(ts, rd), Concludes(id[1], a) => Evidenced(ts, id)
  PROVE  /\ Upstream(TasksAfter(ts, rd, id, a), RoundsAfter(rd, id[1], a))
         /\ id[1] = "PROJECT_CLOSED" =>
              AllFirm(TasksAfter(ts, rd, id, a), RoundsAfter(rd, id[1], a))
<1> DEFINE us == TasksAfter(ts, rd, id, a)
           sd == RoundsAfter(rd, id[1], a)
<1>1. id \in TaskIds /\ ts[id].active /\ id[1] \in NodeCodes /\ a \in AllowedActions(id[1])
  BY DEF Applies, TaskIds
<1>2. CASE id[1] \in PrimaryNodes
  <2>1. id \in ActivePrimary(ts)
    BY <1>1, <1>2 DEF ActivePrimary, TaskIds
  <2>2. ASSUME NEW m \in PrimaryNodes, Position[m] < Position[id[1]],
               m \notin NextNodes(id[1], a),
               ConsistencyReturn(id[1], a) => m \notin TechnicalNodes
        PROVE  Firm(us, sd, m)
    <3>1. m # id[1] /\ Firm(ts, rd, m)
      BY <1>2, <2>1, <2>2, Positions DEF Upstream
    <3> QED
      BY <2>2, <3>1, FirmAfter
  <2>3. ASSUME NEW q \in NextNodes(id[1], a) \cap PrimaryNodes, NEW m \in PrimaryNodes,
               Position[m] < Position[q]
        PROVE  Firm(us, sd, m)
    <3>1. m \notin NextNodes(id[1], a)
      BY <2>3, OnePrimaryNext, Positions
    <3>2. CASE Concludes(id[1], a) /\ Position[q] = Position[id[1]] + 1
      <4>1. ~ConsistencyReturn(id[1], a)
        BY <3>2 DEF Concludes, ReviewNodes, ConsistencyReturn
      <4>2. m = id[1] \/ Position[m] < Position[id[1]]
        BY <1>2, <2>3, <3>2, Positions
      <4> QED
        BY <1>2, <2>2, <3>1, <3>2, <4>1, <4>2, ConcludedFirm
    <3>3. CASE Position[q] < Position[id[1]]
      <4>1. Position[m] < Position[id[1]]
        BY <1>2, <2>3, <3>3, Positions
      <4>2. ConsistencyReturn(id[1], a) => m \notin TechnicalNodes
        <5>1. ConsistencyReturn(id[1], a) => q = "PAINT_DEVELOPMENT"
          BY <1>2, <2>3, LineEdges
        <5>2. m \in TechnicalNodes => Position[m] >= Position["PAINT_DEVELOPMENT"]
          BY DEF PrimaryNodes, Position, TechnicalNodes
        <5> QED
          BY <2>3, <5>1, <5>2, Positions DEF PrimaryNodes
      <4> QED
        BY <2>2, <3>1, <4>1, <4>2
    <3> QED
      BY <1>2, <2>3, <3>2, <3>3, LineEdges
  <2>4. Upstream(us, sd)
    BY <1>2, <2>3, LineMoves DEF Upstream, NextTask
  <2>5. ASSUME id[1] = "PROJECT_CLOSED", NEW m \in PrimaryNodes
        PROVE  Firm(us, sd, m)
    <3>1. Concludes(id[1], a) /\ ~ConsistencyReturn(id[1], a)
      BY <1>1, <2>5 DEF AllowedActions, Concludes, ReviewNodes, CompletionActions, ConsistencyReturn
    <3>2. NextNodes(id[1], a) = {}
      BY <2>5 DEF NextNodes, ForwardEdges, BackEdges
    <3>3. m = id[1] \/ Position[m] < Position[id[1]]
      BY <2>5 DEF PrimaryNodes, Position
    <3> QED
      BY <1>2, <2>2, <3>1, <3>2, <3>3, ConcludedFirm
  <2> QED
    BY <2>4, <2>5 DEF AllFirm
<1>3. CASE id[1] \notin PrimaryNodes
  <2>1. ActivePrimary(us) = ActivePrimary(ts) /\ id[1] # "PROJECT_CLOSED"
    BY <1>3, LineMoves DEF PrimaryNodes
  <2>2. ASSUME NEW m \in PrimaryNodes, Firm(ts, rd, m)
        PROVE  Firm(us, sd, m)
    <3>1. m \notin NextNodes(id[1], a)
      BY <1>1, <1>3, ParallelCreatesParallel DEF NodeCodes
    <3>2. ~ConsistencyReturn(id[1], a)
      BY <1>3 DEF ConsistencyReturn, PrimaryNodes
    <3> QED
      BY <1>3, <2>2, <3>1, <3>2, FirmAfter
  <2> QED
    BY <2>1, <2>2 DEF Upstream
<1> QED
  BY <1>2, <1>3

-----------------------------------------------------------------------------
(* The three shapes of a step.                                             *)

(* Open rows get another open status or other records; nothing gets        *)
(* another origin.                                                         *)
Touches(ts, us) ==
  /\ Tweaks(ts, us)
  /\ \A i \in TaskIds : us[i].from = ts[i].from /\ us[i].technical = ts[i].technical

(* Beside the tasks a touching step may complete a month, not the last.    *)
OneMonthDone ==
  \E id \in TaskIds, k \in Months \ months :
    /\ id[1] = "VISUAL_COLOR_DIFFERENCE_REVIEW"
    /\ task[id].active
    /\ instance.status = "RUNNING"
    /\ months' = months \cup {k}
    /\ months' # Months

TouchStep ==
  /\ Touches(task, task')
  /\ UNCHANGED <<round, planned>>
  /\ UNCHANGED <<instance, project>>
       \/ (instance.status = "RUNNING" /\ SyncState(task', FALSE))
  /\ UNCHANGED months \/ OneMonthDone

(* The months a finishing action leaves behind.                            *)
MonthsFollow(n, a) ==
  IF n = "VISUAL_COLOR_DIFFERENCE_REVIEW" /\ Concludes(n, a)
  THEN months' = Months /\ \E k \in Months \ months : months \cup {k} = Months
  ELSE UNCHANGED months

FinishStep(ts, id, a) ==
  /\ Touches(task, ts)
  /\ Applies(ts, round, id, a)
  /\ instance.status = "RUNNING"
  /\ Concludes(id[1], a) => Evidenced(ts, id)
  /\ task' = TasksAfter(ts, round, id, a)
  /\ round' = RoundsAfter(round, id[1], a)
  /\ SyncState(task', id[1] = "PROJECT_CLOSED")
  /\ planned' = (planned \/ (id[1] = "MASS_PRODUCTION" /\ a \in CompletionActions))
  /\ MonthsFollow(id[1], a)

ReportTask == <<"DEVELOPMENT_REPORT", round["DEVELOPMENT_REPORT"] + 1>>

(* The registration of the report finishes two tasks, one after the other. *)
ReportStep(id) ==
  LET ts == TasksAfter(task, round, id, "COMPLETE")
      rd == RoundsAfter(round, id[1], "COMPLETE")
  IN  /\ id[1] = "PROJECT_INITIATION"
      /\ Applies(task, round, id, "COMPLETE")
      /\ Applies(ts, rd, ReportTask, "COMPLETE")
      /\ instance.status = "RUNNING"
      /\ task' = TasksAfter(ts, rd, ReportTask, "COMPLETE")
      /\ round' = RoundsAfter(rd, "DEVELOPMENT_REPORT", "COMPLETE")
      /\ SyncState(task', FALSE)
      /\ UNCHANGED <<planned, months>>

(* Another status, or other records, for one open row.                     *)
LEMMA StatusTouches ==
  ASSUME NEW ts, IsTasks(ts), NEW id \in TaskIds, ts[id].active, NEW st \in ActiveStatuses
  PROVE  Touches(ts, [ts EXCEPT ![id].status = st])
<1> DEFINE us == [ts EXCEPT ![id].status = st]
<1>1. Tweaks(ts, us)
  BY StatusTweaks
<1>2. ASSUME NEW i \in TaskIds
      PROVE  us[i].from = ts[i].from /\ us[i].technical = ts[i].technical
  <2>1. ts[id] \in Rows
    BY DEF IsTasks
  <2>2. CASE i = id
    <3>1. us[i] = [ts[id] EXCEPT !.status = st]
      BY <2>2 DEF IsTasks
    <3> QED
      BY <2>1, <2>2, <3>1 DEF Rows
  <2>3. CASE i # id
    BY <2>3 DEF IsTasks
  <2> QED
    BY <2>2, <2>3
<1> QED
  BY <1>1, <1>2 DEF Touches

(* Other records for one open row.                                         *)
LEMMA RecordTouches ==
  ASSUME NEW ts, IsTasks(ts), NEW id \in TaskIds, ts[id].active, NEW rs \in SUBSET RecordKeys
  PROVE  Touches(ts, [ts EXCEPT ![id].records = rs])
<1> DEFINE us == [ts EXCEPT ![id].records = rs]
<1>1. Tweaks(ts, us)
  BY RecordTweaks
<1>2. ASSUME NEW i \in TaskIds
      PROVE  us[i].from = ts[i].from /\ us[i].technical = ts[i].technical
  <2>1. ts[id] \in Rows
    BY DEF IsTasks
  <2>2. CASE i = id
    <3>1. us[i] = [ts[id] EXCEPT !.records = rs]
      BY <2>2 DEF IsTasks
    <3> QED
      BY <2>1, <2>2, <3>1 DEF Rows
  <2>3. CASE i # id
    BY <2>3 DEF IsTasks
  <2> QED
    BY <2>2, <2>3
<1> QED
  BY <1>1, <1>2 DEF Touches

(* Nothing touched is touched.                                             *)
LEMMA NothingTouches ==
  ASSUME NEW ts, IsTasks(ts)
  PROVE  Touches(ts, ts)
BY DEF Touches, Tweaks

(* A transition is a finishing step on the tasks as they are.              *)
LEMMA TransitionFinishes ==
  ASSUME WorkflowInv, NEW id \in TaskIds, NEW a, NEW monthsDone, Transition(id, a, monthsDone),
         id[1] \notin ReviewNodes => a = "COMPLETE", MonthsFollow(id[1], a)
  PROVE  FinishStep(task, id, a)
<1>1. Touches(task, task)
  BY NothingTouches DEF WorkflowInv, Tables
<1>2. Applies(task, round, id, a) /\ instance.status = "RUNNING"
  BY FinishApplies DEF Transition
<1>3. Concludes(id[1], a) => Evidenced(task, id)
  <2>1. CASE id[1] \in EvidenceNodes
    <3>1. a \in CompletionActions
      BY <2>1 DEF EvidenceNodes, ReviewNodes, CompletionActions
    <3> QED
      BY <3>1 DEF Transition, CompletionEvidence, IsRework, Evidenced
  <2>2. CASE id[1] \notin EvidenceNodes
    BY <2>2 DEF Evidenced
  <2> QED
    BY <2>1, <2>2
<1> QED
  BY <1>1, <1>2, <1>3 DEF Transition, FinishStep

(* Every step touches open rows, or finishes a task, or registers the      *)
(* report.                                                                 *)
LEMMA StepShapes ==
  ASSUME WorkflowInv, [Next]_vars
  PROVE  \/ TouchStep
         \/ \E ts \in [TaskIds -> Rows], id \in TaskIds, a \in FinishingActions : FinishStep(ts, id, a)
         \/ \E id \in TaskIds : ReportStep(id)
<1>1. IsTasks(task) /\ task \in [TaskIds -> Rows]
  BY DEF WorkflowInv, Tables, IsTasks
<1>2. {"COMPLETE", "APPROVE", "REJECT", "RETURN"} \subseteq FinishingActions
  BY DEF FinishingActions, CompletionActions, ReviewActions
<1>3. ASSUME NEW id \in TaskIds, StartTask(id) PROVE TouchStep
  <2>1. Touches(task, task')
    BY <1>1, <1>3, StatusTouches DEF StartTask, ActiveStatuses
  <2> QED
    BY <1>3, <2>1 DEF StartTask, TouchStep
<1>4. ASSUME NEW id \in TaskIds, ReassignTask(id) PROVE TouchStep
  <2>1. Touches(task, task')
    BY <1>1, <1>4, StatusTouches DEF ReassignTask, ActiveStatuses
  <2> QED
    BY <1>4, <2>1 DEF ReassignTask, TouchStep
<1>5. ASSUME NEW id \in TaskIds, CompleteTask(id) PROVE FinishStep(task, id, "COMPLETE")
  <2>1. MonthsFollow(id[1], "COMPLETE")
    BY <1>5 DEF CompleteTask, Transition, MonthsFollow, ReviewNodes
  <2> QED
    BY <1>5, <2>1, TransitionFinishes DEF CompleteTask
<1>6. ASSUME NEW id \in TaskIds, ApproveSampleOrdinarily(id) PROVE FinishStep(task, id, "APPROVE")
  <2>1. MonthsFollow(id[1], "APPROVE") /\ id[1] \in ReviewNodes
    BY <1>6 DEF ApproveSampleOrdinarily, Transition, MonthsFollow, ReviewNodes
  <2> QED
    BY <1>6, <2>1, TransitionFinishes DEF ApproveSampleOrdinarily
<1>7. ASSUME NEW id \in TaskIds, ApproveReview(id) PROVE FinishStep(task, id, "APPROVE")
  <2>1. MonthsFollow(id[1], "APPROVE") /\ id[1] \in ReviewNodes
    BY <1>7 DEF ApproveReview, Transition, MonthsFollow, ReviewNodes
  <2> QED
    BY <1>7, <2>1, TransitionFinishes DEF ApproveReview
<1>8. ASSUME NEW id \in TaskIds, RejectReview(id) PROVE FinishStep(task, id, "REJECT")
  <2>1. MonthsFollow(id[1], "REJECT") /\ id[1] \in ReviewNodes
    BY <1>8, BoundsAssumption DEF RejectReview, Transition, MonthsFollow, Concludes, ReviewNodes
  <2> QED
    BY <1>8, <2>1, TransitionFinishes DEF RejectReview
<1>9. ASSUME NEW id \in TaskIds, RegisterRecord(id) PROVE TouchStep
  <2>1. Touches(task, task')
    BY <1>1, <1>9, RecordTouches DEF RegisterRecord, RecordKeys
  <2> QED
    BY <1>9, <2>1 DEF RegisterRecord, TouchStep
<1>10. ASSUME NEW id \in TaskIds, NEW k \in RecordKeys, CreateReview(id, k) PROVE TouchStep
  <2> DEFINE rs == task[id].records \cup {k}
  <2>1. rs \in SUBSET RecordKeys
    BY <1>1 DEF IsTasks, Rows
  <2>2. task' = [task EXCEPT ![id].records = rs] /\ task[id].active
    BY <1>10 DEF CreateReview
  <2> HIDE DEF rs
  <2>3. Touches(task, task')
    BY <1>1, <2>1, <2>2, RecordTouches
  <2> QED
    BY <1>10, <2>3 DEF CreateReview, TouchStep
<1>11. ASSUME NEW id \in TaskIds, NEW k \in Months, ApproveMonth(id, k)
       PROVE  TouchStep \/ FinishStep(task, id, "APPROVE")
  <2>1. id[1] = "VISUAL_COLOR_DIFFERENCE_REVIEW" /\ k \notin months
    BY <1>11 DEF ApproveMonth
  <2>2. CASE LastMonth(k)
    <3>1. Transition(id, "APPROVE", Months)
      BY <1>11, <2>2 DEF ApproveMonth
    <3>2. MonthsFollow(id[1], "APPROVE")
      BY <2>1, <2>2, <3>1 DEF MonthsFollow, LastMonth, Transition, Concludes, ReviewNodes
    <3> QED
      BY <2>1, <3>1, <3>2, TransitionFinishes DEF ReviewNodes
  <2>3. CASE ~LastMonth(k)
    <3>1. /\ task[id].active
          /\ instance.status = "RUNNING"
          /\ task' = [task EXCEPT ![id].status = "IN_PROGRESS"]
          /\ months' = months \cup {k}
          /\ SyncState(task', FALSE)
          /\ UNCHANGED <<round, planned>>
      BY <1>11, <2>3 DEF ApproveMonth
    <3>2. Touches(task, task')
      BY <1>1, <3>1, StatusTouches DEF ActiveStatuses
    <3>3. OneMonthDone
      BY <2>1, <2>3, <3>1 DEF OneMonthDone, LastMonth
    <3> QED
      BY <3>1, <3>2, <3>3 DEF TouchStep
  <2> QED
    BY <2>2, <2>3
<1>12. ASSUME NEW id \in TaskIds, NEW a \in ReviewActions, ConfirmSample(id, a)
       PROVE  FinishStep([task EXCEPT ![id].records = {0}], id, a)
                /\ [task EXCEPT ![id].records = {0}] \in [TaskIds -> Rows]
  <2> DEFINE ts == [task EXCEPT ![id].records = {0}]
  <2>1. /\ id[1] = "SAMPLE_COLOR_CONFIRMATION"
        /\ CanFinish(ts, id, a)
        /\ CanSpawn(Settled(ts, round, id, a), round, id[1], a)
        /\ WithinBound(round, id[1], a)
        /\ task' = TasksAfter(ts, round, id, a)
        /\ round' = RoundsAfter(round, id[1], a)
        /\ SyncState(task', FALSE)
        /\ UNCHANGED <<linked, report, planned, months>>
    BY <1>12 DEF ConfirmSample
  <2>2. task[id].active
    <3>1. ts[id] = [task[id] EXCEPT !.records = {0}] /\ task[id] \in Rows
      BY <1>1 DEF IsTasks
    <3>2. ts[id].active
      BY <2>1 DEF CanFinish
    <3> QED
      BY <3>1, <3>2 DEF Rows
  <2>3. Touches(task, ts)
    BY <1>1, <2>2, RecordTouches DEF RecordKeys
  <2> HIDE DEF ts
  <2>4. Applies(ts, round, id, a) /\ instance.status = "RUNNING"
    BY <2>1, FinishApplies
  <2>5. Evidenced(ts, id) /\ id[1] # "PROJECT_CLOSED" /\ id[1] # "MASS_PRODUCTION" /\ MonthsFollow(id[1], a)
    BY <2>1 DEF Evidenced, EvidenceNodes, MonthsFollow
  <2>6. planned' = (planned \/ (id[1] = "MASS_PRODUCTION" /\ a \in CompletionActions))
    BY <2>1, <2>5 DEF WorkflowInv, RestTypes
  <2>7. ts \in [TaskIds -> Rows]
    BY <2>3 DEF Touches, Tweaks, IsTasks
  <2> QED
    BY <2>1, <2>3, <2>4, <2>5, <2>6, <2>7 DEF FinishStep, ts
<1>13. ASSUME NEW id \in TaskIds, RegisterApprovedReport(id) PROVE ReportStep(id)
  <2> DEFINE ts == TasksAfter(task, round, id, "COMPLETE")
             rd == RoundsAfter(round, id[1], "COMPLETE")
             dr == <<"DEVELOPMENT_REPORT", rd["DEVELOPMENT_REPORT"]>>
  <2>1. /\ id[1] = "PROJECT_INITIATION"
        /\ CanFinish(task, id, "COMPLETE")
        /\ CanSpawn(Settled(task, round, id, "COMPLETE"), round, id[1], "COMPLETE")
        /\ WithinBound(round, id[1], "COMPLETE")
        /\ CanFinish(ts, dr, "COMPLETE")
        /\ CanSpawn(Settled(ts, rd, dr, "COMPLETE"), rd, dr[1], "COMPLETE")
        /\ WithinBound(rd, dr[1], "COMPLETE")
        /\ task' = TasksAfter(ts, rd, dr, "COMPLETE")
        /\ round' = RoundsAfter(rd, dr[1], "COMPLETE")
        /\ SyncState(task', FALSE)
        /\ UNCHANGED <<linked, planned, months>>
    BY <1>13 DEF RegisterApprovedReport
  <2>2. Applies(task, round, id, "COMPLETE") /\ instance.status = "RUNNING"
    BY <2>1, FinishApplies
  <2>3. "DEVELOPMENT_REPORT" \in NodeCodes
    BY DEF NodeCodes, PrimaryNodes
  <2>4. "DEVELOPMENT_REPORT" \in Spawned(round, id[1], "COMPLETE")
    BY <2>1, <2>3 DEF Spawned, NextNodes, Concludes, ReviewNodes, CompletionActions,
                      ForwardEdges, OnceNodes
  <2>5. rd["DEVELOPMENT_REPORT"] = round["DEVELOPMENT_REPORT"] + 1
    BY <2>3, <2>4 DEF RoundsAfter
  <2>6. dr = ReportTask
    BY <2>5 DEF ReportTask
  <2>7. dr \in TaskIds
    <3>1. round["DEVELOPMENT_REPORT"] \in 0 .. MaxRound /\ round["DEVELOPMENT_REPORT"] < MaxRound
      BY <2>1, <2>3, <2>4 DEF WithinBound, WorkflowInv, Tables, IsRounds
    <3> QED
      BY <2>3, <2>5, <3>1, BoundsAssumption DEF TaskIds, Rounds
  <2> HIDE DEF ts, rd, dr
  <2>8. Applies(ts, rd, dr, "COMPLETE")
    BY <2>1, <2>7, FinishApplies
  <2>9. dr[1] = "DEVELOPMENT_REPORT"
    BY DEF dr
  <2> QED
    BY <2>1, <2>2, <2>6, <2>8, <2>9 DEF ReportStep, ts, rd
<1>14. ASSUME LinkColor \/ UNCHANGED vars PROVE TouchStep
  <2>1. task' = task /\ UNCHANGED <<round, instance, project, planned, months>>
    BY <1>14 DEF LinkColor, vars
  <2> QED
    BY <1>1, <2>1, NothingTouches DEF TouchStep
<1>15. CASE \E id \in TaskIds :
              \/ StartTask(id)
              \/ ReassignTask(id)
              \/ CompleteTask(id)
              \/ RegisterApprovedReport(id)
              \/ RegisterRecord(id)
              \/ \E a \in ReviewActions : ConfirmSample(id, a)
              \/ ApproveSampleOrdinarily(id)
              \/ \E k \in RecordKeys : CreateReview(id, k)
              \/ ApproveReview(id)
              \/ RejectReview(id)
              \/ \E k \in Months : ApproveMonth(id, k)
  <2>1. ReviewActions \subseteq FinishingActions
    BY DEF FinishingActions
  <2> QED
    BY <1>1, <1>2, <1>3, <1>4, <1>5, <1>6, <1>7, <1>8, <1>9, <1>10, <1>11, <1>12, <1>13, <1>15, <2>1
<1> QED
  BY <1>14, <1>15 DEF Next

-----------------------------------------------------------------------------
(* The invariant of progress.                                              *)

(* The main line of a running project has an open task, or it stopped at   *)
(* a rejected sample.                                                      *)
Alive(ts, rd) ==
  ActivePrimary(ts) = {} =>
    /\ rd["SAMPLE_COLOR_CONFIRMATION"] > 0
    /\ ts[Latest(rd, "SAMPLE_COLOR_CONFIRMATION")].status = "REJECTED"

(* The closing task exists exactly when every month is done, from then on  *)
(* nothing else is open on the main line, and the monthly review is only   *)
(* reached with a plan.                                                    *)
MonthsInOrder ==
  /\ months = Months <=> round["PROJECT_CLOSED"] > 0
  /\ \A p \in ActivePrimary(task) :
       /\ round["PROJECT_CLOSED"] > 0 => p[1] = "PROJECT_CLOSED"
       /\ p[1] = "VISUAL_COLOR_DIFFERENCE_REVIEW" => planned

ProgressInv ==
  /\ Upstream(task, round)
  /\ instance.status = "COMPLETED" => AllFirm(task, round)
  /\ instance.status = "RUNNING" => Alive(task, round)
  /\ MonthsInOrder

(* Touching closes and opens nothing, and leaves closed rows alone.        *)
LEMMA TouchedTables ==
  ASSUME NEW ts, NEW us, NEW rd, Tables(ts, rd), Touches(ts, us)
  PROVE  /\ Tables(us, rd)
         /\ ActivePrimary(us) = ActivePrimary(ts)
         /\ \A i \in TaskIds : ~ts[i].active => us[i] = ts[i]
<1>1. Tweaks(ts, us) /\ IsTasks(ts)
  BY DEF Touches, Tables
<1> QED
  BY <1>1, TablesTweaked, TweakedActive DEF Tweaks

(* What stands and is not open is not touched.                             *)
LEMMA FirmTouched ==
  ASSUME NEW ts, NEW us, NEW rd, Tables(ts, rd), Touches(ts, us),
         NEW m \in PrimaryNodes, Firm(ts, rd, m), Latest(rd, m) \notin ActivePrimary(ts)
  PROVE  Firm(us, rd, m)
<1>1. rd[m] \in Rounds
  BY BoundsAssumption DEF Tables, IsRounds, Rounds, Firm, Standing, NodeCodes
<1>2. Latest(rd, m) \in TaskIds /\ ~ts[Latest(rd, m)].active
  BY <1>1 DEF Latest, TaskIds, NodeCodes, ActivePrimary, Tables, IsTasks, Rows
<1>3. us[Latest(rd, m)] = ts[Latest(rd, m)]
  BY <1>2, TouchedTables
<1> QED
  BY <1>3 DEF Firm, Standing, Evidenced

(* Touching keeps what is behind the main line firm, and its end.          *)
LEMMA LineTouched ==
  ASSUME NEW ts, NEW us, NEW rd, Tables(ts, rd), Touches(ts, us)
  PROVE  /\ Upstream(ts, rd) => Upstream(us, rd)
         /\ ActivePrimary(ts) = {} /\ AllFirm(ts, rd) => AllFirm(us, rd)
         /\ Alive(ts, rd) => Alive(us, rd)
<1>1. ActivePrimary(us) = ActivePrimary(ts)
  BY TouchedTables
<1>2. ASSUME Upstream(ts, rd), NEW p \in ActivePrimary(ts), NEW m \in PrimaryNodes,
             Position[m] < Position[p[1]]
      PROVE  Firm(us, rd, m)
  <2>1. p[1] \in PrimaryNodes /\ p[1] # m
    BY <1>2, ActivePrimaryNodes, Positions
  <2>2. Latest(rd, m) \notin ActivePrimary(ts)
    BY <2>1 DEF Tables, OnePrimary, Latest
  <2> QED
    BY <1>2, <2>2, FirmTouched DEF Upstream
<1>3. ASSUME ActivePrimary(ts) = {}, AllFirm(ts, rd) PROVE AllFirm(us, rd)
  BY <1>3, FirmTouched DEF AllFirm
<1>4. ASSUME ActivePrimary(ts) = {}, Alive(ts, rd) PROVE Alive(us, rd)
  <2> DEFINE s == Latest(rd, "SAMPLE_COLOR_CONFIRMATION")
  <2>1. "SAMPLE_COLOR_CONFIRMATION" \in PrimaryNodes /\ "SAMPLE_COLOR_CONFIRMATION" \in NodeCodes
    BY DEF PrimaryNodes, NodeCodes
  <2>2. s \in TaskIds /\ s \in PrimaryNodes \X Rounds
    BY <1>4, <2>1, BoundsAssumption DEF Alive, Latest, Tables, IsRounds, TaskIds, Rounds
  <2>3. ~ts[s].active
    BY <1>4, <2>2 DEF ActivePrimary, Tables, IsTasks, Rows
  <2>4. us[s] = ts[s]
    BY <2>2, <2>3, TouchedTables
  <2> QED
    BY <1>4, <2>4 DEF Alive
<1> QED
  BY <1>1, <1>2, <1>3, <1>4 DEF Upstream, Alive

(* A finishing action other than the closing leaves an open main-line task *)
(* or a rejected sample.                                                   *)
LEMMA AliveAfter ==
  ASSUME NEW ts, NEW rd, NEW id, NEW a, Tables(ts, rd), Applies(ts, rd, id, a),
         Alive(ts, rd), id[1] # "PROJECT_CLOSED"
  PROVE  Alive(TasksAfter(ts, rd, id, a), RoundsAfter(rd, id[1], a))
<1> DEFINE us == TasksAfter(ts, rd, id, a)
           sd == RoundsAfter(rd, id[1], a)
           S  == "SAMPLE_COLOR_CONFIRMATION"
<1>1. id \in TaskIds /\ ts[id].active /\ id = <<id[1], id[2]>> /\ a \in AllowedActions(id[1])
  BY DEF Applies, TaskIds
<1>2. S \in PrimaryNodes /\ S \in NodeCodes
  BY DEF PrimaryNodes, NodeCodes
<1>3. SUFFICES ASSUME ActivePrimary(us) = {}
               PROVE  sd[S] > 0 /\ us[Latest(sd, S)].status = "REJECTED"
  BY DEF Alive
<1>4. CASE id[1] \in PrimaryNodes
  <2>1. NextNodes(id[1], a) \cap PrimaryNodes = {}
    BY <1>3, <1>4, LineMoves
  <2>2. id[1] = S /\ a = "REJECT"
    BY <1>1, <1>4, <2>1, LineEnds
  <2>3. S \notin Spawned(rd, id[1], a)
    BY <1>2, <2>1 DEF Spawned
  <2>4. sd[S] = rd[S] /\ id[2] = rd[S] /\ id[2] > 0
    BY <1>1, <1>2, <2>2, <2>3, BoundsAssumption DEF RoundsAfter, Tables, Current, TaskIds, Rounds
  <2>5. us[id].status = "REJECTED"
    BY <2>2, ActedOn DEF ConsistencyReturn, TerminalStatus
  <2>6. Latest(sd, S) = id
    BY <1>1, <2>2, <2>4 DEF Latest
  <2> QED
    BY <2>4, <2>5, <2>6
<1>5. CASE id[1] \notin PrimaryNodes
  <2>1. rd[S] > 0 /\ ts[Latest(rd, S)].status = "REJECTED"
    BY <1>3, <1>5, LineMoves DEF Alive
  <2>2. S \notin NextNodes(id[1], a)
    BY <1>1, <1>2, <1>5, ParallelCreatesParallel DEF TaskIds, NodeCodes
  <2>3. sd[S] = rd[S] /\ S \notin Spawned(rd, id[1], a)
    BY <1>2, <2>2 DEF RoundsAfter, Spawned
  <2> DEFINE s == Latest(rd, S)
  <2>4. s \in TaskIds /\ s[1] = S
    BY <1>2, <2>1, BoundsAssumption DEF Latest, Tables, IsRounds, TaskIds, Rounds
  <2>5. ~Sweeps(ts, rd, id, a, s) /\ s # id
    BY <1>2, <1>5, <2>4 DEF Sweeps, ConsistencyReturn, PrimaryNodes
  <2> HIDE DEF s
  <2>6. us[s] = ts[s]
    BY <2>3, <2>4, <2>5, Untouched
  <2> QED
    BY <2>1, <2>3, <2>6 DEF Latest, s
<1> QED
  BY <1>4, <1>5

(* What a finishing action does to the closing node and to the monthly     *)
(* review.                                                                 *)
LEMMA LastNodes ==
  ASSUME NEW rd, NEW n \in PrimaryNodes, NEW a \in AllowedActions(n)
  PROVE  /\ "PROJECT_CLOSED" \in NextNodes(n, a) <=>
              n = "VISUAL_COLOR_DIFFERENCE_REVIEW" /\ Concludes(n, a)
         /\ "VISUAL_COLOR_DIFFERENCE_REVIEW" \in NextNodes(n, a) =>
              n = "MASS_PRODUCTION" /\ a \in CompletionActions
         /\ n = "PROJECT_CLOSED" => NextNodes(n, a) = {}
<1>1. "PROJECT_CLOSED" \in NextNodes(n, a) <=>
        n = "VISUAL_COLOR_DIFFERENCE_REVIEW" /\ Concludes(n, a)
  BY DEF NextNodes, NodeCodes, PrimaryNodes, ForwardEdges, BackEdges
<1>2. "VISUAL_COLOR_DIFFERENCE_REVIEW" \in NextNodes(n, a) =>
        n = "MASS_PRODUCTION" /\ a \in CompletionActions
  BY DEF NextNodes, ForwardEdges, BackEdges, Concludes, ReviewNodes
<1>3. n = "PROJECT_CLOSED" => NextNodes(n, a) = {}
  BY DEF NextNodes, ForwardEdges, BackEdges
<1> QED
  BY <1>1, <1>2, <1>3

-----------------------------------------------------------------------------
(* The steps preserve the invariant of progress.                           *)

(* How the synchronised pointers depend on the tasks.                      *)
LEMMA SyncedStatus ==
  ASSUME NEW ts, NEW closes \in BOOLEAN, SyncState(ts, closes)
  PROVE  instance'.status = IF closes THEN "COMPLETED" ELSE instance.status
BY DEF SyncState

(* A step that touches open rows.                                          *)
LEMMA TouchProgress ==
  ASSUME WorkflowInv, ProgressInv, TouchStep
  PROVE  ProgressInv'
<1>1. Tables(task, round) /\ Touches(task, task') /\ round' = round /\ planned' = planned
  BY DEF WorkflowInv, TouchStep
<1>2. ActivePrimary(task') = ActivePrimary(task)
  BY <1>1, TouchedTables
<1>3. instance'.status = instance.status
  BY SyncedStatus DEF TouchStep
<1>4. Upstream(task', round)
  BY <1>1, LineTouched DEF ProgressInv
<1>5. instance.status = "COMPLETED" => AllFirm(task', round)
  BY <1>1, LineTouched DEF ProgressInv, WorkflowInv, PointersFollowTasks
<1>6. instance.status = "RUNNING" => Alive(task', round)
  BY <1>1, LineTouched DEF ProgressInv
<1>7. months' = Months <=> months = Months
  <2>1. CASE UNCHANGED months
    BY <2>1
  <2>2. CASE OneMonthDone
    BY <2>2 DEF OneMonthDone
  <2> QED
    BY <2>1, <2>2 DEF TouchStep
<1>8. MonthsInOrder'
  BY <1>1, <1>2, <1>7 DEF ProgressInv, MonthsInOrder, Months
<1> QED
  BY <1>1, <1>3, <1>4, <1>5, <1>6, <1>8 DEF ProgressInv

(* A finishing action keeps the closing task and the months together.      *)
LEMMA FinishMonths ==
  ASSUME WorkflowInv, ProgressInv, NEW ts, NEW id, NEW a, FinishStep(ts, id, a)
  PROVE  MonthsInOrder'
<1> DEFINE PC == "PROJECT_CLOSED"
           VC == "VISUAL_COLOR_DIFFERENCE_REVIEW"
<1>1. /\ Tables(ts, round) /\ ActivePrimary(ts) = ActivePrimary(task)
      /\ Applies(ts, round, id, a)
      /\ task' = TasksAfter(ts, round, id, a)
      /\ round' = RoundsAfter(round, id[1], a)
      /\ planned' = (planned \/ (id[1] = "MASS_PRODUCTION" /\ a \in CompletionActions))
      /\ MonthsFollow(id[1], a)
  BY TouchedTables DEF FinishStep, WorkflowInv
<1>2. /\ id \in TaskIds /\ ts[id].active /\ a \in AllowedActions(id[1])
      /\ id[2] = round[id[1]] /\ id[2] > 0 /\ id[1] \in NodeCodes
      /\ PC \in PrimaryNodes /\ PC \in NodeCodes /\ VC \in PrimaryNodes /\ round[PC] \in Nat
  BY <1>1, BoundsAssumption
     DEF Applies, Tables, Current, TaskIds, Rounds, IsRounds, PrimaryNodes, NodeCodes
<1>3. round'[PC] = IF PC \in NextNodes(id[1], a) THEN round[PC] + 1 ELSE round[PC]
  BY <1>1, <1>2 DEF RoundsAfter, Spawned, OnceNodes
<1>4. CASE id[1] \notin PrimaryNodes
  <2>1. ActivePrimary(task') = ActivePrimary(task) /\ round'[PC] = round[PC]
    BY <1>1, <1>2, <1>3, <1>4, LineMoves, ParallelCreatesParallel DEF NodeCodes
  <2>2. months' = months
    BY <1>1, <1>2, <1>4 DEF MonthsFollow
  <2> QED
    BY <1>1, <2>1, <2>2 DEF ProgressInv, MonthsInOrder, Months
<1>5. CASE id[1] \in PrimaryNodes
  <2>1. id \in ActivePrimary(task)
    BY <1>1, <1>2, <1>5 DEF ActivePrimary, TaskIds
  <2>2. \A p \in ActivePrimary(task') : p[1] \in NextNodes(id[1], a) \cap PrimaryNodes
    BY <1>1, <1>5, LineMoves DEF NextTask
  <2>3. CASE round[PC] > 0
    <3>1. id[1] = PC
      BY <2>1, <2>3 DEF ProgressInv, MonthsInOrder
    <3>2. ActivePrimary(task') = {} /\ round'[PC] = round[PC] /\ months' = months
      BY <1>1, <1>2, <1>3, <1>5, <2>2, <3>1, LastNodes DEF MonthsFollow
    <3> QED
      BY <2>3, <3>2 DEF ProgressInv, MonthsInOrder, Months
  <2>4. CASE round[PC] = 0
    <3>1. CASE id[1] = VC /\ Concludes(id[1], a)
      <4>1. months' = Months /\ round'[PC] = 1 /\ PC \in NextNodes(id[1], a)
        BY <1>1, <1>2, <1>3, <1>5, <2>4, <3>1, LastNodes DEF MonthsFollow
      <4>2. \A p \in ActivePrimary(task') : p[1] = PC
        BY <1>2, <2>2, <4>1, OnePrimaryNext
      <4> QED
        BY <4>1, <4>2 DEF MonthsInOrder, Months
    <3>2. CASE ~(id[1] = VC /\ Concludes(id[1], a))
      <4>1. months' = months /\ round'[PC] = 0
        BY <1>1, <1>2, <1>3, <1>5, <2>4, <3>2, LastNodes DEF MonthsFollow
      <4>2. \A p \in ActivePrimary(task') : p[1] = VC => planned'
        BY <1>1, <1>2, <1>5, <2>2, LastNodes
      <4> QED
        BY <2>4, <4>1, <4>2 DEF ProgressInv, MonthsInOrder, Months
    <3> QED
      BY <3>1, <3>2
  <2> QED
    BY <1>2, <2>3, <2>4
<1> QED
  BY <1>4, <1>5

(* A step that finishes a task.                                            *)
LEMMA FinishProgress ==
  ASSUME WorkflowInv, ProgressInv, NEW ts, NEW id, NEW a, FinishStep(ts, id, a)
  PROVE  ProgressInv'
<1>1. /\ Tables(ts, round) /\ Upstream(ts, round) /\ Alive(ts, round)
      /\ Applies(ts, round, id, a)
      /\ task' = TasksAfter(ts, round, id, a)
      /\ round' = RoundsAfter(round, id[1], a)
      /\ Concludes(id[1], a) => Evidenced(ts, id)
  BY TouchedTables, LineTouched DEF FinishStep, WorkflowInv, ProgressInv
<1>2. instance'.status = IF id[1] = "PROJECT_CLOSED" THEN "COMPLETED" ELSE "RUNNING"
  <2>1. SyncState(task', id[1] = "PROJECT_CLOSED") /\ instance.status = "RUNNING"
    BY DEF FinishStep
  <2>2. (id[1] = "PROJECT_CLOSED") \in BOOLEAN
    OBVIOUS
  <2> QED
    BY <2>1, <2>2, SyncedStatus
<1>3. Upstream(task', round') /\ (id[1] = "PROJECT_CLOSED" => AllFirm(task', round'))
  BY <1>1, UpstreamAfter
<1>4. id[1] # "PROJECT_CLOSED" => Alive(task', round')
  BY <1>1, AliveAfter
<1>5. MonthsInOrder'
  BY FinishMonths
<1> QED
  BY <1>2, <1>3, <1>4, <1>5 DEF ProgressInv

(* The registration of the report leaves the paint development open.       *)
LEMMA ReportLine ==
  ASSUME WorkflowInv, NEW id, ReportStep(id)
  PROVE  LET ts == TasksAfter(task, round, id, "COMPLETE")
             rd == RoundsAfter(round, id[1], "COMPLETE")
         IN  /\ Tables(ts, rd)
             /\ ReportTask[1] = "DEVELOPMENT_REPORT"
             /\ round' = RoundsAfter(rd, ReportTask[1], "COMPLETE")
             /\ ActivePrimary(task') = {NextTask(rd, "PAINT_DEVELOPMENT")}
             /\ \A n \in NodeCodes : n \notin {"DEVELOPMENT_REPORT", "PAINT_DEVELOPMENT"} =>
                   round'[n] = round[n]
<1> DEFINE ts == TasksAfter(task, round, id, "COMPLETE")
           rd == RoundsAfter(round, id[1], "COMPLETE")
<1>1. /\ id[1] = "PROJECT_INITIATION"
      /\ Applies(task, round, id, "COMPLETE")
      /\ Applies(ts, rd, ReportTask, "COMPLETE")
      /\ task' = TasksAfter(ts, rd, ReportTask, "COMPLETE")
      /\ round' = RoundsAfter(rd, "DEVELOPMENT_REPORT", "COMPLETE")
  BY DEF ReportStep
<1>2. Tables(ts, rd) /\ ReportTask[1] = "DEVELOPMENT_REPORT"
  BY <1>1, TablesAfter DEF WorkflowInv, ReportTask
<1>3. /\ NextNodes("PROJECT_INITIATION", "COMPLETE") = {"DEVELOPMENT_REPORT"}
      /\ NextNodes("DEVELOPMENT_REPORT", "COMPLETE") = {"PAINT_DEVELOPMENT"}
  BY DEF NextNodes, NodeCodes, PrimaryNodes, Concludes, SendsBack, ReviewNodes, CompletionActions,
         ForwardEdges
<1>4. /\ \A n \in NodeCodes : n # "DEVELOPMENT_REPORT" => rd[n] = round[n]
      /\ \A n \in NodeCodes : n # "PAINT_DEVELOPMENT" => round'[n] = rd[n]
  BY <1>1, <1>3 DEF RoundsAfter, Spawned
<1> HIDE DEF ts, rd
<1>5. ActivePrimary(task') =
        {NextTask(rd, m) : m \in NextNodes("DEVELOPMENT_REPORT", "COMPLETE") \cap PrimaryNodes}
  <2>1. ReportTask[1] \in PrimaryNodes
    BY <1>2 DEF PrimaryNodes
  <2> QED
    BY <1>1, <1>2, <2>1, LineMoves
<1>6. ActivePrimary(task') = {NextTask(rd, "PAINT_DEVELOPMENT")}
  BY <1>3, <1>5 DEF PrimaryNodes
<1> QED
  BY <1>1, <1>2, <1>4, <1>6 DEF ts, rd

(* The registration of the report.                                         *)
LEMMA ReportProgress ==
  ASSUME WorkflowInv, ProgressInv, NEW id, ReportStep(id)
  PROVE  ProgressInv'
<1> DEFINE ts == TasksAfter(task, round, id, "COMPLETE")
           rd == RoundsAfter(round, id[1], "COMPLETE")
<1>1. /\ id[1] = "PROJECT_INITIATION"
      /\ Applies(task, round, id, "COMPLETE")
      /\ Applies(ts, rd, ReportTask, "COMPLETE")
      /\ task' = TasksAfter(ts, rd, ReportTask, "COMPLETE")
      /\ SyncState(task', FALSE) /\ instance.status = "RUNNING"
      /\ UNCHANGED <<planned, months>>
      /\ Tables(task, round)
  BY DEF ReportStep, WorkflowInv
<1>2. /\ Tables(ts, rd)
      /\ ReportTask[1] = "DEVELOPMENT_REPORT"
      /\ round' = RoundsAfter(rd, ReportTask[1], "COMPLETE")
      /\ ActivePrimary(task') = {NextTask(rd, "PAINT_DEVELOPMENT")}
      /\ round'["PROJECT_CLOSED"] = round["PROJECT_CLOSED"]
  BY ReportLine DEF NodeCodes, PrimaryNodes
<1>3. Evidenced(task, id) /\ Evidenced(ts, ReportTask)
  BY <1>1, <1>2 DEF Evidenced, EvidenceNodes
<1>4. Upstream(ts, rd)
  BY <1>1, <1>3, UpstreamAfter DEF ProgressInv
<1> HIDE DEF ts, rd
<1>5. Upstream(task', round')
  BY <1>1, <1>2, <1>3, <1>4, UpstreamAfter
<1>6. instance'.status = "RUNNING"
  BY <1>1, SyncedStatus
<1>7. Alive(task', round')
  BY <1>2 DEF Alive
<1>8. id \in ActivePrimary(task)
  BY <1>1 DEF Applies, ActivePrimary, TaskIds, PrimaryNodes
<1>9. ~(round["PROJECT_CLOSED"] > 0)
  BY <1>1, <1>8 DEF ProgressInv, MonthsInOrder
<1>10. MonthsInOrder'
  BY <1>1, <1>2, <1>9 DEF ProgressInv, MonthsInOrder, Months, NextTask
<1> QED
  BY <1>5, <1>6, <1>7, <1>10 DEF ProgressInv

(* A project just created has done no month and has nothing behind it.     *)
LEMMA InitProgress ==
  Init => ProgressInv
<1> SUFFICES ASSUME Init PROVE ProgressInv
  OBVIOUS
<1>1. PointersFollowTasks /\ instance = [status |-> "RUNNING", node |-> "PROJECT_INITIATION"]
  BY InitInv DEF WorkflowInv, Init
<1>2. ActivePrimary(task) # {} /\ \A p \in ActivePrimary(task) : p[1] = "PROJECT_INITIATION"
  BY <1>1 DEF PointersFollowTasks, NoNode
<1>3. Upstream(task, round)
  BY <1>2 DEF Upstream, PrimaryNodes, Position
<1>4. round["PROJECT_CLOSED"] = 0 /\ months = {}
  BY DEF Init, NodeCodes, PrimaryNodes
<1>5. Months # {}
  <2>1. 1 \in Months
    BY BoundsAssumption DEF Months
  <2> QED
    BY <2>1
<1> QED
  BY <1>1, <1>2, <1>3, <1>4, <1>5 DEF ProgressInv, Alive, MonthsInOrder

(* The invariant of progress holds in every reachable state.               *)
THEOREM ProgressInvariant ==
  Spec => []ProgressInv
<1>1. WorkflowInv /\ ProgressInv /\ [Next]_vars => ProgressInv'
  BY StepShapes, TouchProgress, FinishProgress, ReportProgress
<1> QED
  BY InitProgress, WorkflowInvariant, <1>1, PTL DEF Spec

(* Nothing is skipped: everything before the open main-line task stands,   *)
(* and a closed project stands on the whole main line.                     *)
THEOREM NothingSkipped ==
  Spec => []UpstreamStands
<1>1. ProgressInv => UpstreamStands
  BY DEF ProgressInv, Upstream, AllFirm, Firm, Standing, Latest, UpstreamStands, Stands
<1> QED
  BY ProgressInvariant, <1>1, PTL

(* No running project and no year of reviews is left without work.         *)
THEOREM WorkAlwaysRemains ==
  Spec => []WorkRemains
<1>1. ASSUME WorkflowInv, ProgressInv PROVE WorkRemains
  <2>1. MainLineAlive
    BY <1>1 DEF ProgressInv, Alive, Latest, MainLineAlive
  <2>2. ASSUME NEW id \in TaskIds, id[1] = "VISUAL_COLOR_DIFFERENCE_REVIEW", task[id].active
        PROVE  planned /\ months # Months
    <3>1. id \in ActivePrimary(task)
      BY <2>2 DEF ActivePrimary, TaskIds, PrimaryNodes
    <3> QED
      BY <1>1, <2>2, <3>1 DEF ProgressInv, MonthsInOrder
  <2>3. OpenMonthRemains
    BY <1>1, <2>2 DEF OpenMonthRemains, ProgressInv, MonthsInOrder
  <2> QED
    BY <2>1, <2>3 DEF WorkRemains
<1> QED
  BY WorkflowInvariant, ProgressInvariant, <1>1, PTL

-----------------------------------------------------------------------------
(* The number and the fee, read off their only task.                       *)

MatterOf(row) ==
  IF row.active THEN "OPEN" ELSE IF row.status = "NONE" THEN "NONE" ELSE "DONE"

(* Every round that was reached has a task.                                *)
Reached(ts, rd) ==
  \A i \in TaskIds : i[2] <= rd[i[1]] => ts[i].status # "NONE"

(* An open row has a status, so the cases of a matter exclude each other.  *)
LEMMA MatterCases ==
  ASSUME NEW row, row.active => row.status # "NONE"
  PROVE  (CASE row.active          -> "OPEN"
            [] row.status = "NONE" -> "NONE"
            [] OTHER               -> "DONE") = MatterOf(row)
<1>1. CASE row.active
  BY <1>1, Zenon DEF MatterOf
<1>2. CASE ~row.active /\ row.status = "NONE"
  BY <1>2, Zenon DEF MatterOf
<1>3. CASE ~row.active /\ row.status # "NONE"
  BY <1>3, Zenon DEF MatterOf
<1> QED
  BY <1>1, <1>2, <1>3

(* Open tasks have a status.                                               *)
LEMMA OpenHasStatus ==
  ASSUME NEW ts, NEW rd, Tables(ts, rd), Reached(ts, rd), NEW n \in OnceNodes,
         ts[<<n, 1>>].active
  PROVE  ts[<<n, 1>>].status # "NONE"
<1>1. <<n, 1>> \in TaskIds
  BY BoundsAssumption DEF OnceNodes, NodeCodes, ParallelNodes, TaskIds, Rounds
<1> QED
  BY <1>1, BoundsAssumption DEF Tables, Current, Reached, IsRounds, TaskIds, Rounds

(* Touching empties no round.                                              *)
LEMMA ReachedTouched ==
  ASSUME NEW ts, NEW us, NEW rd, IsTasks(ts), Reached(ts, rd), Touches(ts, us)
  PROVE  Reached(us, rd)
BY DEF Reached, Touches, Tweaks, ActiveStatuses

(* A finishing action empties no round and fills the rounds it reaches.    *)
LEMMA ReachedAfter ==
  ASSUME NEW ts, NEW rd, NEW id, NEW a, Tables(ts, rd), Applies(ts, rd, id, a), Reached(ts, rd)
  PROVE  Reached(TasksAfter(ts, rd, id, a), RoundsAfter(rd, id[1], a))
<1> DEFINE us   == TasksAfter(ts, rd, id, a)
           tech == ConsistencyReturn(id[1], a) \/ ts[id].technical
<1>1. id \in TaskIds /\ IsTasks(ts) /\ IsRounds(rd) /\ tech \in BOOLEAN
  BY DEF Applies, Tables, IsTasks, Rows, ConsistencyReturn
<1>2. SUFFICES ASSUME NEW i \in TaskIds, i[2] <= RoundsAfter(rd, id[1], a)[i[1]]
               PROVE  us[i].status # "NONE"
  BY DEF Reached
<1>3. i[1] \in NodeCodes /\ i[2] \in Nat /\ rd[i[1]] \in Nat
  BY <1>1, BoundsAssumption DEF TaskIds, Rounds, IsRounds
<1>4. CASE i[1] \in Spawned(rd, id[1], a) /\ i[2] = rd[i[1]] + 1
  <2>1. us[i] = ReadyRow(id, tech)
    BY <1>4, AfterRow
  <2> HIDE DEF tech
  <2> QED
    BY <1>1, <2>1, ReadyRowType
<1>5. CASE ~(i[1] \in Spawned(rd, id[1], a) /\ i[2] = rd[i[1]] + 1)
  <2>1. i[2] <= rd[i[1]]
    BY <1>2, <1>3, <1>5 DEF RoundsAfter
  <2>2. ts[i].status # "NONE" /\ ts[i] \in Rows
    BY <1>1, <2>1 DEF Reached, IsTasks
  <2>3. CASE i = id
    BY <2>3, ActedOn
  <2>4. CASE i # id
    <3>1. us[i] = Settled(ts, rd, id, a)[i] /\ ClosedAt(ts, id, a, i) = ts[i]
      BY <1>5, <2>4, AfterRow DEF ClosedAt
    <3>2. us[i] = Swept(ts[i]) \/ us[i] = ts[i]
      BY <1>1, <3>1, SettledRow
    <3>3. Swept(ts[i]).status # "NONE"
      BY <2>2 DEF Swept, Closed, Rows
    <3> QED
      BY <2>2, <3>2, <3>3
  <2> QED
    BY <2>3, <2>4
<1> QED
  BY <1>4, <1>5

(* A project just created has reached the initiation.                      *)
LEMMA InitReached ==
  Init => Reached(task, round)
<1> SUFFICES ASSUME Init, NEW i \in TaskIds, i[2] <= round[i[1]]
             PROVE  task[i].status # "NONE"
  BY DEF Reached
<1>1. i = <<i[1], i[2]>> /\ i[1] \in NodeCodes /\ i[2] \in Nat /\ i[2] >= 1
  BY BoundsAssumption DEF TaskIds, Rounds
<1>2. i = <<"PROJECT_INITIATION", 1>>
  BY <1>1 DEF Init
<1> QED
  BY <1>2, ReadyRowType DEF Init

(* The tasks every step leaves have a task in every round reached.         *)
LEMMA NextReached ==
  ASSUME WorkflowInv, Reached(task, round), [Next]_vars
  PROVE  Reached(task', round')
<1>1. CASE TouchStep
  BY <1>1, ReachedTouched DEF TouchStep, WorkflowInv, Tables
<1>2. ASSUME NEW ts, NEW id, NEW a, FinishStep(ts, id, a) PROVE Reached(task', round')
  <2>1. Tables(ts, round) /\ Reached(ts, round)
    BY <1>2, TouchedTables, ReachedTouched DEF FinishStep, WorkflowInv, Tables
  <2> QED
    BY <1>2, <2>1, ReachedAfter DEF FinishStep
<1>3. ASSUME NEW id, ReportStep(id) PROVE Reached(task', round')
  <2> DEFINE ts == TasksAfter(task, round, id, "COMPLETE")
             rd == RoundsAfter(round, id[1], "COMPLETE")
  <2>1. /\ Applies(task, round, id, "COMPLETE")
        /\ Applies(ts, rd, ReportTask, "COMPLETE")
        /\ task' = TasksAfter(ts, rd, ReportTask, "COMPLETE")
    BY <1>3 DEF ReportStep
  <2>2. Tables(ts, rd) /\ round' = RoundsAfter(rd, ReportTask[1], "COMPLETE")
    BY <1>3, ReportLine
  <2>3. Reached(ts, rd)
    BY <2>1, ReachedAfter DEF WorkflowInv
  <2> HIDE DEF ts, rd
  <2> QED
    BY <2>1, <2>2, <2>3, ReachedAfter
<1> QED
  BY <1>1, <1>2, <1>3, StepShapes

(* Touching opens and settles no matter.                                   *)
LEMMA MatterTouched ==
  ASSUME NEW ts, NEW us, IsTasks(ts), Touches(ts, us), NEW i \in TaskIds
  PROVE  MatterOf(us[i]) = MatterOf(ts[i])
<1>1. us[i] # ts[i] => ts[i].active /\ us[i].active
  BY DEF Touches, Tweaks
<1> QED
  BY <1>1 DEF MatterOf

(* A finishing action settles its own matter and opens those it leads to,  *)
(* unless they were opened before.                                         *)
LEMMA MatterAfter ==
  ASSUME NEW ts, NEW rd, NEW id, NEW a, Tables(ts, rd), Reached(ts, rd),
         Applies(ts, rd, id, a), NEW n \in OnceNodes
  PROVE  LET old == MatterOf(ts[<<n, 1>>])
             new == MatterOf(TasksAfter(ts, rd, id, a)[<<n, 1>>])
         IN  /\ id[1] = n => old = "OPEN" /\ new = "DONE"
             /\ id[1] # n /\ n \in NextNodes(id[1], a) => new = IF old = "NONE" THEN "OPEN" ELSE old
             /\ id[1] # n /\ n \notin NextNodes(id[1], a) => new = old
<1> DEFINE i    == <<n, 1>>
           us   == TasksAfter(ts, rd, id, a)
           tech == ConsistencyReturn(id[1], a) \/ ts[id].technical
<1>1. /\ id \in TaskIds /\ ts[id].active /\ IsTasks(ts) /\ id = <<id[1], id[2]>>
      /\ id[2] = rd[id[1]] /\ id[2] \in Nat /\ id[2] >= 1 /\ tech \in BOOLEAN
  BY BoundsAssumption
     DEF Applies, Tables, Current, TaskIds, Rounds, IsTasks, Rows, ConsistencyReturn
<1>2. n \in NodeCodes /\ n \notin TechnicalNodes /\ i \in TaskIds /\ i[1] = n /\ i[2] = 1
  BY BoundsAssumption DEF OnceNodes, NodeCodes, ParallelNodes, TechnicalNodes, TaskIds, Rounds
<1>3. rd[n] \in {0, 1}
  BY <1>2, BoundsAssumption DEF Tables, Once, IsRounds
<1>4. ~Sweeps(ts, rd, id, a, i)
  BY <1>2 DEF Sweeps
<1>5. ts[i].status # "NONE" <=> rd[n] = 1
  BY <1>2, <1>3 DEF Reached, Tables, Unused, NoRow
<1>6. ts[i].active => rd[n] = 1
  BY <1>2 DEF Tables, Current
<1>7. CASE id[1] = n
  <2>1. id = i
    BY <1>1, <1>3, <1>7
  <2>2. MatterOf(ts[i]) = "OPEN"
    BY <1>1, <2>1 DEF MatterOf
  <2>3. us[id].status # "NONE" /\ ~us[id].active
    BY ActedOn
  <2>4. MatterOf(us[id]) = "DONE"
    BY <2>3 DEF MatterOf
  <2> QED
    BY <1>7, <2>1, <2>2, <2>4
<1>8. CASE id[1] # n
  <2>1. id # i
    BY <1>2, <1>8
  <2>2. CASE n \in NextNodes(id[1], a) /\ rd[n] = 0
    <3>1. n \in Spawned(rd, id[1], a)
      BY <2>2 DEF Spawned
    <3>2. us[i] = ReadyRow(id, tech)
      BY <1>2, <2>2, <3>1, AfterRow
    <3>3. us[i].active
      <4> HIDE DEF us, tech, i
      <4> QED
        BY <1>1, <3>2, ReadyRowType
    <3>4. MatterOf(us[i]) = "OPEN" /\ MatterOf(ts[i]) = "NONE"
      BY <1>5, <1>6, <2>2, <3>3 DEF MatterOf
    <3> QED
      BY <1>8, <2>2, <3>4
  <2>3. CASE ~(n \in NextNodes(id[1], a) /\ rd[n] = 0)
    <3>1. ~(n \in Spawned(rd, id[1], a) /\ 1 = rd[n] + 1)
      BY <1>3, <2>3 DEF Spawned
    <3>2. us[i] = ts[i]
      <4> HIDE DEF us, i
      <4> QED
        BY <1>2, <1>4, <2>1, <3>1, Untouched DEF us
    <3>3. n \in NextNodes(id[1], a) => MatterOf(ts[i]) # "NONE"
      BY <1>3, <1>5, <2>3 DEF MatterOf
    <3> QED
      BY <1>8, <3>2, <3>3
  <2> QED
    BY <2>2, <2>3
<1> QED
  BY <1>7, <1>8

-----------------------------------------------------------------------------
(* The refinement.                                                         *)

(* The lifecycle moves along the same topology.                            *)
LEMMA SameTopology ==
  /\ Lifecycle!PrimaryNodes = PrimaryNodes
  /\ Lifecycle!Position = Position
  /\ Lifecycle!BackEdges = BackEdges
BY DEF Lifecycle!PrimaryNodes, PrimaryNodes, Lifecycle!Position, Position,
       Lifecycle!BackEdges, BackEdges

(* The variables of the lifecycle before and after a step, in terms of the *)
(* tasks.                                                                  *)
PhaseOf(status, ts) ==
  IF status = "COMPLETED" THEN "CLOSED"
  ELSE IF ActivePrimary(ts) = {} THEN "HALTED" ELSE "RUNNING"

(* The phase is that of the pointers that follow the tasks.                *)
LEMMA PhaseIs ==
  ASSUME WorkflowInv, WorkflowInv'
  PROVE  /\ Phase = PhaseOf(instance.status, task)
         /\ Phase' = PhaseOf(instance'.status, task')
<1>1. /\ instance.status \in {"RUNNING", "COMPLETED"} /\ instance'.status \in {"RUNNING", "COMPLETED"}
      /\ instance.node = NoNode <=> ActivePrimary(task) = {}
      /\ instance'.node = NoNode <=> ActivePrimary(task') = {}
  BY DEF WorkflowInv, PointerTypes, PointersFollowTasks
<1>2. Phase = PhaseOf(instance.status, task)
  <2>1. CASE instance.status = "COMPLETED"
    BY <2>1 DEF Phase, PhaseOf
  <2>2. CASE instance.status = "RUNNING" /\ instance.node = NoNode
    BY <1>1, <2>2 DEF Phase, PhaseOf
  <2>3. CASE instance.status = "RUNNING" /\ instance.node # NoNode
    BY <1>1, <2>3 DEF Phase, PhaseOf
  <2> QED
    BY <1>1, <2>1, <2>2, <2>3
<1>3. Phase' = PhaseOf(instance'.status, task')
  <2>1. CASE instance'.status = "COMPLETED"
    BY <2>1 DEF Phase, PhaseOf
  <2>2. CASE instance'.status = "RUNNING" /\ instance'.node = NoNode
    BY <1>1, <2>2 DEF Phase, PhaseOf
  <2>3. CASE instance'.status = "RUNNING" /\ instance'.node # NoNode
    BY <1>1, <2>3 DEF Phase, PhaseOf
  <2> QED
    BY <1>1, <2>1, <2>2, <2>3
<1> QED
  BY <1>2, <1>3

(* The matters, before and after a step.                                   *)
LEMMA MattersAre ==
  ASSUME WorkflowInv, WorkflowInv', Reached(task, round), Reached(task', round'), NEW n \in OnceNodes
  PROVE  /\ Matter(n) = MatterOf(task[<<n, 1>>])
         /\ Matter(n)' = MatterOf(task'[<<n, 1>>])
<1>1. task[<<n, 1>>].active => task[<<n, 1>>].status # "NONE"
  BY OpenHasStatus DEF WorkflowInv
<1>2. task'[<<n, 1>>].active => task'[<<n, 1>>].status # "NONE"
  BY OpenHasStatus DEF WorkflowInv
<1>3. Matter(n) = MatterOf(task[<<n, 1>>])
  BY <1>1, MatterCases, Zenon DEF Matter
<1>4. Matter(n)' = MatterOf(task'[<<n, 1>>])
  BY <1>2, MatterCases, Zenon DEF Matter
<1> QED
  BY <1>3, <1>4

(* The stage stays where it is when the main line does, or ends.           *)
LEMMA StageStays ==
  ASSUME WorkflowInv, WorkflowInv', instance.status = "RUNNING", NEW closes \in BOOLEAN,
         SyncState(task', closes)
  PROVE  /\ instance'.status = IF closes THEN "COMPLETED" ELSE "RUNNING"
         /\ ActivePrimary(task') = ActivePrimary(task) /\ ~closes => project'.node = project.node
         /\ ActivePrimary(task') = {} /\ closes => project'.node = "PROJECT_CLOSED"
         /\ ActivePrimary(task') = {} /\ ~closes => project'.node = project.node
<1>1. instance'.status = IF closes THEN "COMPLETED" ELSE "RUNNING"
  BY SyncedStatus
<1>2. ActivePrimary(task') = {} =>
        project'.node = IF closes THEN "PROJECT_CLOSED" ELSE project.node
  BY DEF SyncState
<1>3. ASSUME NEW p \in ActivePrimary(task), ActivePrimary(task') = ActivePrimary(task)
      PROVE  project'.node = project.node
  BY <1>3 DEF WorkflowInv, PointersFollowTasks
<1> QED
  BY <1>1, <1>2, <1>3

(* Who opens the number and the fee.                                       *)
LEMMA OpensMatters ==
  ASSUME NEW n, NEW a
  PROVE  /\ "COLOR_NUMBERING" \in NextNodes(n, a) <=>
              n = "SAMPLE_COLOR_CONFIRMATION" /\ Concludes(n, a)
         /\ "DEVELOPMENT_ACCEPTANCE" \in NextNodes(n, a) <=>
              n = "CAB_REVIEW" /\ Concludes(n, a)
<1>1. "COLOR_NUMBERING" \in NextNodes(n, a) <=>
        n = "SAMPLE_COLOR_CONFIRMATION" /\ Concludes(n, a)
  BY DEF NextNodes, NodeCodes, ParallelNodes, ForwardEdges, BackEdges
<1>2. "DEVELOPMENT_ACCEPTANCE" \in NextNodes(n, a) <=>
        n = "CAB_REVIEW" /\ Concludes(n, a)
  BY DEF NextNodes, NodeCodes, ParallelNodes, ForwardEdges, BackEdges
<1> QED
  BY <1>1, <1>2

(* What holds around a step of the refinement.                             *)
Around ==
  /\ WorkflowInv /\ WorkflowInv'
  /\ Reached(task, round) /\ Reached(task', round')

(* The step of the tables is a step of the lifecycle, or none.             *)
LifecycleStep == [Lifecycle!LifecycleNext]_(Lifecycle!lifecycleVars)

(* Touching open rows reviews one period, or does not show.                *)
LEMMA TouchRefines ==
  ASSUME Around, TouchStep
  PROVE  LifecycleStep
<1> DEFINE Num == Matter("COLOR_NUMBERING")
           Fee == Matter("DEVELOPMENT_ACCEPTANCE")
<1>1. /\ Tables(task, round) /\ Touches(task, task') /\ IsTasks(task)
      /\ WorkflowInv /\ WorkflowInv'
  BY DEF Around, WorkflowInv, TouchStep, Tables
<1>2. ActivePrimary(task') = ActivePrimary(task)
  BY <1>1, TouchedTables
<1>3. ASSUME NEW n \in OnceNodes PROVE Matter(n)' = Matter(n)
  <2>1. <<n, 1>> \in TaskIds
    BY BoundsAssumption DEF OnceNodes, NodeCodes, ParallelNodes, TaskIds, Rounds
  <2>2. MatterOf(task'[<<n, 1>>]) = MatterOf(task[<<n, 1>>])
    BY <1>1, <2>1, MatterTouched
  <2> QED
    BY <2>2, MattersAre DEF Around
<1>4. Num' = Num /\ Fee' = Fee
  BY <1>3 DEF OnceNodes
<1>5. instance'.status = instance.status /\ project'.node = project.node
  <2>1. CASE UNCHANGED <<instance, project>>
    BY <2>1
  <2>2. CASE instance.status = "RUNNING" /\ SyncState(task', FALSE)
    BY <1>1, <1>2, <2>2, StageStays
  <2> QED
    BY <2>1, <2>2 DEF TouchStep
<1>6. Phase' = Phase
  BY <1>1, <1>2, <1>5, PhaseIs DEF PhaseOf
<1>7. CASE UNCHANGED months
  BY <1>4, <1>5, <1>6, <1>7 DEF LifecycleStep, Lifecycle!lifecycleVars
<1>8. CASE OneMonthDone
  <2>1. PICK id \in TaskIds, k \in Months \ months :
          /\ id[1] = "VISUAL_COLOR_DIFFERENCE_REVIEW"
          /\ task[id].active
          /\ instance.status = "RUNNING"
          /\ months' = months \cup {k}
          /\ months' # Months
    BY <1>8 DEF OneMonthDone
  <2>2. id \in ActivePrimary(task)
    BY <2>1 DEF ActivePrimary, TaskIds, PrimaryNodes
  <2>3. project.node = "VISUAL_COLOR_DIFFERENCE_REVIEW"
    BY <1>1, <2>1, <2>2 DEF WorkflowInv, PointersFollowTasks
  <2>4. Phase = "RUNNING"
    BY <1>1, <2>1, <2>2, PhaseIs DEF PhaseOf
  <2>5. Lifecycle!ReviewPeriod
    BY <1>4, <1>5, <1>6, <2>1, <2>3, <2>4 DEF Lifecycle!ReviewPeriod, Months
  <2> QED
    BY <2>5 DEF LifecycleStep, Lifecycle!LifecycleNext
<1> QED
  BY <1>7, <1>8 DEF TouchStep

(* How a finishing step moves the matters.                                 *)
LEMMA FinishMatters ==
  ASSUME Around, NEW ts, NEW id, NEW a, FinishStep(ts, id, a), NEW n \in OnceNodes
  PROVE  /\ id[1] = n => Matter(n) = "OPEN" /\ Matter(n)' = "DONE"
         /\ id[1] # n /\ n \in NextNodes(id[1], a) => Matter(n)' = Lifecycle!Opened(Matter(n))
         /\ id[1] # n /\ n \notin NextNodes(id[1], a) => Matter(n)' = Matter(n)
<1> DEFINE i == <<n, 1>>
<1>1. /\ Tables(task, round) /\ Touches(task, ts) /\ Applies(ts, round, id, a)
      /\ task' = TasksAfter(ts, round, id, a) /\ IsTasks(task) /\ Reached(task, round)
  BY DEF FinishStep, Around, WorkflowInv, Tables
<1>2. Tables(ts, round) /\ Reached(ts, round)
  BY <1>1, TouchedTables, ReachedTouched
<1>3. i \in TaskIds
  BY BoundsAssumption DEF OnceNodes, NodeCodes, ParallelNodes, TaskIds, Rounds
<1>4. Matter(n) = MatterOf(ts[i])
  BY <1>1, <1>3, MattersAre, MatterTouched DEF Around
<1>5. Matter(n)' = MatterOf(TasksAfter(ts, round, id, a)[i])
  BY <1>1, MattersAre DEF Around
<1> QED
  BY <1>1, <1>2, <1>4, <1>5, MatterAfter DEF Lifecycle!Opened

(* Finishing a task beside the line settles a matter, or does not show.    *)
LEMMA BesideRefines ==
  ASSUME Around, NEW ts, NEW id, NEW a, FinishStep(ts, id, a), id[1] \notin PrimaryNodes
  PROVE  LifecycleStep
<1> DEFINE Num == Matter("COLOR_NUMBERING")
           Fee == Matter("DEVELOPMENT_ACCEPTANCE")
<1>1. /\ Tables(task, round) /\ Touches(task, ts) /\ Applies(ts, round, id, a)
      /\ task' = TasksAfter(ts, round, id, a) /\ instance.status = "RUNNING"
      /\ id[1] # "PROJECT_CLOSED" /\ id[1] # "VISUAL_COLOR_DIFFERENCE_REVIEW"
      /\ WorkflowInv /\ WorkflowInv'
  BY DEF FinishStep, Around, WorkflowInv, PrimaryNodes
<1>2. SyncState(task', FALSE) /\ months' = months
  BY <1>1 DEF FinishStep, MonthsFollow
<1>3. ActivePrimary(task') = ActivePrimary(task)
  BY <1>1, LineMoves, TouchedTables
<1>4. instance'.status = "RUNNING" /\ project'.node = project.node
  BY <1>1, <1>2, <1>3, StageStays
<1>5. Phase' = Phase /\ Phase # "CLOSED"
  BY <1>1, <1>3, <1>4, PhaseIs DEF PhaseOf
<1>6. /\ "COLOR_NUMBERING" \in OnceNodes /\ "DEVELOPMENT_ACCEPTANCE" \in OnceNodes
      /\ "COLOR_NUMBERING" \notin NextNodes(id[1], a)
      /\ "DEVELOPMENT_ACCEPTANCE" \notin NextNodes(id[1], a)
  BY OpensMatters DEF OnceNodes, PrimaryNodes
<1>7. CASE id[1] = "COLOR_NUMBERING"
  <2>1. Num = "OPEN" /\ Num' = "DONE" /\ Fee' = Fee
    BY <1>6, <1>7, FinishMatters
  <2>2. Lifecycle!SettleNumber
    BY <1>2, <1>4, <1>5, <2>1 DEF Lifecycle!SettleNumber
  <2> QED
    BY <2>2 DEF LifecycleStep, Lifecycle!LifecycleNext
<1>8. CASE id[1] = "DEVELOPMENT_ACCEPTANCE"
  <2>1. Fee = "OPEN" /\ Fee' = "DONE" /\ Num' = Num
    BY <1>6, <1>8, FinishMatters
  <2>2. Lifecycle!SettleFee
    BY <1>2, <1>4, <1>5, <2>1 DEF Lifecycle!SettleFee
  <2> QED
    BY <2>2 DEF LifecycleStep, Lifecycle!LifecycleNext
<1>9. CASE id[1] \notin OnceNodes
  <2>1. Num' = Num /\ Fee' = Fee
    BY <1>6, <1>9, FinishMatters
  <2> QED
    BY <1>2, <1>4, <1>5, <2>1 DEF LifecycleStep, Lifecycle!lifecycleVars
<1> QED
  BY <1>7, <1>8, <1>9 DEF OnceNodes

(* Finishing a main-line task advances, falls back, halts or closes.       *)
LEMMA LineRefines ==
  ASSUME Around, NEW ts, NEW id, NEW a, FinishStep(ts, id, a), id[1] \in PrimaryNodes
  PROVE  LifecycleStep
<1> DEFINE Num == Matter("COLOR_NUMBERING")
           Fee == Matter("DEVELOPMENT_ACCEPTANCE")
           n   == id[1]
<1>1. /\ Tables(task, round) /\ Touches(task, ts) /\ Applies(ts, round, id, a)
      /\ task' = TasksAfter(ts, round, id, a) /\ instance.status = "RUNNING"
      /\ SyncState(task', n = "PROJECT_CLOSED") /\ MonthsFollow(n, a)
      /\ WorkflowInv /\ WorkflowInv'
  BY DEF FinishStep, Around, WorkflowInv
<1>2. Tables(ts, round) /\ ActivePrimary(ts) = ActivePrimary(task)
  BY <1>1, TouchedTables
<1>3. id \in ActivePrimary(task) /\ a \in AllowedActions(n)
  BY <1>1, <1>2 DEF Applies, ActivePrimary, TaskIds
<1>4. project.node = n /\ Phase = "RUNNING"
  BY <1>1, <1>3, PhaseIs DEF PhaseOf, WorkflowInv, PointersFollowTasks
<1>5. ActivePrimary(task') = {NextTask(round, m) : m \in NextNodes(n, a) \cap PrimaryNodes}
  BY <1>1, <1>2, LineMoves
<1>6. (n = "PROJECT_CLOSED") \in BOOLEAN
  OBVIOUS
<1>7. instance'.status = IF n = "PROJECT_CLOSED" THEN "COMPLETED" ELSE "RUNNING"
  BY <1>1, <1>6, StageStays
<1>8. /\ "COLOR_NUMBERING" \in OnceNodes /\ "DEVELOPMENT_ACCEPTANCE" \in OnceNodes
      /\ n # "COLOR_NUMBERING" /\ n # "DEVELOPMENT_ACCEPTANCE"
  BY DEF OnceNodes, PrimaryNodes
<1>9. /\ Num' = IF n = "SAMPLE_COLOR_CONFIRMATION" /\ Concludes(n, a)
                THEN Lifecycle!Opened(Num) ELSE Num
      /\ Fee' = IF n = "CAB_REVIEW" /\ Concludes(n, a)
                THEN Lifecycle!Opened(Fee) ELSE Fee
  <2>1. Num' = IF "COLOR_NUMBERING" \in NextNodes(n, a) THEN Lifecycle!Opened(Num) ELSE Num
    BY <1>8, FinishMatters
  <2>2. Fee' = IF "DEVELOPMENT_ACCEPTANCE" \in NextNodes(n, a) THEN Lifecycle!Opened(Fee) ELSE Fee
    BY <1>8, FinishMatters
  <2> QED
    BY <2>1, <2>2, OpensMatters
<1>10. CASE NextNodes(n, a) \cap PrimaryNodes = {}
  <2>1. ActivePrimary(task') = {}
    BY <1>5, <1>10
  <2>2. CASE n = "PROJECT_CLOSED"
    <3>1. project'.node = n /\ Phase' = "CLOSED" /\ months' = months
      BY <1>1, <1>6, <1>7, <2>1, <2>2, StageStays, PhaseIs DEF PhaseOf, MonthsFollow
    <3>2. Lifecycle!Close
      BY <1>4, <1>9, <2>2, <3>1 DEF Lifecycle!Close
    <3> QED
      BY <3>2 DEF LifecycleStep, Lifecycle!LifecycleNext
  <2>3. CASE n = "SAMPLE_COLOR_CONFIRMATION" /\ a = "REJECT"
    <3>1. project'.node = n /\ Phase' = "HALTED" /\ months' = months
      BY <1>1, <1>4, <1>6, <1>7, <2>1, <2>3, StageStays, PhaseIs DEF PhaseOf, MonthsFollow
    <3>2. ~Concludes(n, a)
      BY <2>3 DEF Concludes, ReviewNodes
    <3>3. Lifecycle!Halt
      BY <1>4, <1>9, <2>3, <3>1, <3>2 DEF Lifecycle!Halt
    <3> QED
      BY <3>3 DEF LifecycleStep, Lifecycle!LifecycleNext
  <2> QED
    BY <1>3, <1>10, <2>2, <2>3, LineEnds
<1>11. ASSUME NEW m \in NextNodes(n, a) \cap PrimaryNodes
       PROVE  LifecycleStep
  <2>1. ActivePrimary(task') # {} /\ NextTask(round, m) \in ActivePrimary(task')
    BY <1>5, <1>11
  <2>2. n # "PROJECT_CLOSED"
    BY <1>3, <1>11, LastNodes
  <2>3. project'.node = m /\ Phase' = "RUNNING"
    BY <1>1, <1>7, <2>1, <2>2, PhaseIs DEF PhaseOf, WorkflowInv, PointersFollowTasks, NextTask
  <2>4. CASE Concludes(n, a) /\ Position[m] = Position[n] + 1
    <3>1. IF n = "VISUAL_COLOR_DIFFERENCE_REVIEW"
          THEN \E k \in Months \ months : months' = months \cup {k} /\ months' = Months
          ELSE months' = months
      BY <1>1, <2>4 DEF MonthsFollow
    <3>2. Lifecycle!Advance
      <4>1. /\ Num' = IF n = "SAMPLE_COLOR_CONFIRMATION" THEN Lifecycle!Opened(Num) ELSE Num
            /\ Fee' = IF n = "CAB_REVIEW" THEN Lifecycle!Opened(Fee) ELSE Fee
        BY <1>9, <2>4
      <4> QED
        BY <1>4, <1>11, <2>2, <2>3, <2>4, <3>1, <4>1, SameTopology
           DEF Lifecycle!Advance, Months
    <3> QED
      BY <3>2 DEF LifecycleStep, Lifecycle!LifecycleNext
  <2>5. CASE SendsBack(n, a) /\ <<n, m>> \in BackEdges
    <3>1. ~Concludes(n, a)
      BY <2>5 DEF SendsBack, Concludes, CompletionActions, BackEdges, ReviewNodes
    <3>2. months' = months
      BY <1>1, <3>1 DEF MonthsFollow
    <3>3. Lifecycle!FallBack
      BY <1>4, <1>9, <2>3, <2>5, <3>1, <3>2, SameTopology DEF Lifecycle!FallBack
    <3> QED
      BY <3>3 DEF LifecycleStep, Lifecycle!LifecycleNext
  <2> QED
    BY <1>11, <2>4, <2>5, LineEdges
<1> QED
  BY <1>10, <1>11

(* Registering the report passes two stages at once.                       *)
LEMMA ReportRefines ==
  ASSUME Around, NEW id, ReportStep(id)
  PROVE  LifecycleStep
<1> DEFINE ts == TasksAfter(task, round, id, "COMPLETE")
           rd == RoundsAfter(round, id[1], "COMPLETE")
<1>1. /\ id[1] = "PROJECT_INITIATION"
      /\ Applies(task, round, id, "COMPLETE")
      /\ Applies(ts, rd, ReportTask, "COMPLETE")
      /\ task' = TasksAfter(ts, rd, ReportTask, "COMPLETE")
      /\ instance.status = "RUNNING" /\ SyncState(task', FALSE) /\ months' = months
      /\ WorkflowInv /\ WorkflowInv' /\ Tables(task, round) /\ Reached(task, round)
  BY DEF ReportStep, Around, WorkflowInv
<1>2. /\ Tables(ts, rd) /\ ReportTask[1] = "DEVELOPMENT_REPORT"
      /\ ActivePrimary(task') = {NextTask(rd, "PAINT_DEVELOPMENT")}
  BY <1>1, ReportLine
<1>3. Reached(ts, rd)
  BY <1>1, ReachedAfter
<1>4. ASSUME NEW n \in OnceNodes PROVE Matter(n)' = Matter(n)
  <2>1. /\ n # "PROJECT_INITIATION" /\ n # "DEVELOPMENT_REPORT"
        /\ n \notin NextNodes("PROJECT_INITIATION", "COMPLETE")
        /\ n \notin NextNodes("DEVELOPMENT_REPORT", "COMPLETE")
    BY OpensMatters DEF OnceNodes
  <2>2. MatterOf(ts[<<n, 1>>]) = MatterOf(task[<<n, 1>>])
    BY <1>1, <2>1, MatterAfter
  <2> HIDE DEF ts, rd
  <2>3. MatterOf(task'[<<n, 1>>]) = MatterOf(ts[<<n, 1>>])
    BY <1>1, <1>2, <1>3, <2>1, MatterAfter
  <2> QED
    BY <2>2, <2>3, MattersAre DEF Around
<1>5. id \in ActivePrimary(task)
  BY <1>1 DEF Applies, ActivePrimary, TaskIds, PrimaryNodes
<1>6. project.node = "PROJECT_INITIATION" /\ Phase = "RUNNING"
  BY <1>1, <1>5, PhaseIs DEF PhaseOf, WorkflowInv, PointersFollowTasks
<1> HIDE DEF ts, rd
<1>7. instance'.status = "RUNNING"
  BY <1>1, SyncedStatus
<1>8. project'.node = "PAINT_DEVELOPMENT" /\ Phase' = "RUNNING"
  <2>1. NextTask(rd, "PAINT_DEVELOPMENT") \in ActivePrimary(task')
    BY <1>2
  <2> QED
    BY <1>1, <1>7, <2>1, PhaseIs DEF PhaseOf, WorkflowInv, PointersFollowTasks, NextTask
<1>9. /\ Matter("COLOR_NUMBERING")' = Matter("COLOR_NUMBERING")
      /\ Matter("DEVELOPMENT_ACCEPTANCE")' = Matter("DEVELOPMENT_ACCEPTANCE")
  BY <1>4 DEF OnceNodes
<1>10. Lifecycle!AdvancePastReport
  BY <1>1, <1>6, <1>8, <1>9 DEF Lifecycle!AdvancePastReport
<1> QED
  BY <1>10 DEF LifecycleStep, Lifecycle!LifecycleNext

(* A project just created is at the start of the lifecycle.                *)
LEMMA InitRefines ==
  Init => Lifecycle!LifecycleInit
<1> SUFFICES ASSUME Init PROVE Lifecycle!LifecycleInit
  OBVIOUS
<1>1. /\ project.node = "PROJECT_INITIATION" /\ months = {}
      /\ instance = [status |-> "RUNNING", node |-> "PROJECT_INITIATION"]
  BY DEF Init
<1>2. Phase = "RUNNING"
  BY <1>1 DEF Phase, NoNode
<1>3. ASSUME NEW n \in OnceNodes PROVE Matter(n) = "NONE"
  <2>1. <<n, 1>> \in TaskIds /\ n # "PROJECT_INITIATION"
    BY BoundsAssumption DEF OnceNodes, NodeCodes, ParallelNodes, TaskIds, Rounds
  <2>2. task[<<n, 1>>] = NoRow
    BY <2>1 DEF Init
  <2>3. ~task[<<n, 1>>].active /\ task[<<n, 1>>].status = "NONE"
    BY <2>2 DEF NoRow
  <2> QED
    BY <2>3, Zenon DEF Matter
<1> QED
  BY <1>1, <1>2, <1>3 DEF Lifecycle!LifecycleInit, OnceNodes

(* Whatever tasks, rounds and evidence do, the engine moves a project only *)
(* as ProjectLifecycle allows.                                             *)
THEOREM EngineRefinesLifecycle ==
  Spec => ImplementsLifecycle
<1>1. WorkflowInv /\ Reached(task, round) /\ [Next]_vars => Reached(task', round')
  BY NextReached
<1>2. Reached(task', round') => Reached(task, round)'
  OBVIOUS
<1>3. WorkflowInv /\ WorkflowInv' /\ Reached(task, round) /\ Reached(task, round)' /\ [Next]_vars
        => LifecycleStep
  <2> SUFFICES ASSUME Around, [Next]_vars PROVE LifecycleStep
    BY DEF Around
  <2>1. WorkflowInv
    BY DEF Around
  <2> QED
    BY <2>1, StepShapes, TouchRefines, BesideRefines, LineRefines, ReportRefines
<1>4. LifecycleStep <=> [Lifecycle!LifecycleNext]_(Lifecycle!lifecycleVars)
  BY DEF LifecycleStep
<1> QED
  BY InitReached, InitRefines, WorkflowInvariant, <1>1, <1>2, <1>3, <1>4, PTL
     DEF Spec, ImplementsLifecycle, Lifecycle!LifecycleSpec

-----------------------------------------------------------------------------
(* Counting, without induction over a formula: the library's induction     *)
(* theorems take one as a parameter, the well-foundedness of the subsets   *)
(* of Nat does not.                                                        *)

(* Every set of numbers that is not empty has a least one.                 *)
LEMMA Least ==
  ASSUME NEW T \in SUBSET Nat, T # {}
  PROVE  \E m \in T : \A k \in T : m <= k
<1> DEFINE R == StrictSubsetOrdering(Nat)
           U == {S \in FiniteSubsetsOf(Nat) : \E m \in T : S = 0 .. m - 1}
<1>1. IsWellFoundedOn(R, FiniteSubsetsOf(Nat))
  BY FS_StrictSubsetOrderingWellFounded
<1>2. ASSUME NEW m \in T PROVE 0 .. m - 1 \in U
  BY FS_Interval DEF FiniteSubsetsOf
<1>3. U \subseteq FiniteSubsetsOf(Nat) /\ U # {}
  BY <1>2
<1>4. PICK S \in U : \A V \in U : ~(<<V, S>> \in R)
  <2> HIDE DEF R, U
  <2> QED
    BY <1>1, <1>3, WFMin
<1>5. PICK m \in T : S = 0 .. m - 1
  OBVIOUS
<1>6. ASSUME NEW k \in T, k < m PROVE FALSE
  <2>1. 0 .. k - 1 \in U
    BY <1>2
  <2>2. 0 .. k - 1 \subseteq S /\ 0 .. k - 1 # S
    <3>1. k \in S /\ k \notin 0 .. k - 1
      BY <1>5, <1>6
    <3> QED
      BY <1>5, <1>6, <3>1
  <2>3. <<0 .. k - 1, S>> \in R
    BY <2>1, <2>2 DEF StrictSubsetOrdering
  <2> QED
    BY <1>4, <2>1, <2>3
<1> QED
  BY <1>6

(* A set with 0 and with the successors of its members up to N has all     *)
(* numbers up to N.                                                        *)
LEMMA Climb ==
  ASSUME NEW T, NEW N \in Nat, 0 \in T, \A n \in 0 .. N : n \in T /\ n < N => n + 1 \in T
  PROVE  0 .. N \subseteq T
<1> DEFINE D == (0 .. N) \ T
<1>1. SUFFICES ASSUME D # {} PROVE FALSE
  OBVIOUS
<1>2. PICK m \in D : \A k \in D : m <= k
  <2>1. D \in SUBSET Nat
    OBVIOUS
  <2> HIDE DEF D
  <2> QED
    BY <1>1, <2>1, Least
<1>3. m \in 0 .. N /\ m # 0
  OBVIOUS
<1>4. m - 1 \in 0 .. N /\ m - 1 < N /\ ~(m <= m - 1)
  BY <1>3
<1>5. m - 1 \in T
  BY <1>2, <1>4
<1>6. (m - 1) + 1 \in T
  BY <1>4, <1>5
<1>7. m \in T
  BY <1>3, <1>6
<1> QED
  BY <1>7

-----------------------------------------------------------------------------
(* The evidence lookup.                                                    *)

(* One step of the walk, given the walks with fewer tasks left to visit.   *)
WalkStep(n, f, k) ==
  [i \in TaskIds \cup {NoTask} |->
     IF i = NoTask \/ k = 0 THEN NoTask
     ELSE IF i[1] = n THEN i ELSE f[k - 1][task[i].from]]

(* The walk that AncestorWalk chooses exists.                              *)
LEMMA WalkExists ==
  ASSUME NEW n
  PROVE  \E f : f = [k \in 0 .. ChainLimit |-> WalkStep(n, f, k)]
<1> DEFINE T == {l \in 0 .. ChainLimit : \E f : f = [k \in 0 .. l |-> WalkStep(n, f, k)]}
<1>1. ChainLimit \in Nat
  BY BoundsAssumption
<1>2. 0 \in T
  <2> DEFINE f == [k \in 0 .. 0 |-> WalkStep(n, k, k)]
  <2>1. WalkStep(n, f, 0) = WalkStep(n, 0, 0)
    BY DEF WalkStep
  <2>2. f = [k \in 0 .. 0 |-> WalkStep(n, f, k)]
    BY <2>1
  <2> QED
    BY <1>1, <2>2
<1>3. ASSUME NEW l \in 0 .. ChainLimit, l \in T, l < ChainLimit PROVE l + 1 \in T
  <2>1. PICK f : f = [k \in 0 .. l |-> WalkStep(n, f, k)]
    BY <1>3
  <2> DEFINE g == [k \in 0 .. l + 1 |-> IF k = l + 1 THEN WalkStep(n, f, l + 1) ELSE f[k]]
  <2>2. ASSUME NEW k \in 0 .. l + 1 PROVE g[k] = WalkStep(n, g, k)
    <3>1. k # 0 => k - 1 \in 0 .. l
      BY <1>3, <2>2
    <3>2. k # 0 => g[k - 1] = f[k - 1]
      BY <1>3, <3>1
    <3>3. WalkStep(n, g, k) = WalkStep(n, f, k)
      <4> HIDE DEF g
      <4> QED
        BY <3>2 DEF WalkStep
    <3>4. CASE k = l + 1
      BY <3>3, <3>4
    <3>5. CASE k # l + 1
      <4>1. k \in 0 .. l
        BY <1>3, <3>5
      <4>2. g[k] = f[k]
        BY <3>5
      <4>3. f[k] = WalkStep(n, f, k)
        BY <2>1, <4>1
      <4> QED
        BY <3>3, <4>2, <4>3
    <3> QED
      BY <3>4, <3>5
  <2>3. g = [k \in 0 .. l + 1 |-> WalkStep(n, g, k)]
    BY <2>2
  <2>4. l + 1 \in 0 .. ChainLimit
    BY <1>1, <1>3
  <2> QED
    BY <2>3, <2>4
<1>4. 0 .. ChainLimit \subseteq T
  <2> HIDE DEF T
  <2> QED
    BY <1>1, <1>2, <1>3, Climb
<1>5. ChainLimit \in T
  BY <1>1, <1>4
<1> QED
  BY <1>5

(* The walk does what its definition says.                                 *)
LEMMA WalkUnfolds ==
  ASSUME NEW n, NEW k \in 0 .. ChainLimit, NEW i \in TaskIds \cup {NoTask}
  PROVE  AncestorWalk(n)[k][i] =
           IF i = NoTask \/ k = 0 THEN NoTask
           ELSE IF i[1] = n THEN i ELSE AncestorWalk(n)[k - 1][task[i].from]
<1> DEFINE Unfolded(f) == f = [l \in 0 .. ChainLimit |-> WalkStep(n, f, l)]
<1>1. AncestorWalk(n) = CHOOSE f : Unfolded(f)
  BY DEF AncestorWalk, WalkStep
<1>2. \E f : Unfolded(f)
  BY WalkExists
<1>3. Unfolded(AncestorWalk(n))
  <2> HIDE DEF Unfolded
  <2> QED
    BY <1>1, <1>2
<1>4. AncestorWalk(n)[k] = WalkStep(n, AncestorWalk(n), k)
  BY <1>3
<1> QED
  BY <1>4 DEF WalkStep

(* A chain of origins, from p to i, of len steps: it repeats no task, and  *)
(* meets no task of i's node before i.                                     *)
Links == PrimaryNodes \X Rounds

Chain(ts, p, i, len, c) ==
  /\ c[0] = p /\ c[len] = i
  /\ \A j \in 0 .. len : ts[c[j]].status # "NONE"
  /\ \A j \in 0 .. len - 1 : ts[c[j]].from = c[j + 1]
  /\ \A j \in 1 .. len - 1 : c[j][1] # i[1]
  /\ \A j, k \in 0 .. len : c[j] = c[k] => j = k

(* From the open main-line task a chain leads to the latest round of every *)
(* earlier node.                                                           *)
Chained(ts, rd) ==
  \A p \in ActivePrimary(ts), m \in PrimaryNodes :
    Position[m] < Position[p[1]] =>
      \E len \in Nat \ {0} : \E c \in [0 .. len -> Links] : Chain(ts, p, Latest(rd, m), len, c)

(* Main-line tasks are tasks, and none is the missing one.                 *)
LEMMA LinksAreTasks ==
  ASSUME NEW i \in Links
  PROVE  i \in TaskIds /\ i # NoTask /\ i[1] \in PrimaryNodes /\ i[1] \in NodeCodes
BY DEF Links, TaskIds, NodeCodes, NoTask, PrimaryNodes

(* The walk climbs a chain that is no longer than its limit.               *)
LEMMA WalkClimbs ==
  ASSUME NEW p, NEW i, NEW len \in Nat \ {0}, NEW c \in [0 .. len -> Links],
         Chain(task, p, i, len, c), len <= ChainLimit
  PROVE  NearestAncestor(p, i[1]) = i
<1> DEFINE W == AncestorWalk(i[1])
           T == {d \in 0 .. len - 1 : \A k \in d + 1 .. ChainLimit : W[k][c[len - d]] = i}
<1>1. ChainLimit \in Nat /\ len - 1 \in Nat
  BY BoundsAssumption
<1>2. 0 \in T
  <2>1. ASSUME NEW k \in 1 .. ChainLimit PROVE W[k][c[len]] = i
    <3>1. c[len] \in Links /\ c[len] = i
      BY DEF Chain
    <3>2. i \in TaskIds \cup {NoTask} /\ i # NoTask
      BY <3>1, LinksAreTasks
    <3> QED
      BY <1>1, <3>1, <3>2, WalkUnfolds
  <2> HIDE DEF W
  <2> QED
    BY <1>1, <2>1
<1>3. ASSUME NEW d \in 0 .. len - 1, d \in T, d < len - 1 PROVE d + 1 \in T
  <2> DEFINE j == len - (d + 1)
  <2>1. j \in 1 .. len - 1 /\ j \in 0 .. len /\ j + 1 = len - d
    BY <1>3
  <2>2. c[j] \in Links /\ c[j][1] # i[1] /\ task[c[j]].from = c[len - d]
    BY <2>1 DEF Chain
  <2>3. c[j] \in TaskIds \cup {NoTask} /\ c[j] # NoTask
    BY <2>2, LinksAreTasks
  <2> HIDE DEF j
  <2>4. ASSUME NEW k \in d + 2 .. ChainLimit PROVE W[k][c[j]] = i
    <3>1. k \in 0 .. ChainLimit /\ k # 0 /\ k - 1 \in d + 1 .. ChainLimit
      BY <1>1
    <3>2. W[k][c[j]] = W[k - 1][task[c[j]].from]
      BY <2>2, <2>3, <3>1, WalkUnfolds
    <3>3. W[k - 1][c[len - d]] = i
      BY <1>3, <3>1
    <3> QED
      BY <2>2, <3>2, <3>3
  <2>5. \A k \in (d + 1) + 1 .. ChainLimit : W[k][c[len - (d + 1)]] = i
    BY <1>3, <2>4 DEF j
  <2> HIDE DEF W
  <2> QED
    BY <1>3, <2>5
<1>4. 0 .. len - 1 \subseteq T
  <2> HIDE DEF T
  <2> QED
    BY <1>1, <1>2, <1>3, Climb
<1>5. len - 1 \in T
  BY <1>1, <1>4
<1>6. W[ChainLimit][c[1]] = i
  <2>1. ChainLimit \in (len - 1) + 1 .. ChainLimit /\ len - (len - 1) = 1
    BY <1>1
  <2> HIDE DEF W
  <2> QED
    BY <1>5, <2>1
<1>7. task[p].from = c[1]
  BY DEF Chain
<1> QED
  BY <1>6, <1>7 DEF NearestAncestor

(* A chain is no longer than the number of tasks behind it.                *)
LEMMA ChainFits ==
  ASSUME NEW p, NEW i, NEW len \in Nat \ {0}, NEW c \in [0 .. len -> Links],
         Chain(task, p, i, len, c)
  PROVE  Cardinality(Behind(p)) \in Nat /\ len <= Cardinality(Behind(p))
<1> DEFINE f == [j \in 1 .. len |-> c[j]]
<1>1. IsFiniteSet(Behind(p))
  <2>1. IsFiniteSet(PrimaryNodes)
    <3> DEFINE Places == 1 .. 13
               place  == [m \in PrimaryNodes |-> Position[m]]
    <3>1. IsFiniteSet(Places)
      <4>1. \A n \in Nat : IsFiniteSet(1 .. n)
        BY FS_Interval
      <4> QED
        BY <4>1
    <3>2. place \in Injection(PrimaryNodes, Places)
      BY Positions DEF Injection, IsInjective
    <3> QED
      BY <3>1, <3>2, FS_Injection
  <2>2. IsFiniteSet(Rounds)
    BY BoundsAssumption, FS_Interval DEF Rounds
  <2>3. IsFiniteSet(PrimaryNodes \X Rounds)
    BY <2>1, <2>2, FS_Product
  <2>4. Behind(p) \in SUBSET (PrimaryNodes \X Rounds)
    BY DEF Behind
  <2> QED
    BY <2>3, <2>4, FS_Subset
<1>2. f \in Injection(1 .. len, Behind(p))
  <2>1. ASSUME NEW j \in 1 .. len PROVE f[j] \in Behind(p)
    <3>1. c[j] \in Links /\ c[j] # c[0] /\ task[c[j]].status # "NONE"
      BY DEF Chain
    <3> QED
      BY <3>1 DEF Behind, Links, Chain
  <2>2. ASSUME NEW j \in 1 .. len, NEW k \in 1 .. len, f[j] = f[k] PROVE j = k
    BY <2>2 DEF Chain
  <2> QED
    BY <2>1, <2>2 DEF Injection, IsInjective
<1>3. Cardinality(1 .. len) = len
  BY FS_Interval
<1> QED
  BY <1>1, <1>2, <1>3, FS_Injection, FS_CardinalityType

(* Tasks keep their origin and their status keeps being one.               *)
OriginsKept(ts, us) ==
  \A i \in TaskIds :
    ts[i].status # "NONE" => us[i].status # "NONE" /\ us[i].from = ts[i].from

(* A finishing action rewrites no origin.                                  *)
LEMMA OriginsAfter ==
  ASSUME NEW ts, NEW rd, NEW id, NEW a, Tables(ts, rd), Applies(ts, rd, id, a)
  PROVE  OriginsKept(ts, TasksAfter(ts, rd, id, a))
<1> DEFINE us == TasksAfter(ts, rd, id, a)
<1>1. SUFFICES ASSUME NEW i \in TaskIds, ts[i].status # "NONE"
               PROVE  us[i].status # "NONE" /\ us[i].from = ts[i].from
  BY DEF OriginsKept
<1>2. id \in TaskIds /\ IsTasks(ts) /\ ts[i] \in Rows /\ i[1] \in NodeCodes /\ rd[i[1]] \in Nat
  BY BoundsAssumption DEF Applies, Tables, IsTasks, IsRounds, TaskIds
<1>3. ~(i[1] \in Spawned(rd, id[1], a) /\ i[2] = rd[i[1]] + 1)
  BY <1>1, <1>2 DEF Tables, Unused, NoRow
<1>4. CASE i = id
  BY <1>4, ActedOn
<1>5. CASE i # id
  <2>1. us[i] = Settled(ts, rd, id, a)[i] /\ ClosedAt(ts, id, a, i) = ts[i]
    BY <1>3, <1>5, AfterRow DEF ClosedAt
  <2>2. us[i] = Swept(ts[i]) \/ us[i] = ts[i]
    BY <1>2, <2>1, SettledRow
  <2>3. Swept(ts[i]).status # "NONE" /\ Swept(ts[i]).from = ts[i].from
    BY <1>1, <1>2 DEF Swept, Closed, Rows
  <2> QED
    BY <1>1, <2>2, <2>3
<1> QED
  BY <1>4, <1>5

(* A chain stays a chain when origins are kept.                            *)
LEMMA ChainKept ==
  ASSUME NEW ts, NEW us, OriginsKept(ts, us), NEW p, NEW i,
         NEW len \in Nat \ {0}, NEW c \in [0 .. len -> Links], Chain(ts, p, i, len, c)
  PROVE  Chain(us, p, i, len, c)
<1>1. ASSUME NEW j \in 0 .. len
      PROVE  us[c[j]].status # "NONE" /\ us[c[j]].from = ts[c[j]].from
  <2>1. c[j] \in TaskIds /\ ts[c[j]].status # "NONE"
    BY LinksAreTasks DEF Chain
  <2> QED
    BY <2>1 DEF OriginsKept
<1>2. \A j \in 0 .. len - 1 : j \in 0 .. len
  OBVIOUS
<1> QED
  BY <1>1, <1>2 DEF Chain

(* A new task whose origin is p continues a chain from p.                  *)
LEMMA ChainGrows ==
  ASSUME NEW ts, NEW us, OriginsKept(ts, us), NEW p, NEW i, p[1] # i[1],
         NEW q \in Links, ts[q].status = "NONE", us[q].status # "NONE", us[q].from = p,
         NEW len \in Nat \ {0}, NEW c \in [0 .. len -> Links], Chain(ts, p, i, len, c)
  PROVE  \E l \in Nat \ {0} : \E d \in [0 .. l -> Links] : Chain(us, q, i, l, d)
<1> DEFINE l == len + 1
           d == [j \in 0 .. l |-> IF j = 0 THEN q ELSE c[j - 1]]
<1>1. l \in Nat \ {0} /\ d \in [0 .. l -> Links] /\ d[0] = q
      /\ \A j \in 1 .. l : j - 1 \in 0 .. len /\ d[j] = c[j - 1]
  <2>1. \A j \in 0 .. l : j # 0 => j - 1 \in 0 .. len
    OBVIOUS
  <2>2. \A j \in 0 .. l : d[j] \in Links
    BY <2>1
  <2>3. \A j \in 1 .. l : j - 1 \in 0 .. len /\ d[j] = c[j - 1]
    BY <2>1
  <2> QED
    BY <2>2, <2>3
<1> HIDE DEF d
<1>2. Chain(us, p, i, len, c)
  BY ChainKept
<1>3. d[l] = i
  BY <1>1, <1>2 DEF Chain
<1>4. \A j \in 0 .. l : us[d[j]].status # "NONE"
  <2>1. ASSUME NEW j \in 0 .. l PROVE us[d[j]].status # "NONE"
    <3>1. CASE j = 0
      BY <1>1, <3>1
    <3>2. CASE j \in 1 .. l
      BY <1>1, <1>2, <3>2 DEF Chain
    <3> QED
      BY <3>1, <3>2
  <2> QED
    BY <2>1
<1>5. \A j \in 0 .. l - 1 : us[d[j]].from = d[j + 1]
  <2>1. ASSUME NEW j \in 0 .. l - 1 PROVE us[d[j]].from = d[j + 1]
    <3>1. CASE j = 0
      <4>1. d[1] = c[0] /\ c[0] = p
        BY <1>1, <1>2 DEF Chain
      <4> QED
        BY <1>1, <3>1, <4>1
    <3>2. CASE j \in 1 .. l - 1
      <4>1. j - 1 \in 0 .. len - 1 /\ (j - 1) + 1 = j /\ j \in 1 .. l /\ j + 1 \in 1 .. l
              /\ (j + 1) - 1 = j
        BY <3>2
      <4>2. us[c[j - 1]].from = c[j]
        BY <1>2, <4>1 DEF Chain
      <4>3. d[j] = c[j - 1] /\ d[j + 1] = c[j]
        BY <1>1, <4>1
      <4> QED
        BY <4>2, <4>3
    <3> QED
      BY <2>1, <3>1, <3>2
  <2> QED
    BY <2>1
<1>6. \A j \in 1 .. l - 1 : d[j][1] # i[1]
  <2>1. ASSUME NEW j \in 1 .. l - 1 PROVE d[j][1] # i[1]
    <3>1. d[j] = c[j - 1]
      BY <1>1
    <3>2. CASE j = 1
      BY <1>2, <3>1, <3>2 DEF Chain
    <3>3. CASE j # 1
      <4>1. j - 1 \in 1 .. len - 1
        BY <3>3
      <4> QED
        BY <1>2, <3>1, <4>1 DEF Chain
    <3> QED
      BY <3>2, <3>3
  <2> QED
    BY <2>1
<1>7. ASSUME NEW j \in 0 .. l, NEW k \in 0 .. l, d[j] = d[k] PROVE j = k
  <2>1. \A n \in 1 .. l : d[n] # q
    BY <1>1 DEF Chain
  <2>2. CASE j = 0 \/ k = 0
    <3>1. d[j] = q /\ d[k] = q
      BY <1>1, <1>7, <2>2
    <3>2. j \notin 1 .. l /\ k \notin 1 .. l
      BY <2>1, <3>1
    <3> QED
      BY <3>2
  <2>3. CASE j \in 1 .. l /\ k \in 1 .. l
    <3>1. c[j - 1] = c[k - 1] /\ j - 1 \in 0 .. len /\ k - 1 \in 0 .. len
      BY <1>1, <1>7, <2>3
    <3>2. j - 1 = k - 1
      BY <1>2, <3>1 DEF Chain
    <3> QED
      BY <2>3, <3>2
  <2> QED
    BY <2>2, <2>3
<1>8. Chain(us, q, i, l, d)
  BY <1>1, <1>3, <1>4, <1>5, <1>6, <1>7 DEF Chain
<1> QED
  BY <1>1, <1>8

(* A new task is one step from its origin.                                 *)
LEMMA ChainStarts ==
  ASSUME NEW us, NEW i \in Links, NEW q \in Links, q # i,
         us[q].status # "NONE", us[i].status # "NONE", us[q].from = i
  PROVE  \E l \in Nat \ {0} : \E d \in [0 .. l -> Links] : Chain(us, q, i, l, d)
<1> DEFINE d == [j \in 0 .. 1 |-> IF j = 0 THEN q ELSE i]
<1>1. d \in [0 .. 1 -> Links] /\ d[0] = q /\ d[1] = i
  OBVIOUS
<1> HIDE DEF d
<1>2. 0 .. 1 = {0, 1} /\ 0 .. 1 - 1 = {0} /\ 1 .. 1 - 1 = {}
  OBVIOUS
<1>3. Chain(us, q, i, 1, d)
  BY <1>1, <1>2 DEF Chain
<1> QED
  BY <1>1, <1>3

(* Touching breaks no chain.                                               *)
LEMMA ChainedTouched ==
  ASSUME NEW ts, NEW us, NEW rd, Tables(ts, rd), Touches(ts, us), Chained(ts, rd)
  PROVE  Chained(us, rd)
<1>1. OriginsKept(ts, us)
  BY DEF OriginsKept, Touches, Tweaks, ActiveStatuses
<1>2. ActivePrimary(us) = ActivePrimary(ts)
  BY TouchedTables
<1>3. ASSUME NEW p \in ActivePrimary(us), NEW m \in PrimaryNodes, Position[m] < Position[p[1]]
      PROVE  \E len \in Nat \ {0} : \E c \in [0 .. len -> Links] : Chain(us, p, Latest(rd, m), len, c)
  <2>1. p \in ActivePrimary(ts)
    BY <1>2
  <2>2. PICK len \in Nat \ {0} : \E c \in [0 .. len -> Links] : Chain(ts, p, Latest(rd, m), len, c)
    BY <1>3, <2>1 DEF Chained
  <2>3. PICK c \in [0 .. len -> Links] : Chain(ts, p, Latest(rd, m), len, c)
    BY <2>2
  <2>4. Chain(us, p, Latest(rd, m), len, c)
    BY <1>1, <2>3, ChainKept
  <2> QED
    BY <2>4
<1> QED
  BY <1>3 DEF Chained

(* A finishing action gives its successor a chain to every earlier node:   *)
(* the chain of the task acted on, and that task itself.                   *)
LEMMA ChainedAfter ==
  ASSUME NEW ts, NEW rd, NEW id, NEW a, Tables(ts, rd), Applies(ts, rd, id, a), Chained(ts, rd)
  PROVE  Chained(TasksAfter(ts, rd, id, a), RoundsAfter(rd, id[1], a))
<1> DEFINE us   == TasksAfter(ts, rd, id, a)
           sd   == RoundsAfter(rd, id[1], a)
           tech == ConsistencyReturn(id[1], a) \/ ts[id].technical
<1>1. /\ id \in TaskIds /\ ts[id].active /\ id = <<id[1], id[2]>> /\ id[1] \in NodeCodes
      /\ id[2] = rd[id[1]] /\ tech \in BOOLEAN /\ IsTasks(ts) /\ IsRounds(rd)
  BY DEF Applies, TaskIds, Tables, Current, IsTasks, Rows, ConsistencyReturn
<1>2. OriginsKept(ts, us)
  BY OriginsAfter
<1>3. ASSUME NEW m \in PrimaryNodes, m \notin NextNodes(id[1], a)
      PROVE  Latest(sd, m) = Latest(rd, m)
  BY <1>3 DEF RoundsAfter, Spawned, Latest, NodeCodes
<1>4. CASE id[1] \notin PrimaryNodes
  <2>1. ActivePrimary(us) = ActivePrimary(ts)
    BY <1>4, LineMoves
  <2>2. \A m \in PrimaryNodes : Latest(sd, m) = Latest(rd, m)
    BY <1>1, <1>3, <1>4, ParallelCreatesParallel DEF NodeCodes
  <2> QED
    BY <1>2, <2>1, <2>2, ChainKept DEF Chained
<1>5. CASE id[1] \in PrimaryNodes
  <2>1. id \in ActivePrimary(ts) /\ id \in Links
    BY <1>1, <1>5 DEF ActivePrimary, TaskIds, Links
  <2>2. ASSUME NEW n \in NextNodes(id[1], a) \cap PrimaryNodes, NEW m \in PrimaryNodes,
               Position[m] < Position[n]
        PROVE  \E l \in Nat \ {0} : \E d \in [0 .. l -> Links] :
                 Chain(us, NextTask(rd, n), Latest(sd, m), l, d)
    <3> DEFINE q == NextTask(rd, n)
    <3>1. n \in Spawned(rd, id[1], a) /\ n \in NodeCodes /\ rd[n] < MaxRound /\ rd[n] \in 0 .. MaxRound
      BY <1>1, <2>2, SpawnsTheLine DEF Applies, WithinBound, IsRounds, NodeCodes
    <3>2. q \in Links /\ q \in TaskIds /\ q[1] = n /\ q[2] = rd[n] + 1 /\ q[2] > rd[n]
      BY <2>2, <3>1, BoundsAssumption DEF NextTask, Links, TaskIds, Rounds
    <3> HIDE DEF q
    <3>3. ts[q].status = "NONE"
      BY <3>2 DEF Tables, Unused, NoRow
    <3>4. us[q] = ReadyRow(id, tech)
      BY <3>1, <3>2, AfterRow
    <3>5. us[q].status # "NONE" /\ us[q].from = id
      <4> HIDE DEF tech
      <4>1. us[q].status = "READY"
        BY <1>1, <3>4, ReadyRowType
      <4>2. us[q].from = id
        BY <3>4 DEF ReadyRow, NoRow
      <4> QED
        BY <4>1, <4>2
    <3>6. m \notin NextNodes(id[1], a)
      BY <2>2, OnePrimaryNext, Positions
    <3>7. Latest(sd, m) = Latest(rd, m)
      BY <1>3, <3>6
    <3>8. CASE m = id[1]
      <4>1. Latest(sd, m) = id
        BY <1>1, <3>7, <3>8 DEF Latest
      <4>2. us[id].status # "NONE"
        BY ActedOn
      <4>3. q # id
        BY <2>2, <3>2, <3>8, Positions
      <4> QED
        BY <2>1, <3>2, <3>5, <4>1, <4>2, <4>3, ChainStarts DEF q
    <3>9. CASE m # id[1]
      <4>1. Position[m] < Position[id[1]]
        <5>1. Position[n] = Position[id[1]] + 1 \/ Position[n] < Position[id[1]]
          BY <1>5, <2>2, LineEdges
        <5> QED
          BY <1>5, <2>2, <3>9, <5>1, Positions
      <4>2. PICK len \in Nat \ {0} : \E c \in [0 .. len -> Links] : Chain(ts, id, Latest(rd, m), len, c)
        BY <2>1, <4>1 DEF Chained
      <4>3. PICK c \in [0 .. len -> Links] : Chain(ts, id, Latest(rd, m), len, c)
        BY <4>2
      <4>4. Latest(rd, m)[1] = m
        BY DEF Latest
      <4> QED
        BY <1>2, <3>2, <3>3, <3>5, <3>7, <3>9, <4>3, <4>4, ChainGrows DEF q
    <3> QED
      BY <3>8, <3>9
  <2>3. ActivePrimary(us) = {NextTask(rd, n) : n \in NextNodes(id[1], a) \cap PrimaryNodes}
    BY <1>5, LineMoves
  <2> QED
    BY <2>2, <2>3 DEF Chained, NextTask
<1> QED
  BY <1>4, <1>5

(* Every step keeps the chains.                                            *)
LEMMA NextChained ==
  ASSUME WorkflowInv, Chained(task, round), [Next]_vars
  PROVE  Chained(task', round')
<1>1. CASE TouchStep
  BY <1>1, ChainedTouched DEF TouchStep, WorkflowInv
<1>2. ASSUME NEW ts, NEW id, NEW a, FinishStep(ts, id, a) PROVE Chained(task', round')
  <2>1. Tables(ts, round) /\ Chained(ts, round)
    BY <1>2, TouchedTables, ChainedTouched DEF FinishStep, WorkflowInv
  <2> QED
    BY <1>2, <2>1, ChainedAfter DEF FinishStep
<1>3. ASSUME NEW id, ReportStep(id) PROVE Chained(task', round')
  <2> DEFINE ts == TasksAfter(task, round, id, "COMPLETE")
             rd == RoundsAfter(round, id[1], "COMPLETE")
  <2>1. /\ Applies(task, round, id, "COMPLETE")
        /\ Applies(ts, rd, ReportTask, "COMPLETE")
        /\ task' = TasksAfter(ts, rd, ReportTask, "COMPLETE")
    BY <1>3 DEF ReportStep
  <2>2. Tables(ts, rd) /\ round' = RoundsAfter(rd, ReportTask[1], "COMPLETE")
    BY <1>3, ReportLine
  <2>3. Chained(ts, rd)
    BY <2>1, ChainedAfter DEF WorkflowInv
  <2> HIDE DEF ts, rd
  <2> QED
    BY <2>1, <2>2, <2>3, ChainedAfter
<1> QED
  BY <1>1, <1>2, <1>3, StepShapes

(* A project just created has nothing to look up.                          *)
LEMMA InitChained ==
  Init => Chained(task, round)
<1> SUFFICES ASSUME Init PROVE Chained(task, round)
  OBVIOUS
<1>1. PointersFollowTasks /\ instance = [status |-> "RUNNING", node |-> "PROJECT_INITIATION"]
  BY InitInv DEF WorkflowInv, Init
<1>2. \A p \in ActivePrimary(task) : p[1] = "PROJECT_INITIATION"
  BY <1>1 DEF PointersFollowTasks
<1> QED
  BY <1>2 DEF Chained, PrimaryNodes, Position

(* The evidence lookup reads the current round, and finds its record, as   *)
(* long as the project has no more main-line tasks behind the open one     *)
(* than the lookup visits.                                                 *)
THEOREM LookupReadsCurrentRound ==
  Spec => []LineageIsCurrent
<1>1. WorkflowInv /\ Chained(task, round) /\ [Next]_vars => Chained(task', round')
  BY NextChained
<1>2. Chained(task', round') => Chained(task, round)'
  OBVIOUS
<1>3. ASSUME WorkflowInv, ProgressInv, Chained(task, round) PROVE LineageIsCurrent
  <2>1. SUFFICES ASSUME NEW id \in ActivePrimary(task), NEW m \in PrimaryNodes,
                        Position[m] < Position[id[1]], Cardinality(Behind(id)) <= ChainLimit
                 PROVE  /\ NearestAncestor(id, m) = <<m, round[m]>>
                        /\ m \in EvidenceNodes /\ IsRework(<<m, round[m]>>)
                             => AncestorEvidence(id, m)
    BY DEF LineageIsCurrent
  <2> DEFINE i == Latest(round, m)
  <2>2. PICK len \in Nat \ {0} : \E c \in [0 .. len -> Links] : Chain(task, id, i, len, c)
    BY <1>3, <2>1 DEF Chained
  <2>3. PICK c \in [0 .. len -> Links] : Chain(task, id, i, len, c)
    BY <2>2
  <2>4. i[1] = m /\ i = <<m, round[m]>>
    BY DEF Latest
  <2> HIDE DEF i
  <2>5. len <= ChainLimit
    <3>1. Cardinality(Behind(id)) \in Nat /\ len <= Cardinality(Behind(id))
      BY <2>3, ChainFits
    <3> QED
      BY <2>1, <3>1, BoundsAssumption
  <2>6. NearestAncestor(id, m) = i
    BY <2>3, <2>4, <2>5, WalkClimbs
  <2>7. i # NoTask
    <3>1. c[len] \in Links /\ c[len] = i
      BY <2>3 DEF Chain
    <3> QED
      BY <3>1, LinksAreTasks
  <2>8. Evidenced(task, i)
    BY <1>3, <2>1 DEF ProgressInv, Upstream, Firm, i
  <2> QED
    BY <2>4, <2>6, <2>7, <2>8 DEF AncestorEvidence, IsRework, Evidenced
<1> QED
  BY InitChained, WorkflowInvariant, ProgressInvariant, <1>1, <1>2, <1>3, PTL DEF Spec

=============================================================================
