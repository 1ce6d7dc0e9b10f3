----------------------- MODULE ProjectWorkflow_proofs -----------------------
(***************************************************************************)
(* Proofs about ProjectWorkflow, for every number of rounds and periods.   *)
(***************************************************************************)
EXTENDS ProjectWorkflow, TLAPS

-----------------------------------------------------------------------------
(* The topology of the workflow.                                           *)

(* Every node created is a node of the workflow.                           *)
LEMMA NextNodesType ==
  ASSUME NEW n, NEW a
  PROVE  NextNodes(n, a) \subseteq NodeCodes
BY DEF NextNodes

(* No action creates two main-line tasks.                                  *)
LEMMA OnePrimaryNext ==
  ASSUME NEW n, NEW a,
         NEW p \in NextNodes(n, a) \cap PrimaryNodes,
         NEW q \in NextNodes(n, a) \cap PrimaryNodes
  PROVE  p = q
BY DEF NextNodes, Concludes, SendsBack, ForwardEdges, BackEdges, PrimaryNodes, CompletionActions, ReviewNodes

(* A parallel node creates no main-line task.                              *)
LEMMA ParallelCreatesParallel ==
  ASSUME NEW n \in ParallelNodes, NEW a
  PROVE  NextNodes(n, a) \cap PrimaryNodes = {}
BY DEF NextNodes, ForwardEdges, BackEdges, PrimaryNodes, ParallelNodes

-----------------------------------------------------------------------------
(* What a finishing action does to the tables, for any tables: the double  *)
(* transition of the report registration applies it twice in one step.     *)

IsTasks(ts)  == ts \in [TaskIds -> Rows]
IsRounds(rd) == rd \in [NodeCodes -> 0 .. MaxRound]

(* The guards under which a finishing action reaches its writes.           *)
Applies(ts, rd, id, a) ==
  /\ id \in TaskIds
  /\ a \in AllowedActions(id[1])
  /\ ts[id].active
  /\ CanSpawn(Settled(ts, rd, id, a), rd, id[1], a)
  /\ WithinBound(rd, id[1], a)

(* A new row is well typed, open, ready and unmarked.                      *)
LEMMA ReadyRowType ==
  ASSUME NEW from \in TaskIds \cup {NoTask}, NEW t \in BOOLEAN
  PROVE  /\ ReadyRow(from, t) \in Rows
         /\ ReadyRow(from, t).active
         /\ ~ReadyRow(from, t).invalid
         /\ ReadyRow(from, t).status = "READY"
         /\ NoRow \in Rows
BY DEF ReadyRow, NoRow, Rows, TaskStatuses, ActiveStatuses, TerminalStatuses, RecordKeys

(* A closed row keeps everything but its status.                           *)
LEMMA ClosedRow ==
  ASSUME NEW row \in Rows, NEW st \in TaskStatuses \cup {"NONE"}
  PROVE  /\ Closed(row, st) \in Rows
         /\ Closed(row, st).status = st
         /\ ~Closed(row, st).active
         /\ Closed(row, st).invalid = row.invalid
BY DEF Closed, Rows

(* A swept row is closed and marked, and a row that was closed before only *)
(* gains the mark.                                                         *)
LEMMA SweptRow ==
  ASSUME NEW row \in Rows
  PROVE  /\ Swept(row) \in Rows
         /\ ~Swept(row).active
         /\ Swept(row).invalid
         /\ ~row.active => Swept(row) = [row EXCEPT !.invalid = TRUE]
<1> DEFINE st  == IF row.active THEN "CANCELLED" ELSE row.status
           cls == Closed(row, st)
<1>1. st \in TaskStatuses \cup {"NONE"}
  BY DEF Rows, TaskStatuses, TerminalStatuses
<1>2. cls \in Rows /\ ~cls.active
  BY <1>1, ClosedRow
<1>3. Swept(row) = [cls EXCEPT !.invalid = TRUE]
  BY DEF Swept
<1>4. Swept(row) \in Rows /\ ~Swept(row).active /\ Swept(row).invalid
  BY <1>2, <1>3 DEF Rows
<1>5. ~row.active => Swept(row) = [row EXCEPT !.invalid = TRUE]
  BY DEF Rows, Swept, Closed
<1> QED
  BY <1>4, <1>5

(* The status a finishing action leaves is a task status.                  *)
LEMMA TerminalStatusType ==
  ASSUME NEW a
  PROVE  TerminalStatus(a) \in TaskStatuses
BY DEF TerminalStatus, TaskStatuses, ActiveStatuses, TerminalStatuses

(* Row i after closing the row acted on, and whether the sweep covers it.  *)
ClosedAt(ts, id, a, i) == IF i = id THEN Closed(ts[i], TerminalStatus(a)) ELSE ts[i]

Sweeps(ts, rd, id, a, i) ==
  /\ ConsistencyReturn(id[1], a)
  /\ i[1] \in TechnicalNodes
  /\ i[2] = rd[i[1]]
  /\ ~ClosedAt(ts, id, a, i).invalid

(* Closing the finished task leaves a well-typed row.                      *)
LEMMA ClosedAtType ==
  ASSUME NEW ts, NEW id, NEW a, IsTasks(ts), NEW i \in TaskIds
  PROVE  /\ ClosedAt(ts, id, a, i) \in Rows
         /\ i = id => ~ClosedAt(ts, id, a, i).active
BY ClosedRow, TerminalStatusType DEF IsTasks, ClosedAt

(* Closing and sweeping, row by row.                                       *)
LEMMA SettledRow ==
  ASSUME NEW ts, NEW rd, NEW id \in TaskIds, NEW a, IsTasks(ts), NEW i \in TaskIds
  PROVE  /\ Sweeps(ts, rd, id, a, i) =>
              Settled(ts, rd, id, a)[i] = Swept(ClosedAt(ts, id, a, i))
         /\ ~Sweeps(ts, rd, id, a, i) =>
              Settled(ts, rd, id, a)[i] = ClosedAt(ts, id, a, i)
         /\ Settled(ts, rd, id, a)[i] \in Rows
<1>1. Finished(ts, id, a)[i] = ClosedAt(ts, id, a, i)
  BY DEF Finished, IsTasks, ClosedAt
<1>2. /\ Sweeps(ts, rd, id, a, i) =>
           Settled(ts, rd, id, a)[i] = Swept(ClosedAt(ts, id, a, i))
      /\ ~Sweeps(ts, rd, id, a, i) =>
           Settled(ts, rd, id, a)[i] = ClosedAt(ts, id, a, i)
  BY <1>1 DEF Settled, Invalidated, Sweeps
<1> QED
  BY <1>2, SweptRow, ClosedAtType

(* Closing and sweeping leave a well-typed table.                          *)
LEMMA SettledType ==
  ASSUME NEW ts, NEW rd, NEW id \in TaskIds, NEW a, IsTasks(ts)
  PROVE  IsTasks(Settled(ts, rd, id, a))
<1>1. \A i \in TaskIds : Settled(ts, rd, id, a)[i] \in Rows
  BY SettledRow
<1>2. Settled(ts, rd, id, a) = [i \in TaskIds |-> Settled(ts, rd, id, a)[i]]
  BY DEF Settled, Invalidated, Finished, IsTasks
<1> QED
  BY <1>1, <1>2 DEF IsTasks

(* A finishing action row by row: new tasks, and settled old ones.         *)
LEMMA AfterRow ==
  ASSUME NEW ts, NEW rd, NEW id, NEW a, NEW i \in TaskIds
  PROVE  TasksAfter(ts, rd, id, a)[i] =
           IF i[1] \in Spawned(rd, id[1], a) /\ i[2] = rd[i[1]] + 1
           THEN ReadyRow(id, ConsistencyReturn(id[1], a) \/ ts[id].technical)
           ELSE Settled(ts, rd, id, a)[i]
BY DEF TasksAfter

(* A finishing action leaves well-typed tables behind.                     *)
LEMMA AfterType ==
  ASSUME NEW ts, NEW rd, NEW id, NEW a,
         IsTasks(ts), IsRounds(rd), Applies(ts, rd, id, a)
  PROVE  /\ IsTasks(TasksAfter(ts, rd, id, a))
         /\ IsRounds(RoundsAfter(rd, id[1], a))
<1> DEFINE tech == ConsistencyReturn(id[1], a) \/ ts[id].technical
<1>1. id \in TaskIds
  BY DEF Applies
<1>2. tech \in BOOLEAN
  BY <1>1 DEF IsTasks, Rows, ConsistencyReturn
<1>3. ReadyRow(id, tech) \in Rows
  BY <1>1, <1>2, ReadyRowType
<1>4. ASSUME NEW i \in TaskIds
      PROVE  TasksAfter(ts, rd, id, a)[i] \in Rows
  <2>1. Settled(ts, rd, id, a)[i] \in Rows
    BY <1>1, SettledRow
  <2> QED
    BY <1>3, <2>1, AfterRow
<1>5. IsTasks(TasksAfter(ts, rd, id, a))
  <2>1. TasksAfter(ts, rd, id, a) = [i \in TaskIds |-> TasksAfter(ts, rd, id, a)[i]]
    BY DEF TasksAfter
  <2> QED
    BY <1>4, <2>1 DEF IsTasks
<1>6. \A m \in Spawned(rd, id[1], a) : rd[m] < MaxRound
  BY DEF Applies, WithinBound
<1>7. IsRounds(RoundsAfter(rd, id[1], a))
  BY <1>6, BoundsAssumption DEF IsRounds, RoundsAfter
<1> QED
  BY <1>5, <1>7

(* A row still open after closing and sweeping was open before, is not the *)
(* row acted on, and is untouched.                                         *)
LEMMA StillOpen ==
  ASSUME NEW ts, NEW rd, NEW id \in TaskIds, NEW a, IsTasks(ts), NEW i \in TaskIds,
         Settled(ts, rd, id, a)[i].active
  PROVE  i # id /\ ts[i].active /\ Settled(ts, rd, id, a)[i] = ts[i]
<1>1. ~Swept(ClosedAt(ts, id, a, i)).active
  BY ClosedAtType, SweptRow
<1>2. Settled(ts, rd, id, a)[i] = ClosedAt(ts, id, a, i)
  BY <1>1, SettledRow
<1>3. i # id
  BY <1>2, ClosedAtType
<1> QED
  BY <1>2, <1>3 DEF ClosedAt

OnePrimary(ts) == \A i, j \in ActivePrimary(ts) : i = j

(* At most one main-line task is open after a finishing action.            *)
LEMMA OnePrimaryAfter ==
  ASSUME NEW ts, NEW rd, NEW id, NEW a,
         IsTasks(ts), IsRounds(rd), Applies(ts, rd, id, a), OnePrimary(ts)
  PROVE  OnePrimary(TasksAfter(ts, rd, id, a))
<1> DEFINE IsNew(i)  == i[1] \in Spawned(rd, id[1], a) /\ i[2] = rd[i[1]] + 1
           IsOpen(i) == Settled(ts, rd, id, a)[i].active
<1>1. id \in TaskIds /\ ts[id].active
  BY DEF Applies
<1>2. ASSUME NEW i \in ActivePrimary(TasksAfter(ts, rd, id, a))
      PROVE  i \in TaskIds /\ i[1] \in PrimaryNodes /\ (IsNew(i) \/ IsOpen(i))
  <2>1. i \in TaskIds /\ i[1] \in PrimaryNodes
    BY DEF ActivePrimary, TaskIds, NodeCodes
  <2> QED
    BY <2>1, AfterRow DEF ActivePrimary
<1>3. ASSUME NEW i \in TaskIds, i[1] \in PrimaryNodes, IsOpen(i)
      PROVE  id[1] \notin PrimaryNodes
  <2>1. i # id /\ ts[i].active
    BY <1>1, <1>3, StillOpen
  <2>2. SUFFICES ASSUME id[1] \in PrimaryNodes PROVE FALSE
    OBVIOUS
  <2>3. i \in ActivePrimary(ts) /\ id \in ActivePrimary(ts)
    BY <1>1, <1>3, <2>1, <2>2 DEF ActivePrimary, TaskIds
  <2> QED
    BY <2>1, <2>3 DEF OnePrimary
<1>4. ASSUME NEW i \in TaskIds, i[1] \in PrimaryNodes, IsNew(i)
      PROVE  id[1] \in PrimaryNodes /\ i[1] \in NextNodes(id[1], a) \cap PrimaryNodes
  <2>1. i[1] \in NextNodes(id[1], a) \cap PrimaryNodes
    BY <1>4 DEF Spawned
  <2>2. id[1] \notin ParallelNodes
    BY <2>1, ParallelCreatesParallel
  <2> QED
    BY <1>1, <2>1, <2>2 DEF TaskIds, NodeCodes
<1>5. SUFFICES ASSUME NEW i \in ActivePrimary(TasksAfter(ts, rd, id, a)),
                      NEW j \in ActivePrimary(TasksAfter(ts, rd, id, a))
               PROVE  i = j
  BY DEF OnePrimary
<1>6. CASE id[1] \in PrimaryNodes
  <2>1. IsNew(i) /\ IsNew(j)
    BY <1>2, <1>3, <1>6
  <2>2. i[1] = j[1]
    BY <1>2, <1>4, <2>1, OnePrimaryNext
  <2> QED
    BY <1>2, <2>1, <2>2 DEF TaskIds
<1>7. CASE id[1] \notin PrimaryNodes
  <2>1. IsOpen(i) /\ IsOpen(j)
    BY <1>2, <1>4, <1>7
  <2>2. i \in ActivePrimary(ts) /\ j \in ActivePrimary(ts)
    BY <1>1, <1>2, <2>1, StillOpen DEF ActivePrimary, TaskIds
  <2> QED
    BY <2>2 DEF OnePrimary
<1> QED
  BY <1>6, <1>7

(* Open rows are the latest round of their node and unmarked.              *)
Current(ts, rd) ==
  \A i \in TaskIds : ts[i].active => i[2] = rd[i[1]] /\ ~ts[i].invalid

(* Rounds that were not reached have no row.                               *)
Unused(ts, rd) ==
  \A i \in TaskIds : i[2] > rd[i[1]] => ts[i] = NoRow

(* No second number or fee, and neither is given up.                       *)
Once(ts, rd) ==
  \A n \in OnceNodes :
    rd[n] <= 1 /\ ts[<<n, 1>>].status \notin {"CANCELLED", "REJECTED"}

(* A node that gets a new task had no open task.                           *)
LEMMA SpawnedWasIdle ==
  ASSUME NEW ts, NEW rd, NEW id, NEW a, IsTasks(ts), IsRounds(rd),
         Applies(ts, rd, id, a), NEW i \in TaskIds,
         i[1] \in Spawned(rd, id[1], a)
  PROVE  ~Settled(ts, rd, id, a)[i].active
<1>1. ActiveTasks(Settled(ts, rd, id, a), i[1]) = {}
  BY DEF Spawned, Applies, CanSpawn
<1>2. i \in {i[1]} \X Rounds
  BY DEF TaskIds
<1> QED
  BY <1>1, <1>2 DEF ActiveTasks

(* After a finishing action the open tasks are still current: a task a     *)
(* return supersedes is swept before its successor is created.             *)
LEMMA CurrentAfter ==
  ASSUME NEW ts, NEW rd, NEW id, NEW a,
         IsTasks(ts), IsRounds(rd), Applies(ts, rd, id, a), Current(ts, rd)
  PROVE  Current(TasksAfter(ts, rd, id, a), RoundsAfter(rd, id[1], a))
<1> DEFINE row(i)   == TasksAfter(ts, rd, id, a)[i]
           IsNew(i) == i[1] \in Spawned(rd, id[1], a) /\ i[2] = rd[i[1]] + 1
           tech     == ConsistencyReturn(id[1], a) \/ ts[id].technical
<1>1. id \in TaskIds
  BY DEF Applies
<1>2. SUFFICES ASSUME NEW i \in TaskIds, row(i).active
               PROVE  i[2] = RoundsAfter(rd, id[1], a)[i[1]] /\ ~row(i).invalid
  BY DEF Current
<1>3. i[1] \in NodeCodes
  BY DEF TaskIds
<1>4. RoundsAfter(rd, id[1], a)[i[1]] =
        IF i[1] \in Spawned(rd, id[1], a) THEN rd[i[1]] + 1 ELSE rd[i[1]]
  BY <1>3 DEF RoundsAfter
<1>5. CASE IsNew(i)
  <2>1. row(i) = ReadyRow(id, tech)
    BY <1>5, AfterRow
  <2>2. tech \in BOOLEAN
    BY <1>1 DEF IsTasks, Rows, ConsistencyReturn
  <2>3. ~ReadyRow(id, tech).invalid
    BY <1>1, <2>2, ReadyRowType
  <2> QED
    BY <1>4, <1>5, <2>1, <2>3
<1>6. CASE ~IsNew(i)
  <2>1. row(i) = Settled(ts, rd, id, a)[i]
    BY <1>6, AfterRow
  <2>2. ts[i].active /\ row(i) = ts[i]
    BY <1>1, <1>2, <2>1, StillOpen
  <2>3. i[1] \notin Spawned(rd, id[1], a)
    BY <1>2, <2>1, SpawnedWasIdle
  <2> QED
    BY <1>4, <2>2, <2>3 DEF Current
<1> QED
  BY <1>5, <1>6

(* Rounds a node has not reached hold no task after a finishing action.    *)
LEMMA UnusedAfter ==
  ASSUME NEW ts, NEW rd, NEW id, NEW a,
         IsTasks(ts), IsRounds(rd), Applies(ts, rd, id, a), Unused(ts, rd)
  PROVE  Unused(TasksAfter(ts, rd, id, a), RoundsAfter(rd, id[1], a))
<1>1. id \in TaskIds /\ ts[id].active
  BY DEF Applies
<1>2. SUFFICES ASSUME NEW i \in TaskIds, i[2] > RoundsAfter(rd, id[1], a)[i[1]]
               PROVE  TasksAfter(ts, rd, id, a)[i] = NoRow
  BY DEF Unused
<1>3. i[1] \in NodeCodes /\ i[2] \in Nat /\ rd[i[1]] \in Nat
  BY BoundsAssumption DEF TaskIds, Rounds, IsRounds
<1>4. RoundsAfter(rd, id[1], a)[i[1]] =
        IF i[1] \in Spawned(rd, id[1], a) THEN rd[i[1]] + 1 ELSE rd[i[1]]
  BY <1>3 DEF RoundsAfter
<1>5. i[2] > rd[i[1]] /\ ~(i[1] \in Spawned(rd, id[1], a) /\ i[2] = rd[i[1]] + 1)
  BY <1>2, <1>3, <1>4
<1>6. ts[i] = NoRow
  BY <1>5 DEF Unused
<1>7. i # id
  BY <1>1, <1>6 DEF NoRow
<1>8. ClosedAt(ts, id, a, i) = NoRow /\ ~Sweeps(ts, rd, id, a, i)
  BY <1>3, <1>5, <1>6, <1>7 DEF ClosedAt, Sweeps
<1>9. Settled(ts, rd, id, a)[i] = NoRow
  BY <1>1, <1>8, SettledRow
<1> QED
  BY <1>5, <1>9, AfterRow

(* No finishing action issues a second number or fee, nor cancels one.     *)
LEMMA OnceAfter ==
  ASSUME NEW ts, NEW rd, NEW id, NEW a,
         IsTasks(ts), IsRounds(rd), Applies(ts, rd, id, a), Once(ts, rd)
  PROVE  Once(TasksAfter(ts, rd, id, a), RoundsAfter(rd, id[1], a))
<1>1. id \in TaskIds /\ a \in AllowedActions(id[1])
  BY DEF Applies
<1>2. SUFFICES ASSUME NEW n \in OnceNodes
               PROVE  /\ RoundsAfter(rd, id[1], a)[n] <= 1
                      /\ TasksAfter(ts, rd, id, a)[<<n, 1>>].status
                           \notin {"CANCELLED", "REJECTED"}
  BY DEF Once
<1>3. n \in NodeCodes /\ n \notin TechnicalNodes /\ n \notin ReviewNodes /\ n # "PROJECT_CLOSED"
  BY DEF OnceNodes, NodeCodes, ParallelNodes, TechnicalNodes, ReviewNodes
<1>4. rd[n] \in Nat /\ rd[n] <= 1
  <2>1. rd[n] \in 0 .. MaxRound
    BY <1>3 DEF IsRounds
  <2>2. rd[n] <= 1
    BY DEF Once
  <2> QED
    BY <2>1, <2>2, BoundsAssumption
<1>5. n \in Spawned(rd, id[1], a) => rd[n] = 0
  BY <1>4 DEF Spawned
<1>6. RoundsAfter(rd, id[1], a)[n] <= 1
  BY <1>3, <1>4, <1>5 DEF RoundsAfter
<1>7. TasksAfter(ts, rd, id, a)[<<n, 1>>].status \notin {"CANCELLED", "REJECTED"}
  <2> DEFINE i    == <<n, 1>>
             tech == ConsistencyReturn(id[1], a) \/ ts[id].technical
  <2>1. i \in TaskIds /\ i[1] = n
    BY <1>3, BoundsAssumption DEF TaskIds, Rounds
  <2>2. tech \in BOOLEAN
    BY <1>1 DEF IsTasks, Rows, ConsistencyReturn
  <2>3. ReadyRow(id, tech).status = "READY"
    BY <1>1, <2>2, ReadyRowType
  <2>4. Settled(ts, rd, id, a)[i] = ClosedAt(ts, id, a, i)
    <3>1. ~Sweeps(ts, rd, id, a, i)
      BY <1>3, <2>1 DEF Sweeps
    <3> HIDE DEF i
    <3> QED
      BY <1>1, <2>1, <3>1, SettledRow
  <2>5. ClosedAt(ts, id, a, i).status \notin {"CANCELLED", "REJECTED"}
    <3>1. CASE i = id
      <4>1. TerminalStatus(a) = "COMPLETED"
        BY <1>1, <1>3, <2>1, <3>1
           DEF AllowedActions, TerminalStatus, CompletionActions, ReviewNodes, OnceNodes
      <4>2. ts[i] \in Rows
        BY <2>1 DEF IsTasks
      <4> QED
        BY <3>1, <4>1, <4>2, ClosedRow, TerminalStatusType DEF ClosedAt
    <3>2. CASE i # id
      BY <3>2 DEF ClosedAt, Once
    <3> QED
      BY <3>1, <3>2
  <2> QED
    BY <2>1, <2>3, <2>4, <2>5, AfterRow
<1> QED
  BY <1>6, <1>7

(* Open main-line tasks are open tasks of main-line nodes.                 *)
LEMMA ActivePrimaryNodes ==
  ASSUME NEW ts, NEW i \in ActivePrimary(ts)
  PROVE  i[1] \in PrimaryNodes /\ i[1] \in NodeCodes /\ i \in TaskIds /\ ts[i].active
BY DEF ActivePrimary, TaskIds, NodeCodes

(* The parallel nodes that get a new task in every round.                  *)
Branches == {"STANDARD_BOARD_PRODUCTION", "BOARD_DETAIL_UPDATE", "PERFORMANCE_TEST"}

(* Room for the next round of the branches: none is open while the main    *)
(* line is at the procurement or before it, and no board detail is open    *)
(* beside a standard board.                                                *)
RoomAhead(ts) ==
  /\ \A p \in ActivePrimary(ts), b \in TaskIds :
       Position[p[1]] <= 5 /\ b[1] \in Branches => ~ts[b].active
  /\ \A b, d \in TaskIds :
       b[1] = "STANDARD_BOARD_PRODUCTION" /\ d[1] = "BOARD_DETAIL_UPDATE" /\ ts[b].active
         => ~ts[d].active

(* Who creates the branches, and how a main-line task comes to stand at the *)
(* procurement or before it: from an earlier one, or by a consistency      *)
(* return.                                                                 *)
LEMMA BranchEdges ==
  ASSUME NEW n, NEW a, NEW m \in NextNodes(n, a)
  PROVE  /\ m \in {"STANDARD_BOARD_PRODUCTION", "PERFORMANCE_TEST"} => n = "PAINT_PROCUREMENT"
         /\ m = "BOARD_DETAIL_UPDATE" => n = "STANDARD_BOARD_PRODUCTION"
         /\ n = "PAINT_PROCUREMENT" /\ m \in PrimaryNodes => Position[m] = 6
         /\ m \in PrimaryNodes /\ Position[m] <= 5 =>
              \/ n \in PrimaryNodes /\ Position[n] <= 5
              \/ ConsistencyReturn(n, a)
<1>1. \/ Concludes(n, a) /\ <<n, m>> \in ForwardEdges
      \/ SendsBack(n, a) /\ <<n, m>> \in BackEdges
  BY DEF NextNodes
<1>2. CASE <<n, m>> \in ForwardEdges
  BY <1>2 DEF ForwardEdges, PrimaryNodes, Position
<1>3. CASE SendsBack(n, a) /\ <<n, m>> \in BackEdges
  BY <1>3 DEF BackEdges, PrimaryNodes, Position, SendsBack, ConsistencyReturn
<1> QED
  BY <1>1, <1>2, <1>3

(* A task open after a finishing action is new, or was open before and was *)
(* not the one acted on.                                                   *)
LEMMA OpenAfter ==
  ASSUME NEW ts, NEW rd, NEW id, NEW a, IsTasks(ts), Applies(ts, rd, id, a),
         NEW i \in TaskIds, TasksAfter(ts, rd, id, a)[i].active
  PROVE  \/ i[1] \in NextNodes(id[1], a)
         \/ i # id /\ ts[i].active /\ ~Sweeps(ts, rd, id, a, i)
<1>1. id \in TaskIds
  BY DEF Applies
<1>2. CASE i[1] \in Spawned(rd, id[1], a) /\ i[2] = rd[i[1]] + 1
  BY <1>2 DEF Spawned
<1>3. CASE ~(i[1] \in Spawned(rd, id[1], a) /\ i[2] = rd[i[1]] + 1)
  <2>1. Settled(ts, rd, id, a)[i].active
    BY <1>3, AfterRow
  <2>2. i # id /\ ts[i].active
    BY <1>1, <2>1, StillOpen
  <2>3. ~Sweeps(ts, rd, id, a, i)
    BY <1>1, <2>1, SettledRow, SweptRow, ClosedAtType
  <2> QED
    BY <2>2, <2>3
<1> QED
  BY <1>2, <1>3

(* A finishing action keeps room for the branches: they are opened by the  *)
(* step that moves the main line past the procurement, and the only return *)
(* to before it sweeps them.                                               *)
LEMMA RoomAfter ==
  ASSUME NEW ts, NEW rd, NEW id, NEW a,
         IsTasks(ts), IsRounds(rd), Applies(ts, rd, id, a),
         OnePrimary(ts), Current(ts, rd), RoomAhead(ts)
  PROVE  RoomAhead(TasksAfter(ts, rd, id, a))
<1> DEFINE us == TasksAfter(ts, rd, id, a)
<1>1. id \in TaskIds /\ ts[id].active /\ id[1] \in NodeCodes
  BY DEF Applies, TaskIds
<1>2. ASSUME NEW p \in TaskIds, p[1] \in PrimaryNodes, ts[p].active, p # id
      PROVE  id[1] \notin PrimaryNodes /\ p \in ActivePrimary(ts)
  BY <1>1, <1>2 DEF OnePrimary, ActivePrimary, TaskIds
<1>3. ASSUME NEW p \in ActivePrimary(us), NEW b \in TaskIds,
             Position[p[1]] <= 5, b[1] \in Branches, us[b].active
      PROVE  FALSE
  <2>1. p \in TaskIds /\ p[1] \in PrimaryNodes /\ us[p].active
    BY <1>3, ActivePrimaryNodes
  <2>2. \/ p[1] \in NextNodes(id[1], a)
        \/ p # id /\ ts[p].active
    BY <2>1, OpenAfter
  <2>3. \/ b[1] \in NextNodes(id[1], a)
        \/ b # id /\ ts[b].active /\ ~Sweeps(ts, rd, id, a, b)
    BY <1>3, OpenAfter
  <2>4. CASE p # id /\ ts[p].active
    <3>1. id[1] \notin PrimaryNodes /\ p \in ActivePrimary(ts)
      BY <1>2, <2>1, <2>4
    <3>2. ~ts[b].active
      BY <1>3, <3>1 DEF RoomAhead
    <3>3. b[1] \in NextNodes(id[1], a)
      BY <2>3, <3>2
    <3>4. id[1] = "STANDARD_BOARD_PRODUCTION"
      BY <1>3, <3>1, <3>3, BranchEdges DEF Branches, PrimaryNodes
    <3> QED
      BY <1>1, <1>3, <3>1, <3>4 DEF RoomAhead, Branches
  <2>5. CASE p[1] \in NextNodes(id[1], a)
    <3>1. id[1] # "PAINT_PROCUREMENT"
      BY <1>3, <2>1, <2>5, BranchEdges
    <3>2. id[1] \notin ParallelNodes
      BY <2>1, <2>5, ParallelCreatesParallel
    <3>3. b[1] \notin NextNodes(id[1], a)
      BY <1>3, <3>1, <3>2, BranchEdges DEF Branches, ParallelNodes
    <3>4. ts[b].active /\ ~Sweeps(ts, rd, id, a, b) /\ b # id
      BY <2>3, <3>3
    <3>5. CASE id[1] \in PrimaryNodes /\ Position[id[1]] <= 5
      <4>1. id \in ActivePrimary(ts)
        BY <1>1, <3>5 DEF ActivePrimary, TaskIds
      <4> QED
        BY <1>3, <3>4, <3>5, <4>1 DEF RoomAhead
    <3>6. CASE ConsistencyReturn(id[1], a)
      <4>1. b[1] \in TechnicalNodes
        BY <1>3 DEF Branches, TechnicalNodes
      <4>2. b[2] = rd[b[1]] /\ ~ts[b].invalid
        BY <3>4 DEF Current
      <4> QED
        BY <3>4, <3>6, <4>1, <4>2 DEF Sweeps, ClosedAt
    <3> QED
      BY <1>3, <2>1, <2>5, <3>5, <3>6, BranchEdges
  <2> QED
    BY <2>2, <2>4, <2>5
<1>4. ASSUME NEW b \in TaskIds, NEW d \in TaskIds,
             b[1] = "STANDARD_BOARD_PRODUCTION", d[1] = "BOARD_DETAIL_UPDATE",
             us[b].active, us[d].active
      PROVE  FALSE
  <2>1. \/ b[1] \in NextNodes(id[1], a)
        \/ b # id /\ ts[b].active
    BY <1>4, OpenAfter
  <2>2. \/ d[1] \in NextNodes(id[1], a)
        \/ d # id /\ ts[d].active
    BY <1>4, OpenAfter
  <2>3. CASE b[1] \in NextNodes(id[1], a)
    <3>1. id[1] = "PAINT_PROCUREMENT"
      BY <1>4, <2>3, BranchEdges
    <3>2. d[1] \notin NextNodes(id[1], a)
      BY <1>4, <3>1, BranchEdges
    <3>3. id \in ActivePrimary(ts) /\ Position[id[1]] <= 5
      BY <1>1, <3>1 DEF ActivePrimary, TaskIds, PrimaryNodes, Position
    <3> QED
      BY <1>4, <2>2, <3>2, <3>3 DEF RoomAhead, Branches
  <2>4. CASE b # id /\ ts[b].active
    <3>1. CASE d[1] \in NextNodes(id[1], a)
      <4>1. id[1] = "STANDARD_BOARD_PRODUCTION"
        BY <1>4, <3>1, BranchEdges
      <4>2. b[2] = rd[b[1]] /\ id[2] = rd[id[1]]
        BY <1>1, <2>4 DEF Current
      <4> QED
        BY <1>1, <1>4, <2>4, <4>1, <4>2 DEF TaskIds
    <3>2. CASE ts[d].active
      BY <1>4, <2>4, <3>2 DEF RoomAhead
    <3> QED
      BY <2>2, <3>1, <3>2
  <2> QED
    BY <2>1, <2>3, <2>4
<1> QED
  BY <1>3, <1>4 DEF RoomAhead

(* Whatever tables meet the invariant have room for whatever the action    *)
(* creates.                                                                *)
LEMMA RoomToSpawn ==
  ASSUME NEW ts, NEW rd, NEW id \in TaskIds, NEW a,
         IsTasks(ts), IsRounds(rd), ts[id].active,
         OnePrimary(ts), Current(ts, rd), Once(ts, rd), RoomAhead(ts)
  PROVE  CanSpawn(Settled(ts, rd, id, a), rd, id[1], a)
<1> DEFINE us == Settled(ts, rd, id, a)
<1>1. ASSUME NEW m \in NextNodes(id[1], a), m \in OnceNodes, rd[m] > 0
      PROVE  rd[m] = 1 /\ us[<<m, 1>>].status \notin {"CANCELLED", "REJECTED"}
  <2> DEFINE i == <<m, 1>>
  <2>1. rd[m] = 1
    <3>1. m \in NodeCodes /\ rd[m] <= 1
      BY <1>1 DEF Once, OnceNodes, NodeCodes, ParallelNodes
    <3> QED
      BY <1>1, <3>1, BoundsAssumption DEF IsRounds
  <2>2. i \in TaskIds /\ i[1] = m
    BY <1>1, BoundsAssumption DEF TaskIds, Rounds, OnceNodes, NodeCodes, ParallelNodes
  <2>3. id # i
    <3>1. id[1] # m
      BY <1>1 DEF NextNodes, ForwardEdges, BackEdges, OnceNodes
    <3> QED
      BY <2>2, <3>1
  <2>4. ~Sweeps(ts, rd, id, a, i)
    BY <1>1, <2>2 DEF Sweeps, OnceNodes, TechnicalNodes
  <2>5. ts[i].status \notin {"CANCELLED", "REJECTED"}
    BY <1>1 DEF Once
  <2> HIDE DEF i
  <2>6. us[i] = ClosedAt(ts, id, a, i)
    BY <2>2, <2>4, SettledRow
  <2>7. us[i] = ts[i]
    BY <2>3, <2>6 DEF ClosedAt
  <2> QED
    BY <2>1, <2>5, <2>7 DEF i
<1>2. ASSUME NEW m \in NextNodes(id[1], a), ~(m \in OnceNodes /\ rd[m] > 0)
      PROVE  ActiveTasks(us, m) = {}
  <2>1. SUFFICES ASSUME NEW i \in {m} \X Rounds, us[i].active PROVE FALSE
    BY DEF ActiveTasks
  <2>2. m \in NodeCodes /\ i \in TaskIds /\ i[1] = m
    BY NextNodesType DEF TaskIds
  <2>3. i # id /\ ts[i].active
    BY <2>1, <2>2, StillOpen
  <2>4. CASE m \in PrimaryNodes
    <3>1. id[1] \notin ParallelNodes
      BY <1>2, <2>4, ParallelCreatesParallel
    <3>2. id \in ActivePrimary(ts) /\ i \in ActivePrimary(ts)
      BY <2>2, <2>3, <2>4, <3>1 DEF ActivePrimary, TaskIds, NodeCodes
    <3> QED
      BY <2>3, <3>2 DEF OnePrimary
  <2>5. CASE m \in OnceNodes
    <3>1. i[2] = rd[m] /\ i[2] \in Rounds
      BY <2>2, <2>3 DEF Current, TaskIds
    <3> QED
      BY <1>2, <2>5, <3>1, BoundsAssumption DEF Rounds
  <2>6. CASE m \in Branches
    <3>1. CASE m = "BOARD_DETAIL_UPDATE"
      BY <1>2, <2>2, <2>3, <3>1, BranchEdges DEF RoomAhead
    <3>2. CASE m # "BOARD_DETAIL_UPDATE"
      <4>1. id[1] = "PAINT_PROCUREMENT"
        BY <1>2, <2>6, <3>2, BranchEdges DEF Branches
      <4>2. id \in ActivePrimary(ts) /\ Position[id[1]] <= 5
        BY <4>1 DEF ActivePrimary, TaskIds, PrimaryNodes, Position
      <4> QED
        BY <2>2, <2>3, <2>6, <4>2 DEF RoomAhead
    <3> QED
      BY <3>1, <3>2
  <2> QED
    BY <2>2, <2>4, <2>5, <2>6 DEF NodeCodes, ParallelNodes, OnceNodes, Branches
<1> QED
  BY <1>1, <1>2 DEF CanSpawn

(* A closed row is kept: only the mark of review may be added to it.       *)
Kept(ts, us) ==
  \A i \in TaskIds :
    ts[i].status # "NONE" /\ ~ts[i].active =>
      /\ us[i] = [ts[i] EXCEPT !.invalid = us[i].invalid]
      /\ ts[i].invalid => us[i].invalid

(* A row is itself with its own mark.                                      *)
LEMMA SameRow ==
  ASSUME NEW row \in Rows
  PROVE  row = [row EXCEPT !.invalid = row.invalid]
BY DEF Rows

(* Marking a row changes nothing but its mark.                             *)
LEMMA MarkedRow ==
  ASSUME NEW row \in Rows
  PROVE  /\ [row EXCEPT !.invalid = TRUE].invalid
         /\ [row EXCEPT !.invalid = TRUE].status = row.status
         /\ [row EXCEPT !.invalid = TRUE].active = row.active
BY DEF Rows

(* A finishing action rewrites no closed task.                             *)
LEMMA KeptAfter ==
  ASSUME NEW ts, NEW rd, NEW id, NEW a,
         IsTasks(ts), IsRounds(rd), Applies(ts, rd, id, a), Unused(ts, rd)
  PROVE  Kept(ts, TasksAfter(ts, rd, id, a))
<1>1. id \in TaskIds /\ ts[id].active
  BY DEF Applies
<1>2. SUFFICES ASSUME NEW i \in TaskIds, ts[i].status # "NONE", ~ts[i].active
               PROVE  LET row == TasksAfter(ts, rd, id, a)[i]
                      IN  /\ row = [ts[i] EXCEPT !.invalid = row.invalid]
                          /\ ts[i].invalid => row.invalid
  BY DEF Kept
<1>3. ts[i] \in Rows
  BY DEF IsTasks
<1>4. ~(i[1] \in Spawned(rd, id[1], a) /\ i[2] = rd[i[1]] + 1)
  <2>1. i[1] \in NodeCodes /\ rd[i[1]] \in Nat
    BY BoundsAssumption DEF TaskIds, IsRounds
  <2>2. ~(i[2] > rd[i[1]])
    BY <1>2 DEF Unused, NoRow
  <2> QED
    BY <2>1, <2>2
<1>5. TasksAfter(ts, rd, id, a)[i] = Settled(ts, rd, id, a)[i]
  BY <1>4, AfterRow
<1>6. ClosedAt(ts, id, a, i) = ts[i]
  BY <1>1, <1>2 DEF ClosedAt
<1>7. CASE Sweeps(ts, rd, id, a, i)
  <2>1. TasksAfter(ts, rd, id, a)[i] = Swept(ts[i])
    BY <1>1, <1>5, <1>6, <1>7, SettledRow
  <2>2. TasksAfter(ts, rd, id, a)[i] = [ts[i] EXCEPT !.invalid = TRUE]
    BY <1>2, <1>3, <2>1, SweptRow
  <2>3. TasksAfter(ts, rd, id, a)[i].invalid
    BY <1>3, <2>1, SweptRow
  <2>4. TasksAfter(ts, rd, id, a)[i].invalid = TRUE
    BY <1>3, <2>2 DEF Rows
  <2> QED
    BY <2>2, <2>3, <2>4
<1>8. CASE ~Sweeps(ts, rd, id, a, i)
  <2>1. TasksAfter(ts, rd, id, a)[i] = ts[i]
    BY <1>1, <1>5, <1>6, <1>8, SettledRow
  <2> QED
    BY <1>3, <2>1, SameRow
<1> QED
  BY <1>7, <1>8

(* Keeping is transitive, so a step of two transitions keeps.              *)
LEMMA KeptTwice ==
  ASSUME NEW ts, NEW us, NEW vs, IsTasks(ts), IsTasks(us), IsTasks(vs),
         Kept(ts, us), Kept(us, vs)
  PROVE  Kept(ts, vs)
<1>1. SUFFICES ASSUME NEW i \in TaskIds, ts[i].status # "NONE", ~ts[i].active
               PROVE  /\ vs[i] = [ts[i] EXCEPT !.invalid = vs[i].invalid]
                      /\ ts[i].invalid => vs[i].invalid
  BY DEF Kept
<1>2. ts[i] \in Rows /\ us[i] \in Rows /\ vs[i] \in Rows
  BY DEF IsTasks
<1>3. us[i] = [ts[i] EXCEPT !.invalid = us[i].invalid] /\ (ts[i].invalid => us[i].invalid)
  BY <1>1 DEF Kept
<1>4. us[i].status = ts[i].status /\ us[i].active = ts[i].active
  BY <1>2, <1>3 DEF Rows
<1>5. vs[i] = [us[i] EXCEPT !.invalid = vs[i].invalid] /\ (us[i].invalid => vs[i].invalid)
  BY <1>1, <1>4 DEF Kept
<1>6. vs[i] = [ts[i] EXCEPT !.invalid = vs[i].invalid]
  BY <1>2, <1>3, <1>5 DEF Rows
<1> QED
  BY <1>3, <1>5, <1>6

-----------------------------------------------------------------------------
(* The inductive invariant of the tables.                                  *)

Tables(ts, rd) ==
  /\ IsTasks(ts)
  /\ IsRounds(rd)
  /\ OnePrimary(ts)
  /\ Current(ts, rd)
  /\ Unused(ts, rd)
  /\ Once(ts, rd)
  /\ RoomAhead(ts)

(* A finishing action preserves the invariant of the tables.               *)
LEMMA TablesAfter ==
  ASSUME NEW ts, NEW rd, NEW id, NEW a, Tables(ts, rd), Applies(ts, rd, id, a)
  PROVE  /\ Tables(TasksAfter(ts, rd, id, a), RoundsAfter(rd, id[1], a))
         /\ Kept(ts, TasksAfter(ts, rd, id, a))
BY AfterType, OnePrimaryAfter, CurrentAfter, UnusedAfter, OnceAfter, RoomAfter, KeptAfter
   DEF Tables

(* The steps that create no task change open rows only and leave them      *)
(* open: a start, a reassignment, a record.                                *)
Tweaks(ts, us) ==
  /\ IsTasks(us)
  /\ \A i \in TaskIds :
       us[i] # ts[i] =>
         /\ ts[i].active /\ us[i].active
         /\ us[i].invalid = ts[i].invalid
         /\ us[i].status \in ActiveStatuses \/ us[i].status = ts[i].status

(* A step that opens and closes nothing leaves the same main-line tasks    *)
(* open.                                                                   *)
LEMMA TweakedActive ==
  ASSUME NEW ts, NEW us, IsTasks(ts), Tweaks(ts, us)
  PROVE  ActivePrimary(us) = ActivePrimary(ts)
<1>1. \A i \in TaskIds : us[i].active <=> ts[i].active
  BY DEF Tweaks
<1>2. PrimaryNodes \X Rounds \subseteq TaskIds
  BY DEF TaskIds, NodeCodes
<1> QED
  BY <1>1, <1>2 DEF ActivePrimary

(* A step that opens and closes nothing preserves the invariant of the     *)
(* tables and rewrites no closed task.                                     *)
LEMMA TablesTweaked ==
  ASSUME NEW ts, NEW us, NEW rd, Tables(ts, rd), Tweaks(ts, us)
  PROVE  Tables(us, rd) /\ Kept(ts, us)
<1>1. IsTasks(ts) /\ IsRounds(rd) /\ IsTasks(us)
  BY DEF Tables, Tweaks
<1>2. OnePrimary(us)
  BY <1>1, TweakedActive DEF Tables, OnePrimary
<1>3. Current(us, rd)
  BY DEF Tables, Current, Tweaks
<1>4. Unused(us, rd)
  <2>1. ASSUME NEW i \in TaskIds, i[2] > rd[i[1]] PROVE us[i] = NoRow
    <3>1. ts[i] = NoRow
      BY <2>1 DEF Tables, Unused
    <3>2. ~ts[i].active
      BY <3>1 DEF NoRow
    <3> QED
      BY <3>1, <3>2 DEF Tweaks
  <2> QED
    BY <2>1 DEF Unused
<1>5. Once(us, rd)
  <2>1. SUFFICES ASSUME NEW n \in OnceNodes
                 PROVE  us[<<n, 1>>].status \notin {"CANCELLED", "REJECTED"}
    BY DEF Tables, Once
  <2>2. <<n, 1>> \in TaskIds
    BY BoundsAssumption DEF TaskIds, Rounds, NodeCodes, OnceNodes, ParallelNodes
  <2>3. ts[<<n, 1>>].status \notin {"CANCELLED", "REJECTED"}
    BY DEF Tables, Once
  <2> QED
    BY <2>2, <2>3 DEF Tweaks, ActiveStatuses
<1>6. Kept(ts, us)
  <2>1. ASSUME NEW i \in TaskIds, ~ts[i].active
        PROVE  /\ us[i] = [ts[i] EXCEPT !.invalid = us[i].invalid]
               /\ ts[i].invalid => us[i].invalid
    <3>1. us[i] = ts[i] /\ ts[i] \in Rows
      BY <1>1, <2>1 DEF Tweaks, IsTasks
    <3> QED
      BY <3>1, SameRow
  <2> QED
    BY <2>1 DEF Kept
<1>7. RoomAhead(us)
  <2>1. \A i \in TaskIds : us[i].active <=> ts[i].active
    BY DEF Tweaks
  <2>2. ActivePrimary(us) = ActivePrimary(ts)
    BY <1>1, TweakedActive
  <2> QED
    BY <2>1, <2>2 DEF Tables, RoomAhead
<1> QED
  BY <1>1, <1>2, <1>3, <1>4, <1>5, <1>6, <1>7 DEF Tables

(* Changing the status of a row changes nothing else.                      *)
LEMMA RowWithStatus ==
  ASSUME NEW row \in Rows, NEW st \in ActiveStatuses
  PROVE  /\ [row EXCEPT !.status = st] \in Rows
         /\ [row EXCEPT !.status = st].active = row.active
         /\ [row EXCEPT !.status = st].invalid = row.invalid
         /\ [row EXCEPT !.status = st].status = st
<1>1. st \in TaskStatuses
  BY DEF TaskStatuses
<1>2. [row EXCEPT !.status = st] \in Rows
  BY <1>1 DEF Rows
<1>3. /\ [row EXCEPT !.status = st].active = row.active
      /\ [row EXCEPT !.status = st].invalid = row.invalid
      /\ [row EXCEPT !.status = st].status = st
  BY DEF Rows
<1> QED
  BY <1>2, <1>3

(* Changing the status of an open row to another open status, or adding    *)
(* records to it.                                                          *)
LEMMA StatusTweaks ==
  ASSUME NEW ts, IsTasks(ts), NEW id \in TaskIds, ts[id].active,
         NEW st \in ActiveStatuses
  PROVE  Tweaks(ts, [ts EXCEPT ![id].status = st])
<1> DEFINE us == [ts EXCEPT ![id].status = st]
<1>1. ts[id] \in Rows
  BY DEF IsTasks
<1>2. us[id] = [ts[id] EXCEPT !.status = st]
  BY DEF IsTasks
<1>3. us[id] \in Rows /\ us[id].active = ts[id].active /\ us[id].invalid = ts[id].invalid
        /\ us[id].status = st
  <2> DEFINE row == [ts[id] EXCEPT !.status = st]
  <2>1. row \in Rows /\ row.active = ts[id].active /\ row.invalid = ts[id].invalid
          /\ row.status = st
    BY <1>1, RowWithStatus
  <2> HIDE DEF us
  <2> QED
    BY <1>2, <2>1
<1>4. \A i \in TaskIds : i # id => us[i] = ts[i]
  BY DEF IsTasks
<1>5. us = [i \in TaskIds |-> us[i]]
  BY DEF IsTasks
<1> HIDE DEF us
<1>6. IsTasks(us)
  <2>1. \A i \in TaskIds : us[i] \in Rows
    BY <1>3, <1>4 DEF IsTasks
  <2> QED
    BY <1>5, <2>1 DEF IsTasks
<1>7. Tweaks(ts, us)
  BY <1>3, <1>4, <1>6 DEF Tweaks
<1> QED
  BY <1>7 DEF us

(* Changing the records of a row changes nothing else.                     *)
LEMMA RowWithRecords ==
  ASSUME NEW row \in Rows, NEW rs \in SUBSET RecordKeys
  PROVE  /\ [row EXCEPT !.records = rs] \in Rows
         /\ [row EXCEPT !.records = rs].active = row.active
         /\ [row EXCEPT !.records = rs].invalid = row.invalid
         /\ [row EXCEPT !.records = rs].status = row.status
<1>1. [row EXCEPT !.records = rs] \in Rows
  BY DEF Rows
<1>2. /\ [row EXCEPT !.records = rs].active = row.active
      /\ [row EXCEPT !.records = rs].invalid = row.invalid
      /\ [row EXCEPT !.records = rs].status = row.status
  BY DEF Rows
<1> QED
  BY <1>1, <1>2

(* Adding records to an open task opens and closes nothing.                *)
LEMMA RecordTweaks ==
  ASSUME NEW ts, IsTasks(ts), NEW id \in TaskIds, ts[id].active,
         NEW rs \in SUBSET RecordKeys
  PROVE  Tweaks(ts, [ts EXCEPT ![id].records = rs])
<1> DEFINE us == [ts EXCEPT ![id].records = rs]
<1>1. ts[id] \in Rows
  BY DEF IsTasks
<1>2. us[id] = [ts[id] EXCEPT !.records = rs]
  BY DEF IsTasks
<1>3. us[id] \in Rows /\ us[id].active = ts[id].active /\ us[id].invalid = ts[id].invalid
        /\ us[id].status = ts[id].status
  <2> DEFINE row == [ts[id] EXCEPT !.records = rs]
  <2>1. row \in Rows /\ row.active = ts[id].active /\ row.invalid = ts[id].invalid
          /\ row.status = ts[id].status
    BY <1>1, RowWithRecords
  <2> HIDE DEF us
  <2> QED
    BY <1>2, <2>1
<1>4. \A i \in TaskIds : i # id => us[i] = ts[i]
  BY DEF IsTasks
<1>5. us = [i \in TaskIds |-> us[i]]
  BY DEF IsTasks
<1> HIDE DEF us
<1>6. IsTasks(us)
  <2>1. \A i \in TaskIds : us[i] \in Rows
    BY <1>3, <1>4 DEF IsTasks
  <2> QED
    BY <1>5, <2>1 DEF IsTasks
<1>7. Tweaks(ts, us)
  BY <1>3, <1>4, <1>6 DEF Tweaks
<1> QED
  BY <1>7 DEF us

-----------------------------------------------------------------------------
(* The pointers of the instance and the project.                           *)

PointerTypes ==
  /\ instance \in [status : {"RUNNING", "COMPLETED"}, node : NodeCodes \cup {NoNode}]
  /\ project \in [status : {"DRAFT", "IN_PROGRESS", "COMPLETED"}, node : NodeCodes]

(* The empty pointer names no node.                                        *)
LEMMA NoNodeIsNoNode ==
  NoNode \notin NodeCodes
BY DEF NoNode, NodeCodes, PrimaryNodes, ParallelNodes

(* Synchronising the pointers makes them follow the tasks.                 *)
LEMMA Synced ==
  ASSUME PointerTypes, PointersFollowTasks, instance.status = "RUNNING",
         OnePrimary(task'), NEW closes \in BOOLEAN,
         closes => ActivePrimary(task') = {},
         SyncState(task', closes)
  PROVE  PointerTypes' /\ PointersFollowTasks'
<1>1. project.status # "COMPLETED"
  BY DEF PointersFollowTasks
<1>2. CASE ActivePrimary(task') = {}
  <2>1. /\ instance' = [status |-> IF closes THEN "COMPLETED" ELSE instance.status,
                        node |-> NoNode]
        /\ project' = IF closes THEN [status |-> "COMPLETED", node |-> "PROJECT_CLOSED"]
                      ELSE project
    BY <1>2 DEF SyncState
  <2>2. "PROJECT_CLOSED" \in NodeCodes
    BY DEF NodeCodes, PrimaryNodes
  <2>3. CASE closes
    BY <1>2, <2>1, <2>2, <2>3 DEF PointerTypes, PointersFollowTasks
  <2>4. CASE ~closes
    BY <1>1, <1>2, <2>1, <2>4 DEF PointerTypes, PointersFollowTasks
  <2> QED
    BY <2>3, <2>4
<1>3. CASE ActivePrimary(task') # {}
  <2>1. ~closes
    BY <1>3
  <2>2. PICK n \in {i[1] : i \in ActivePrimary(task')} :
          /\ instance' = [status |-> instance.status, node |-> n]
          /\ n # NoNode => project' = [status |-> "IN_PROGRESS", node |-> n]
    BY <1>3, <2>1 DEF SyncState
  <2>3. PICK j \in ActivePrimary(task') : n = j[1]
    BY <2>2
  <2>4. n \in NodeCodes /\ n # NoNode
    BY <2>3, ActivePrimaryNodes, NoNodeIsNoNode
  <2>5. \A i \in ActivePrimary(task') : i[1] = n
    BY <2>3 DEF OnePrimary
  <2>6. instance' = [status |-> "RUNNING", node |-> n]
          /\ project' = [status |-> "IN_PROGRESS", node |-> n]
    BY <2>2, <2>4
  <2> QED
    BY <1>3, <2>4, <2>5, <2>6 DEF PointerTypes, PointersFollowTasks
<1> QED
  BY <1>2, <1>3

(* Steps that open and close nothing need no synchronisation.              *)
LEMMA Unsynced ==
  ASSUME PointerTypes, PointersFollowTasks, UNCHANGED <<instance, project>>,
         ActivePrimary(task') = ActivePrimary(task)
  PROVE  PointerTypes' /\ PointersFollowTasks'
BY DEF PointerTypes, PointersFollowTasks

(* The closing node ends the main line.                                    *)
LEMMA ClosingEndsLine ==
  ASSUME NEW ts, NEW rd, NEW id, NEW a, Tables(ts, rd), Applies(ts, rd, id, a),
         id[1] = "PROJECT_CLOSED"
  PROVE  ActivePrimary(TasksAfter(ts, rd, id, a)) = {}
<1>1. id \in TaskIds /\ ts[id].active /\ IsTasks(ts) /\ a \in AllowedActions(id[1])
  BY DEF Applies, Tables
<1>2. SUFFICES ASSUME NEW i \in ActivePrimary(TasksAfter(ts, rd, id, a))
               PROVE  FALSE
  OBVIOUS
<1>3. i \in TaskIds /\ i[1] \in PrimaryNodes /\ TasksAfter(ts, rd, id, a)[i].active
  BY ActivePrimaryNodes
<1>4. NextNodes(id[1], a) = {}
  BY <1>1 DEF NextNodes, ForwardEdges, BackEdges
<1>5. TasksAfter(ts, rd, id, a)[i] = Settled(ts, rd, id, a)[i]
  BY <1>3, <1>4, AfterRow DEF Spawned
<1>6. i # id /\ ts[i].active
  BY <1>1, <1>3, <1>5, StillOpen
<1>7. i \in ActivePrimary(ts) /\ id \in ActivePrimary(ts)
  BY <1>1, <1>3, <1>6 DEF ActivePrimary, TaskIds, PrimaryNodes
<1> QED
  BY <1>6, <1>7 DEF Tables, OnePrimary

-----------------------------------------------------------------------------
(* The inductive invariant: well-typed pointers that follow the tasks, the *)
(* tables' own invariant, and the types of the rest.                       *)

RestTypes ==
  /\ linked \in BOOLEAN
  /\ report \in [required : BOOLEAN, registered : BOOLEAN]
  /\ planned \in BOOLEAN
  /\ months \in SUBSET Months

WorkflowInv ==
  /\ Tables(task, round)
  /\ PointerTypes
  /\ PointersFollowTasks
  /\ RestTypes

(* What every step is shown to establish.                                  *)
GoodStep == WorkflowInv' /\ Kept(task, task')

(* The invariant holds of a project just created.                          *)
LEMMA InitInv ==
  Init => WorkflowInv
<1> SUFFICES ASSUME Init PROVE WorkflowInv
  OBVIOUS
<1> DEFINE first == <<"PROJECT_INITIATION", 1>>
<1>1. first \in TaskIds /\ first \in PrimaryNodes \X Rounds
  BY BoundsAssumption DEF TaskIds, Rounds, NodeCodes, PrimaryNodes
<1>2. /\ ReadyRow(NoTask, FALSE) \in Rows
      /\ ReadyRow(NoTask, FALSE).active
      /\ ~ReadyRow(NoTask, FALSE).invalid
      /\ NoRow \in Rows /\ ~NoRow.active /\ NoRow.status = "NONE"
  BY ReadyRowType DEF NoRow
<1>3. /\ task[first] = ReadyRow(NoTask, FALSE)
      /\ \A i \in TaskIds : i # first => task[i] = NoRow
      /\ IsTasks(task)
  BY <1>1, <1>2 DEF Init, IsTasks
<1>4. IsRounds(round) /\ round["PROJECT_INITIATION"] = 1
        /\ \A n \in NodeCodes : n # "PROJECT_INITIATION" => round[n] = 0
  <2>1. "PROJECT_INITIATION" \in NodeCodes
    BY DEF NodeCodes, PrimaryNodes
  <2>2. 0 \in 0 .. MaxRound /\ 1 \in 0 .. MaxRound
    BY BoundsAssumption
  <2>3. round = [n \in NodeCodes |-> IF n = "PROJECT_INITIATION" THEN 1 ELSE 0]
    BY DEF Init
  <2> QED
    BY <2>1, <2>2, <2>3 DEF IsRounds
<1> HIDE DEF first
<1>5. \A i \in TaskIds : task[i].active => i = first
  BY <1>2, <1>3
<1>6. ActivePrimary(task) = {first}
  <2>1. first \in ActivePrimary(task)
    BY <1>1, <1>2, <1>3 DEF ActivePrimary
  <2>2. \A i \in ActivePrimary(task) : i = first
    BY <1>5, ActivePrimaryNodes
  <2> QED
    BY <2>1, <2>2
<1>7. first[1] = "PROJECT_INITIATION" /\ first[2] = 1
  BY DEF first
<1>8. Tables(task, round)
  <2>1. OnePrimary(task)
    BY <1>6 DEF OnePrimary
  <2>2. Current(task, round)
    BY <1>2, <1>3, <1>4, <1>5, <1>7 DEF Current
  <2>3. Unused(task, round)
    BY <1>3, <1>4, <1>7 DEF Unused
  <2>4. Once(task, round)
    <3>1. SUFFICES ASSUME NEW n \in OnceNodes
                   PROVE  round[n] <= 1 /\ task[<<n, 1>>].status \notin {"CANCELLED", "REJECTED"}
      BY DEF Once
    <3>2. n \in NodeCodes /\ n # "PROJECT_INITIATION" /\ <<n, 1>> \in TaskIds
      BY BoundsAssumption DEF OnceNodes, NodeCodes, ParallelNodes, TaskIds, Rounds
    <3>3. <<n, 1>> # first
      BY <1>7, <3>2
    <3> QED
      BY <1>2, <1>3, <1>4, <3>2, <3>3
  <2>5. RoomAhead(task)
    BY <1>5, <1>7 DEF RoomAhead, Branches
  <2> QED
    BY <1>3, <1>4, <2>1, <2>2, <2>3, <2>4, <2>5 DEF Tables
<1>9. PointerTypes
  BY DEF Init, PointerTypes, NodeCodes, PrimaryNodes
<1>10. PointersFollowTasks
  BY <1>6, <1>7 DEF Init, PointersFollowTasks, NoNode
<1>11. RestTypes
  BY DEF Init, RestTypes
<1> QED
  BY <1>8, <1>9, <1>10, <1>11 DEF WorkflowInv

-----------------------------------------------------------------------------
(* The finishing actions.                                                  *)

(* The guards of a finishing action are the guards of the table lemmas.    *)
LEMMA FinishApplies ==
  ASSUME NEW ts, NEW rd, NEW id \in TaskIds, NEW a,
         CanFinish(ts, id, a),
         CanSpawn(Settled(ts, rd, id, a), rd, id[1], a),
         WithinBound(rd, id[1], a)
  PROVE  Applies(ts, rd, id, a) /\ instance.status = "RUNNING"
BY DEF CanFinish, Applies

(* One transition that synchronises the pointers keeps the invariant of    *)
(* tables and pointers.                                                    *)
LEMMA TransitionStep ==
  ASSUME WorkflowInv, NEW id \in TaskIds, NEW a, NEW monthsDone \in SUBSET Months,
         Transition(id, a, monthsDone)
  PROVE  /\ Tables(task, round)' /\ PointerTypes' /\ PointersFollowTasks'
         /\ Kept(task, task')
         /\ planned' \in BOOLEAN /\ months' \in SUBSET Months
<1>1. Applies(task, round, id, a) /\ instance.status = "RUNNING"
  BY FinishApplies DEF Transition
<1>2. task' = TasksAfter(task, round, id, a) /\ round' = RoundsAfter(round, id[1], a)
  BY DEF Transition
<1>3. Tables(task', round') /\ Kept(task, task')
  BY <1>1, <1>2, TablesAfter DEF WorkflowInv
<1>4. id[1] = "PROJECT_CLOSED" => ActivePrimary(task') = {}
  BY <1>1, <1>2, ClosingEndsLine DEF WorkflowInv
<1>5. PointerTypes' /\ PointersFollowTasks'
  <2>1. OnePrimary(task')
    BY <1>3 DEF Tables
  <2>2. SyncState(task', id[1] = "PROJECT_CLOSED")
    BY DEF Transition
  <2>3. (id[1] = "PROJECT_CLOSED") \in BOOLEAN
    OBVIOUS
  <2> QED
    BY <1>1, <1>4, <2>1, <2>2, <2>3, Synced DEF WorkflowInv
<1>6. planned' \in BOOLEAN /\ months' \in SUBSET Months
  BY DEF Transition, WorkflowInv, RestTypes
<1> QED
  BY <1>3, <1>5, <1>6

(* A step that only changes an open task, with or without synchronising.   *)
LEMMA TweakStep ==
  ASSUME WorkflowInv, Tweaks(task, task'), round' = round,
         UNCHANGED <<instance, project>>
           \/ (instance.status = "RUNNING" /\ SyncState(task', FALSE))
  PROVE  /\ Tables(task, round)' /\ PointerTypes' /\ PointersFollowTasks'
         /\ Kept(task, task')
<1>1. Tables(task', round') /\ Kept(task, task')
  BY TablesTweaked DEF WorkflowInv
<1>2. ActivePrimary(task') = ActivePrimary(task)
  BY TweakedActive DEF WorkflowInv, Tables
<1>3. CASE UNCHANGED <<instance, project>>
  BY <1>1, <1>2, <1>3, Unsynced DEF WorkflowInv
<1>4. CASE instance.status = "RUNNING" /\ SyncState(task', FALSE)
  <2>1. OnePrimary(task')
    BY <1>1 DEF Tables
  <2> QED
    BY <1>1, <1>4, <2>1, Synced DEF WorkflowInv
<1> QED
  BY <1>1, <1>3, <1>4

-----------------------------------------------------------------------------
(* One lemma per handler.                                                  *)

(* Starting a task.                                                        *)
LEMMA StartTaskStep ==
  ASSUME WorkflowInv, NEW id \in TaskIds, StartTask(id)
  PROVE  GoodStep
<1>1. IsTasks(task)
  BY DEF WorkflowInv, Tables
<1>2. Tweaks(task, task')
  BY <1>1, StatusTweaks DEF StartTask, ActiveStatuses
<1> QED
  BY <1>2, TweakStep DEF StartTask, GoodStep, WorkflowInv, RestTypes

(* Taking a started task from an owner who lost the role.                  *)
LEMMA ReassignTaskStep ==
  ASSUME WorkflowInv, NEW id \in TaskIds, ReassignTask(id)
  PROVE  GoodStep
<1>1. IsTasks(task)
  BY DEF WorkflowInv, Tables
<1>2. Tweaks(task, task')
  BY <1>1, StatusTweaks DEF ReassignTask, ActiveStatuses
<1> QED
  BY <1>2, TweakStep DEF ReassignTask, GoodStep, WorkflowInv, RestTypes

(* Completing a task.                                                      *)
LEMMA CompleteTaskStep ==
  ASSUME WorkflowInv, NEW id \in TaskIds, CompleteTask(id)
  PROVE  GoodStep
BY TransitionStep DEF CompleteTask, GoodStep, WorkflowInv, RestTypes

(* Approving the sample without a confirmation record.                     *)
LEMMA ApproveSampleOrdinarilyStep ==
  ASSUME WorkflowInv, NEW id \in TaskIds, ApproveSampleOrdinarily(id)
  PROVE  GoodStep
BY TransitionStep DEF ApproveSampleOrdinarily, GoodStep, WorkflowInv, RestTypes

(* Approving a cabin or a consistency review.                              *)
LEMMA ApproveReviewStep ==
  ASSUME WorkflowInv, NEW id \in TaskIds, ApproveReview(id)
  PROVE  GoodStep
BY TransitionStep DEF ApproveReview, GoodStep, WorkflowInv, RestTypes

(* Rejecting a review.                                                     *)
LEMMA RejectReviewStep ==
  ASSUME WorkflowInv, NEW id \in TaskIds, RejectReview(id)
  PROVE  GoodStep
BY TransitionStep DEF RejectReview, GoodStep, WorkflowInv, RestTypes

(* Registering a record.                                                   *)
LEMMA RegisterRecordStep ==
  ASSUME WorkflowInv, NEW id \in TaskIds, RegisterRecord(id)
  PROVE  GoodStep
<1>1. IsTasks(task)
  BY DEF WorkflowInv, Tables
<1>2. Tweaks(task, task')
  BY <1>1, RecordTweaks DEF RegisterRecord, RecordKeys
<1> QED
  BY <1>2, TweakStep DEF RegisterRecord, GoodStep, WorkflowInv, RestTypes

(* Creating a review.                                                      *)
LEMMA CreateReviewStep ==
  ASSUME WorkflowInv, NEW id \in TaskIds, NEW k \in RecordKeys, CreateReview(id, k)
  PROVE  GoodStep
<1>1. IsTasks(task)
  BY DEF WorkflowInv, Tables
<1>2. task' = [task EXCEPT ![id].records = task[id].records \cup {k}]
  BY DEF CreateReview
<1>3. task[id].records \cup {k} \in SUBSET RecordKeys
  BY <1>1 DEF IsTasks, Rows
<1>4. task[id].active
  BY DEF CreateReview
<1> DEFINE rs == task[id].records \cup {k}
<1>5. Tweaks(task, [task EXCEPT ![id].records = rs])
  <2> HIDE DEF rs
  <2> QED
    BY <1>1, <1>3, <1>4, RecordTweaks DEF rs
<1>6. Tweaks(task, task')
  BY <1>2, <1>5
<1> QED
  BY <1>6, TweakStep DEF CreateReview, GoodStep, WorkflowInv, RestTypes

(* Approving a monthly review, with the last month or before it.           *)
LEMMA ApproveMonthStep ==
  ASSUME WorkflowInv, NEW id \in TaskIds, NEW k \in Months, ApproveMonth(id, k)
  PROVE  GoodStep
<1>1. IsTasks(task) /\ months \cup {k} \in SUBSET Months
  BY DEF WorkflowInv, Tables, RestTypes
<1>2. CASE LastMonth(k)
  <2>1. Transition(id, "APPROVE", Months) /\ UNCHANGED <<linked, report>>
    BY <1>2 DEF ApproveMonth
  <2> QED
    BY <2>1, TransitionStep DEF GoodStep, WorkflowInv, RestTypes
<1>3. CASE ~LastMonth(k)
  <2>1. /\ task[id].active
        /\ instance.status = "RUNNING"
        /\ task' = [task EXCEPT ![id].status = "IN_PROGRESS"]
        /\ months' = months \cup {k}
        /\ SyncState(task', FALSE)
        /\ UNCHANGED <<round, planned, linked, report>>
    BY <1>3 DEF ApproveMonth
  <2>2. Tweaks(task, task')
    BY <1>1, <2>1, StatusTweaks DEF ActiveStatuses
  <2> QED
    BY <1>1, <2>1, <2>2, TweakStep DEF GoodStep, WorkflowInv, RestTypes
<1> QED
  BY <1>2, <1>3

(* The confirmation writes its record and then transitions.                *)
LEMMA ConfirmSampleStep ==
  ASSUME WorkflowInv, NEW id \in TaskIds, NEW a \in ReviewActions, ConfirmSample(id, a)
  PROVE  GoodStep
<1> DEFINE ts == [task EXCEPT ![id].records = {0}]
<1>1. /\ id[1] = "SAMPLE_COLOR_CONFIRMATION"
      /\ CanFinish(ts, id, a)
      /\ CanSpawn(Settled(ts, round, id, a), round, id[1], a)
      /\ WithinBound(round, id[1], a)
      /\ task' = TasksAfter(ts, round, id, a)
      /\ round' = RoundsAfter(round, id[1], a)
      /\ SyncState(task', FALSE)
      /\ UNCHANGED <<linked, report, planned, months>>
  BY DEF ConfirmSample
<1>2. IsTasks(task) /\ Tables(task, round)
  BY DEF WorkflowInv, Tables
<1>3. task[id].active
  <2>1. ts[id] = [task[id] EXCEPT !.records = {0}] /\ task[id] \in Rows
    BY <1>2 DEF IsTasks
  <2>2. ts[id].active
    BY <1>1 DEF CanFinish
  <2> QED
    BY <2>1, <2>2 DEF Rows
<1>4. {0} \in SUBSET RecordKeys
  BY DEF RecordKeys
<1>5. Tweaks(task, ts)
  BY <1>2, <1>3, <1>4, RecordTweaks
<1> HIDE DEF ts
<1>6. Tables(ts, round) /\ Kept(task, ts)
  BY <1>2, <1>5, TablesTweaked
<1>7. Applies(ts, round, id, a) /\ instance.status = "RUNNING"
  BY <1>1, FinishApplies
<1>8. Tables(task', round') /\ Kept(ts, task')
  BY <1>1, <1>6, <1>7, TablesAfter
<1>9. Kept(task, task')
  BY <1>2, <1>6, <1>8, KeptTwice DEF Tables
<1>10. PointerTypes' /\ PointersFollowTasks'
  <2>1. OnePrimary(task')
    BY <1>8 DEF Tables
  <2> QED
    BY <1>1, <1>7, <2>1, Synced DEF WorkflowInv
<1> QED
  BY <1>1, <1>8, <1>9, <1>10 DEF GoodStep, WorkflowInv, RestTypes

(* The registration of the report transitions twice in one transaction.    *)
LEMMA RegisterApprovedReportStep ==
  ASSUME WorkflowInv, NEW id \in TaskIds, RegisterApprovedReport(id)
  PROVE  GoodStep
<1> DEFINE ts == TasksAfter(task, round, id, "COMPLETE")
           rd == RoundsAfter(round, id[1], "COMPLETE")
           dr == <<"DEVELOPMENT_REPORT", rd["DEVELOPMENT_REPORT"]>>
<1>1. /\ id[1] = "PROJECT_INITIATION"
      /\ CanFinish(task, id, "COMPLETE")
      /\ CanSpawn(Settled(task, round, id, "COMPLETE"), round, id[1], "COMPLETE")
      /\ WithinBound(round, id[1], "COMPLETE")
      /\ CanFinish(ts, dr, "COMPLETE")
      /\ CanSpawn(Settled(ts, rd, dr, "COMPLETE"), rd, dr[1], "COMPLETE")
      /\ WithinBound(rd, dr[1], "COMPLETE")
      /\ task' = TasksAfter(ts, rd, dr, "COMPLETE")
      /\ round' = RoundsAfter(rd, dr[1], "COMPLETE")
      /\ report' = [report EXCEPT !.registered = TRUE]
      /\ SyncState(task', FALSE)
      /\ UNCHANGED <<linked, planned, months>>
  BY DEF RegisterApprovedReport
<1>2. Applies(task, round, id, "COMPLETE") /\ instance.status = "RUNNING"
  BY <1>1, FinishApplies
<1>3. Tables(ts, rd) /\ Kept(task, ts)
  BY <1>2, TablesAfter DEF WorkflowInv
<1>4. dr \in TaskIds
  <2>1. "DEVELOPMENT_REPORT" \in NodeCodes
    BY DEF NodeCodes, PrimaryNodes
  <2>2. "DEVELOPMENT_REPORT" \in Spawned(round, id[1], "COMPLETE")
    BY <1>1, <2>1 DEF Spawned, NextNodes, Concludes, ReviewNodes, CompletionActions,
                      ForwardEdges, OnceNodes
  <2>3. round["DEVELOPMENT_REPORT"] \in 0 .. MaxRound /\ round["DEVELOPMENT_REPORT"] < MaxRound
    BY <1>1, <2>1, <2>2 DEF WithinBound, WorkflowInv, Tables, IsRounds
  <2>4. rd["DEVELOPMENT_REPORT"] = round["DEVELOPMENT_REPORT"] + 1
    BY <2>1, <2>2 DEF RoundsAfter
  <2>5. rd["DEVELOPMENT_REPORT"] \in Rounds
    BY <2>3, <2>4, BoundsAssumption DEF Rounds
  <2> QED
    BY <2>1, <2>5 DEF TaskIds
<1> HIDE DEF ts, rd, dr
<1>5. Applies(ts, rd, dr, "COMPLETE")
  BY <1>1, <1>4, FinishApplies
<1>6. Tables(task', round') /\ Kept(ts, task')
  BY <1>1, <1>3, <1>5, TablesAfter
<1>7. Kept(task, task')
  BY <1>3, <1>6, KeptTwice DEF Tables, WorkflowInv
<1>8. PointerTypes' /\ PointersFollowTasks'
  <2>1. OnePrimary(task')
    BY <1>6 DEF Tables
  <2> QED
    BY <1>1, <1>2, <2>1, Synced DEF WorkflowInv
<1>9. report' \in [required : BOOLEAN, registered : BOOLEAN]
  BY <1>1 DEF WorkflowInv, RestTypes
<1> QED
  BY <1>1, <1>6, <1>7, <1>8, <1>9 DEF GoodStep, WorkflowInv, RestTypes

(* A step that leaves the tasks alone keeps every row.                     *)
LEMMA KeptSame ==
  ASSUME NEW ts, IsTasks(ts)
  PROVE  Kept(ts, ts)
BY SameRow DEF IsTasks, Kept

(* Linking the project to its colour.                                      *)
LEMMA LinkColorStep ==
  ASSUME WorkflowInv, LinkColor
  PROVE  GoodStep
<1>1. UNCHANGED <<task, round, instance, project, report, planned, months>> /\ linked' = TRUE
  BY DEF LinkColor
<1>2. Kept(task, task')
  BY <1>1, KeptSame DEF WorkflowInv, Tables
<1>3. Tables(task', round')
  BY <1>1 DEF WorkflowInv
<1> QED
  BY <1>1, <1>2, <1>3 DEF GoodStep, WorkflowInv, PointerTypes, PointersFollowTasks, RestTypes

(* A step that changes nothing.                                            *)
LEMMA StutterStep ==
  ASSUME WorkflowInv, UNCHANGED vars
  PROVE  GoodStep
<1>1. Kept(task, task')
  BY KeptSame DEF vars, WorkflowInv, Tables
<1>2. Tables(task', round')
  BY DEF vars, WorkflowInv
<1> QED
  BY <1>1, <1>2 DEF vars, GoodStep, WorkflowInv, PointerTypes, PointersFollowTasks, RestTypes

(* Every step of the engine is good.                                       *)
LEMMA NextStep ==
  ASSUME WorkflowInv, [Next]_vars
  PROVE  GoodStep
<1>1. CASE \E id \in TaskIds :
             \/ StartTask(id)
             \/ ReassignTask(id)
             \/ CompleteTask(id)
             \/ RegisterApprovedReport(id)
             \/ RegisterRecord(id)
             \/ \E a \in ReviewActions : ConfirmSample(id, a)
             \/ ApproveSampleOrdinarily(id)
             \/ \E k \in RecordKeys : CreateReview(id, k)
             \/ ApproveReview(id)
             \/ RejectReview(id)
             \/ \E k \in Months : ApproveMonth(id, k)
  BY <1>1, StartTaskStep, ReassignTaskStep, CompleteTaskStep, RegisterApprovedReportStep,
     RegisterRecordStep, ConfirmSampleStep, ApproveSampleOrdinarilyStep, CreateReviewStep,
     ApproveReviewStep, RejectReviewStep, ApproveMonthStep
<1>2. CASE LinkColor
  BY <1>2, LinkColorStep
<1>3. CASE UNCHANGED vars
  BY <1>3, StutterStep
<1> QED
  BY <1>1, <1>2, <1>3 DEF Next

-----------------------------------------------------------------------------
(* The theorems.                                                           *)

(* The tables, the pointers and their types hold in every reachable state. *)
THEOREM WorkflowInvariant ==
  Spec => []WorkflowInv
<1>1. WorkflowInv /\ [Next]_vars => WorkflowInv'
  BY NextStep DEF GoodStep
<1> QED
  BY InitInv, <1>1, PTL DEF Spec

(* Every reachable state is well typed.                                    *)
THEOREM TypeCorrect ==
  Spec => []TypeOK
<1>1. WorkflowInv => TypeOK
  BY DEF WorkflowInv, Tables, IsTasks, IsRounds, PointerTypes, RestTypes, TypeOK
<1> QED
  BY WorkflowInvariant, <1>1, PTL

(* At most one main-line task is open, for any number of rounds.           *)
THEOREM OneMainLineTask ==
  Spec => []SinglePrimary
<1>1. WorkflowInv => SinglePrimary
  BY DEF WorkflowInv, Tables, OnePrimary, SinglePrimary
<1> QED
  BY WorkflowInvariant, <1>1, PTL

(* Open work is the latest round of its node and was not sent back.        *)
THEOREM OpenWorkIsCurrent ==
  Spec => []LiveWorkIsCurrent
<1>1. WorkflowInv => LiveWorkIsCurrent
  BY DEF WorkflowInv, Tables, Current, LiveWorkIsCurrent
<1> QED
  BY WorkflowInvariant, <1>1, PTL

(* A project gets one number and one fee, whatever is reviewed again.      *)
THEOREM NumberAndFeeOnce ==
  Spec => []OneNumberOneFee
<1>1. WorkflowInv => OneNumberOneFee
  BY DEF WorkflowInv, Tables, Once, OneNumberOneFee
<1> QED
  BY WorkflowInvariant, <1>1, PTL

(* No allowed decision on an open task is refused for the tasks that exist: *)
(* createNextTasks always finds room for what it creates.                  *)
THEOREM NeverRefused ==
  Spec => []ReworkNeverRefused
<1>1. WorkflowInv => ReworkNeverRefused
  BY RoomToSpawn DEF WorkflowInv, Tables, ReworkNeverRefused
<1> QED
  BY WorkflowInvariant, <1>1, PTL

(* The instance and the project point where the tasks say.                 *)
THEOREM PointersAgree ==
  Spec => []PointersFollowTasks
<1>1. WorkflowInv => PointersFollowTasks
  BY DEF WorkflowInv
<1> QED
  BY WorkflowInvariant, <1>1, PTL

(* No step rewrites a closed task.                                         *)
THEOREM HistoryStays ==
  Spec => SettledTasksStay
<1>1. WorkflowInv /\ [Next]_vars => Kept(task, task')
  BY NextStep DEF GoodStep
<1>2. Kept(task, task') =>
        [\A id \in TaskIds :
           task[id].status # "NONE" /\ ~task[id].active =>
             /\ task'[id] = [task[id] EXCEPT !.invalid = task'[id].invalid]
             /\ task[id].invalid => task'[id].invalid]_vars
  BY DEF Kept
<1> QED
  BY WorkflowInvariant, <1>1, <1>2, PTL DEF Spec, SettledTasksStay

=============================================================================
