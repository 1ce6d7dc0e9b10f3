---------------------- MODULE AttachmentStorage_proofs ----------------------
(***************************************************************************)
(* Proofs about AttachmentStorage, for every set of uploads, of legacy     *)
(* files and of reconcilers, every quota and any number of failures.       *)
(***************************************************************************)
EXTENDS AttachmentStorage, FiniteSetTheorems, TLAPS

-----------------------------------------------------------------------------
(* The inductive invariant.                                                *)

(* Only attachments older than the reservations are of legacy, and their   *)
(* rows know them.                                                         *)
LegacyAreLinked ==
  \A f \in Files : scan[f] = "LEGACY_UNSCANNED" => f \in Legacy /\ row[f].linked

(* Where a request is tells what its attachment is, and a request past its *)
(* promotion that still owns its reservation has its bytes in place.       *)
RequestInStep(u) ==
  /\ request[u] \in {"start", "admission"} => row[u].state = "NONE"
  /\ request[u] \in {"start", "admission", "upload", "record"} =>
       scan[u] = "NONE" /\ ~row[u].linked
  /\ request[u] \in {"heartbeat", "scan", "promote", "heartbeat again", "commit", "refuse"} =>
       scan[u] = "PENDING_SCAN"
  /\ request[u] \in {"heartbeat again", "commit"} /\ Owns(u) => objects[u] = {"clean"}

RequestsInStep == \A u \in Uploads : RequestInStep(u)

(* A file with a cleaner at work is out of its request's hands for good.   *)
Abandoned(f) == row[f].state \notin {"NONE", "RESERVED"}

(* A cleaner only works on abandoned files, purges none that belongs to    *)
(* the inventory, and has emptied what it says it has.                     *)
CleanerInStep(c) ==
  /\ job[c].step = "claim" => c \in Uploads /\ job[c].file = c
  /\ job[c].step \notin {"idle", "claim"} => job[c].file \in Files /\ Abandoned(job[c].file)
  /\ job[c].step \in {"purge first", "purge second"} => scan[job[c].file] \notin Inventoried
  /\ job[c].step = "purge second" /\ row[job[c].file].linked =>
       "quarantine" \notin objects[job[c].file]
  /\ job[c].step = "mark purged" /\ row[job[c].file].linked => objects[job[c].file] = {}

CleanersInStep == \A c \in Cleaners : CleanerInStep(c)

(* What a reconciler read of a claimed file cannot turn into a reason to   *)
(* purge an inventoried one.                                               *)
BatchesInStep ==
  \A r \in Reconcilers : \A x \in batch[r] :
    /\ Abandoned(x[1])
    /\ scan[x[1]] \in Inventoried => x[2] \in Inventoried

PurgedAreEmpty ==
  \A f \in Files : row[f].state \in {"PURGED", "DELETED"} /\ row[f].linked => objects[f] = {}

StorageInv ==
  /\ TypeOK
  /\ CleanIsBacked
  /\ LegacyAreLinked
  /\ RequestsInStep
  /\ CleanersInStep
  /\ BatchesInStep
  /\ PurgedAreEmpty

-----------------------------------------------------------------------------
(* Reservations.                                                           *)

LeasedReservations == {q \in Reservations : Leased(q)}

(* A new reservation has a lease.                                          *)
LEMMA FreshReservation ==
  LET q == [state |-> "RESERVED", owner |-> "REQUEST", lease |-> "RUNNING", linked |-> FALSE]
  IN  q \in LeasedReservations
BY DEF LeasedReservations, Reservations, Leased, OpenStates

(* Attaching a file to its reservation.                                    *)
LEMMA LinkedReservation ==
  ASSUME NEW q \in LeasedReservations
  PROVE  /\ [q EXCEPT !.linked = TRUE] \in LeasedReservations
         /\ [q EXCEPT !.linked = TRUE].state = q.state
         /\ [q EXCEPT !.linked = TRUE].owner = q.owner
         /\ [q EXCEPT !.linked = TRUE].linked
BY DEF LeasedReservations, Reservations, Leased

(* Renewing and expiring the lease of an open reservation.                 *)
LEMMA ReleasedReservation ==
  ASSUME NEW q \in LeasedReservations, q.state \in OpenStates,
         NEW l \in {"RUNNING", "EXPIRED"}
  PROVE  /\ [q EXCEPT !.lease = l] \in LeasedReservations
         /\ [q EXCEPT !.lease = l].state = q.state
         /\ [q EXCEPT !.lease = l].owner = q.owner
         /\ [q EXCEPT !.lease = l].linked = q.linked
BY DEF LeasedReservations, Reservations, Leased

(* Retaining a reservation.                                                *)
LEMMA RetainedReservation ==
  ASSUME NEW q \in LeasedReservations
  PROVE  LET p == [q EXCEPT !.state = "RETAINED", !.lease = "NONE"]
         IN  /\ p \in LeasedReservations
             /\ p.state = "RETAINED"
             /\ p.owner = q.owner
             /\ p.linked = q.linked
BY DEF LeasedReservations, Reservations, Leased, OpenStates, SettledStates

(* Claiming a reservation.                                                 *)
LEMMA ClaimedReservation ==
  ASSUME NEW q \in LeasedReservations, NEW c \in Cleaners
  PROVE  /\ Claimed(q, c) \in LeasedReservations
         /\ Claimed(q, c).state = "PURGING"
         /\ Claimed(q, c).linked = q.linked
BY DEF Claimed, LeasedReservations, Reservations, Leased, OpenStates

Marks == {"mark purged", "mark retained", "mark retry"}

(* Ending a claim.                                                         *)
LEMMA MarkedReservation ==
  ASSUME NEW q \in LeasedReservations, NEW step \in Marks
  PROVE  /\ Marked(step, q) \in LeasedReservations
         /\ Marked(step, q).state \notin {"NONE", "RESERVED", "DELETED"}
         /\ Marked(step, q).state = "PURGED" => step = "mark purged"
         /\ Marked(step, q).linked = q.linked
<1>1. CASE step = "mark purged"
  BY <1>1 DEF Marked, LeasedReservations, Reservations, Leased, OpenStates, SettledStates
<1>2. CASE step = "mark retained"
  BY <1>2 DEF Marked, LeasedReservations, Reservations, Leased, OpenStates, SettledStates
<1>3. CASE step = "mark retry"
  BY <1>3 DEF Marked, LeasedReservations, Reservations, Leased, OpenStates, SettledStates
<1> QED
  BY <1>1, <1>2, <1>3 DEF Marks

(* The rows of TypeOK.                                                     *)
LEMMA RowsLeased ==
  /\ TypeOK => row \in [Files -> LeasedReservations]
  /\ row' \in [Files -> LeasedReservations] =>
       row' \in [Files -> Reservations] /\ \A f \in Files : Leased(row'[f])
BY DEF TypeOK, LeasedReservations

-----------------------------------------------------------------------------
(* Requests, cleaners and failures.                                        *)

Claiming(u) == [step |-> "claim", file |-> u]

(* Moving a request.                                                       *)
LEMMA GotoMoves ==
  ASSUME TypeOK, NEW u \in Uploads, NEW place \in Requests, Goto(u, place)
  PROVE  /\ request' \in [Uploads -> Requests]
         /\ request'[u] = place
         /\ \A v \in Uploads \ {u} : request'[v] = request[v]
BY DEF TypeOK, Goto

(* Giving a cleaner another job.                                           *)
LEMMA JobGiven ==
  ASSUME TypeOK, NEW c \in Cleaners, NEW j \in Jobs, job' = [job EXCEPT ![c] = j]
  PROVE  /\ job' \in [Cleaners -> Jobs]
         /\ job'[c] = j
         /\ \A b \in Cleaners \ {c} : job'[b] = job[b]
BY DEF TypeOK

(* Moving a request that starts its release.                               *)
LEMMA ReleaseStarts ==
  ASSUME TypeOK, NEW u \in Uploads, NEW place \in Requests, ReleaseAnd(u, place)
  PROVE  /\ request' \in [Uploads -> Requests]
         /\ request'[u] = place
         /\ \A v \in Uploads \ {u} : request'[v] = request[v]
         /\ job' \in [Cleaners -> Jobs]
         /\ job'[u] = Claiming(u)
         /\ \A c \in Cleaners \ {u} : job'[c] = job[c]
<1>1. Claiming(u) \in Jobs /\ u \in Cleaners
  BY DEF Claiming, Jobs, Steps, Files, Cleaners
<1> QED
  BY <1>1, GotoMoves, JobGiven DEF ReleaseAnd, Claiming

(* Ending a job.                                                           *)
LEMMA JobFinished ==
  ASSUME TypeOK, NEW c \in Cleaners, Finish(c)
  PROVE  /\ job' \in [Cleaners -> Jobs]
         /\ job'[c] = Idle
         /\ \A b \in Cleaners \ {c} : job'[b] = job[b]
<1>1. Idle \in Jobs
  BY DEF Idle, Jobs, Steps
<1> QED
  BY <1>1, JobGiven DEF Finish

(* Going on with a job.                                                    *)
LEMMA JobContinued ==
  ASSUME TypeOK, NEW c \in Cleaners, NEW step \in Steps, Continue(c, step)
  PROVE  /\ job' \in [Cleaners -> Jobs]
         /\ job'[c].step = step
         /\ job'[c].file = job[c].file
         /\ \A b \in Cleaners \ {c} : job'[b] = job[b]
<1> DEFINE j == [job[c] EXCEPT !.step = step]
<1>1. job[c] \in Jobs
  BY DEF TypeOK
<1>2. j \in Jobs /\ j.step = step /\ j.file = job[c].file
  BY <1>1 DEF Jobs
<1>3. job' = [job EXCEPT ![c] = j]
  BY DEF Continue
<1> HIDE DEF j
<1> QED
  BY <1>2, <1>3, JobGiven

(* Counting a failure.                                                     *)
LEMMA FaultCounted ==
  ASSUME TypeOK
  PROVE  Fault \/ NoFault => faults' \in 0 .. MaxFaults
BY StorageAssumption DEF TypeOK, Fault, NoFault

(* Changing one row.                                                       *)
LEMMA RowGiven ==
  ASSUME TypeOK, NEW f \in Files, NEW q \in LeasedReservations, row' = [row EXCEPT ![f] = q]
  PROVE  /\ row' \in [Files -> LeasedReservations]
         /\ row'[f] = q
         /\ \A g \in Files \ {f} : row'[g] = row[g]
BY RowsLeased

(* Claimed files are files.                                                *)
LEMMA ClaimedFiles ==
  ASSUME TypeOK, NEW r \in Reconcilers, NEW x \in batch[r]
  PROVE  x[1] \in Files
BY DEF TypeOK

-----------------------------------------------------------------------------
(* Abandoned files.                                                        *)

(* What every step leaves of an abandoned file: it stays abandoned and out *)
(* of the inventory, it is not attached anew, and an attached file gets    *)
(* no bytes back once its quarantine key, or both keys, are empty.         *)
StaysAbandoned(f) ==
  Abandoned(f) =>
    /\ Abandoned(f)'
    /\ scan'[f] \in Inventoried => scan[f] \in Inventoried
    /\ row'[f].linked =>
         /\ row[f].linked
         /\ "quarantine" \notin objects[f] => "quarantine" \notin objects'[f]
         /\ objects[f] = {} => objects'[f] = {}

StayAbandoned == \A f \in Files : StaysAbandoned(f)

(* A cleaner who goes on with the same job stays in step.                  *)
LEMMA SameJob ==
  ASSUME StayAbandoned, NEW c, CleanerInStep(c), job'[c] = job[c]
  PROVE  CleanerInStep(c)'
<1>1. CASE job[c].step \in {"idle", "claim"}
  BY <1>1 DEF CleanerInStep
<1>2. CASE job[c].step \notin {"idle", "claim"}
  <2>1. job[c].file \in Files /\ Abandoned(job[c].file) /\ StaysAbandoned(job[c].file)
    BY <1>2 DEF CleanerInStep, StayAbandoned
  <2> QED
    BY <1>2, <2>1 DEF CleanerInStep, StaysAbandoned
<1> QED
  BY <1>1, <1>2

(* So does one who has finished, or is about to claim.                     *)
LEMMA NewJob ==
  ASSUME NEW c, job'[c] = Idle \/ (c \in Uploads /\ job'[c] = Claiming(c))
  PROVE  CleanerInStep(c)'
<1>1. \/ job'[c].step = "idle"
      \/ c \in Uploads /\ job'[c].step = "claim" /\ job'[c].file = c
  BY DEF Idle, Claiming
<1> QED
  BY <1>1 DEF CleanerInStep

(* All cleaners at once.                                                   *)
LEMMA CleanersGoOn ==
  ASSUME StayAbandoned, CleanersInStep,
         \A c \in Cleaners : \/ job'[c] = job[c]
                             \/ job'[c] = Idle
                             \/ c \in Uploads /\ job'[c] = Claiming(c)
  PROVE  CleanersInStep'
BY SameJob, NewJob DEF CleanersInStep

(* What was read of abandoned files stays true enough.                     *)
LEMMA BatchesGoOn ==
  ASSUME TypeOK, StayAbandoned, BatchesInStep,
         \A r \in Reconcilers : batch'[r] \subseteq batch[r]
  PROVE  BatchesInStep'
<1> SUFFICES ASSUME NEW r \in Reconcilers, NEW x \in batch'[r]
             PROVE  /\ Abandoned(x[1])'
                    /\ scan'[x[1]] \in Inventoried => x[2] \in Inventoried
  BY DEF BatchesInStep
<1>1. x \in batch[r] /\ x[1] \in Files
  BY ClaimedFiles
<1>2. StaysAbandoned(x[1])
  BY <1>1 DEF StayAbandoned
<1> QED
  BY <1>1, <1>2 DEF BatchesInStep, StaysAbandoned

-----------------------------------------------------------------------------
(* One lemma per action.                                                   *)

(* Taking the admission lock.                                              *)
LEMMA BeginAdmissionStep ==
  ASSUME StorageInv, NEW u \in Uploads, BeginAdmission(u)
  PROVE  StorageInv'
<1>1. Room(Cardinality(Stored)) \in 0 .. Capacity
  <2>1. IsFiniteSet(Files)
    BY StorageAssumption, FS_Union DEF Files
  <2>2. IsFiniteSet(Keys)
    <3>1. IsFiniteSet({"quarantine"}) /\ IsFiniteSet({"clean"})
      BY FS_Singleton
    <3>2. Keys = {"quarantine"} \cup {"clean"}
      BY DEF Keys
    <3> QED
      BY <3>1, <3>2, FS_Union
  <2>3. IsFiniteSet(Stored)
    BY <2>1, <2>2, FS_Product, FS_Subset DEF Stored
  <2>4. Cardinality(Stored) \in Nat
    BY <2>3, FS_CardinalityType
  <2> QED
    BY <2>4, StorageAssumption DEF Room
<1>2. /\ request' \in [Uploads -> Requests]
      /\ request'[u] = "admission" /\ request[u] = "start"
      /\ \A v \in Uploads \ {u} : request'[v] = request[v]
  BY GotoMoves DEF StorageInv, BeginAdmission, Requests
<1>3. [holder |-> u, available |-> Room(Cardinality(Stored))] \in [holder : Uploads \cup {"NONE"}, available : 0 .. Capacity]
  BY <1>1
<1>4. StayAbandoned
  BY DEF BeginAdmission, StayAbandoned, StaysAbandoned, Abandoned
<1>5. TypeOK'
  BY <1>2, <1>3 DEF StorageInv, BeginAdmission, TypeOK
<1>6. CleanIsBacked'
  BY DEF StorageInv, BeginAdmission, CleanIsBacked
<1>7. LegacyAreLinked'
  BY DEF StorageInv, BeginAdmission, LegacyAreLinked
<1>8. RequestsInStep'
  BY <1>2 DEF StorageInv, BeginAdmission, RequestsInStep, RequestInStep, Owns, Files
<1>9. CleanersInStep'
  BY <1>4, CleanersGoOn DEF StorageInv, BeginAdmission
<1>10. BatchesInStep'
  BY <1>4, BatchesGoOn DEF StorageInv, BeginAdmission
<1>11. PurgedAreEmpty'
  BY DEF StorageInv, BeginAdmission, PurgedAreEmpty
<1> QED
  BY <1>5, <1>6, <1>7, <1>8, <1>9, <1>10, <1>11 DEF StorageInv

(* Admitting a file or refusing it.                                        *)
LEMMA FinishAdmissionStep ==
  ASSUME StorageInv, NEW u \in Uploads, FinishAdmission(u)
  PROVE  StorageInv'
<1>1. u \in Files /\ row[u].state = "NONE" /\ scan[u] = "NONE"
  BY DEF StorageInv, Files, FinishAdmission, RequestsInStep, RequestInStep
<1>2. /\ request' \in [Uploads -> Requests]
      /\ \A v \in Uploads \ {u} : request'[v] = request[v]
      /\ request'[u] \in {"upload", "done"}
  BY GotoMoves DEF StorageInv, FinishAdmission, Requests
<1>3. /\ row' \in [Files -> LeasedReservations]
      /\ \A f \in Files \ {u} : row'[f] = row[f]
      /\ \/ row'[u].state = "RESERVED" /\ ~row'[u].linked
         \/ row'[u] = row[u] /\ request'[u] = "done"
  <2>1. CASE row' = row /\ Goto(u, "done")
    BY <2>1, GotoMoves, RowsLeased DEF StorageInv, Requests
  <2>2. CASE row' = [row EXCEPT ![u] = [state |-> "RESERVED", owner |-> "REQUEST",
                                        lease |-> "RUNNING", linked |-> FALSE]]
    BY <1>1, <2>2, FreshReservation, RowGiven DEF StorageInv
  <2> QED
    BY <2>1, <2>2 DEF FinishAdmission
<1>4. Unlocked \in [holder : Uploads \cup {"NONE"}, available : 0 .. Capacity]
  BY StorageAssumption DEF Unlocked
<1>5. StayAbandoned
  BY <1>1, <1>3 DEF FinishAdmission, StayAbandoned, StaysAbandoned, Abandoned
<1>6. TypeOK'
  BY <1>2, <1>3, <1>4, RowsLeased DEF StorageInv, FinishAdmission, TypeOK
<1>7. CleanIsBacked'
  BY <1>1, <1>3 DEF StorageInv, FinishAdmission, CleanIsBacked
<1>8. LegacyAreLinked'
  BY <1>1, <1>3 DEF StorageInv, FinishAdmission, LegacyAreLinked
<1>9. RequestsInStep'
  BY <1>1, <1>2, <1>3 DEF StorageInv, FinishAdmission, RequestsInStep, RequestInStep, Owns, Files
<1>10. CleanersInStep'
  BY <1>5, CleanersGoOn DEF StorageInv, FinishAdmission
<1>11. BatchesInStep'
  BY <1>5, BatchesGoOn DEF StorageInv, FinishAdmission
<1>12. PurgedAreEmpty'
  BY <1>1, <1>3 DEF StorageInv, FinishAdmission, PurgedAreEmpty
<1> QED
  BY <1>6, <1>7, <1>8, <1>9, <1>10, <1>11, <1>12 DEF StorageInv

(* Writing the quarantine file.                                            *)
LEMMA UploadFileStep ==
  ASSUME StorageInv, NEW u \in Uploads, UploadFile(u)
  PROVE  StorageInv'
<1>1. u \in Files /\ u \in Cleaners /\ scan[u] = "NONE" /\ ~row[u].linked
  BY DEF StorageInv, Files, Cleaners, RequestsInStep, RequestInStep, UploadFile
<1>2. /\ objects' \in [Files -> SUBSET Keys]
      /\ \A f \in Files \ {u} : objects'[f] = objects[f]
  BY <1>1 DEF StorageInv, TypeOK, UploadFile, Keys
<1>3. /\ request' \in [Uploads -> Requests]
      /\ \A v \in Uploads \ {u} : request'[v] = request[v]
      /\ request'[u] \in {"record", "done"}
      /\ faults' \in 0 .. MaxFaults
      /\ job' \in [Cleaners -> Jobs]
      /\ \A c \in Cleaners : job'[c] = job[c] \/ (c = u /\ job'[c] = Claiming(c))
  <2>1. CASE Goto(u, "record") /\ NoFault /\ UNCHANGED job
    BY <2>1, GotoMoves, FaultCounted DEF StorageInv, TypeOK, Requests
  <2>2. CASE Fault /\ ReleaseAnd(u, "done")
    BY <2>2, ReleaseStarts, FaultCounted DEF StorageInv, Requests
  <2> QED
    BY <2>1, <2>2 DEF UploadFile
<1>4. StayAbandoned
  BY <1>1, <1>2 DEF UploadFile, StayAbandoned, StaysAbandoned, Abandoned
<1>5. TypeOK'
  BY <1>2, <1>3 DEF StorageInv, UploadFile, TypeOK
<1>6. CleanIsBacked'
  BY <1>1, <1>2 DEF StorageInv, UploadFile, CleanIsBacked
<1>7. LegacyAreLinked'
  BY DEF StorageInv, UploadFile, LegacyAreLinked
<1>8. RequestsInStep'
  BY <1>1, <1>2, <1>3 DEF StorageInv, UploadFile, RequestsInStep, RequestInStep, Owns, Files
<1>9. CleanersInStep'
  BY <1>3, <1>4, CleanersGoOn DEF StorageInv
<1>10. BatchesInStep'
  BY <1>4, BatchesGoOn DEF StorageInv, UploadFile
<1>11. PurgedAreEmpty'
  BY <1>1, <1>2 DEF StorageInv, UploadFile, PurgedAreEmpty
<1> QED
  BY <1>5, <1>6, <1>7, <1>8, <1>9, <1>10, <1>11 DEF StorageInv

(* Creating the attachment.                                                *)
LEMMA RecordPendingStep ==
  ASSUME StorageInv, NEW u \in Uploads, RecordPending(u)
  PROVE  StorageInv'
<1>1. u \in Files /\ u \in Cleaners /\ scan[u] = "NONE"
  BY DEF StorageInv, Files, Cleaners, RequestsInStep, RequestInStep, RecordPending
<1>2. /\ row' \in [Files -> LeasedReservations]
      /\ scan' \in [Files -> ScanStatuses]
      /\ \A f \in Files \ {u} : row'[f] = row[f] /\ scan'[f] = scan[f]
      /\ \/ row'[u] = row[u] /\ scan'[u] = "NONE"
         \/ /\ row[u].state = "RESERVED" /\ row'[u].state = "RESERVED"
            /\ scan'[u] = "PENDING_SCAN"
  <2>1. CASE UNCHANGED <<row, scan>>
    BY <1>1, <2>1, RowsLeased DEF StorageInv, TypeOK
  <2>2. CASE /\ Owns(u) /\ row' = [row EXCEPT ![u].linked = TRUE]
             /\ scan' = [scan EXCEPT ![u] = "PENDING_SCAN"]
    <3>1. row[u] \in LeasedReservations
      BY <1>1, RowsLeased DEF StorageInv
    <3>2. /\ row' \in [Files -> LeasedReservations]
          /\ row'[u] = [row[u] EXCEPT !.linked = TRUE]
          /\ \A f \in Files \ {u} : row'[f] = row[f]
      BY <1>1, <2>2, <3>1, LinkedReservation, RowGiven DEF StorageInv
    <3>3. scan' \in [Files -> ScanStatuses]
      BY <2>2 DEF StorageInv, TypeOK, ScanStatuses
    <3> QED
      BY <1>1, <2>2, <3>1, <3>2, <3>3, LinkedReservation DEF Owns, StorageInv, TypeOK
  <2> QED
    BY <2>1, <2>2 DEF RecordPending
<1>3. /\ request' \in [Uploads -> Requests]
      /\ \A v \in Uploads \ {u} : request'[v] = request[v]
      /\ request'[u] = "done" \/ (request'[u] = "heartbeat" /\ scan'[u] = "PENDING_SCAN")
      /\ faults' \in 0 .. MaxFaults
      /\ job' \in [Cleaners -> Jobs]
      /\ \A c \in Cleaners : job'[c] = job[c] \/ (c = u /\ job'[c] = Claiming(c))
  <2>1. CASE Goto(u, "heartbeat") /\ NoFault /\ UNCHANGED job /\ scan'[u] = "PENDING_SCAN"
    BY <2>1, GotoMoves, FaultCounted DEF StorageInv, TypeOK, Requests
  <2>2. CASE (Fault \/ NoFault) /\ ReleaseAnd(u, "done")
    BY <2>2, ReleaseStarts, FaultCounted DEF StorageInv, Requests
  <2> QED
    BY <1>1, <2>1, <2>2 DEF RecordPending, StorageInv, TypeOK
<1>4. StayAbandoned
  BY <1>1, <1>2 DEF RecordPending, StayAbandoned, StaysAbandoned, Abandoned, Inventoried
<1>5. TypeOK'
  BY <1>2, <1>3, RowsLeased DEF StorageInv, RecordPending, TypeOK
<1>6. CleanIsBacked'
  BY <1>1, <1>2 DEF StorageInv, RecordPending, CleanIsBacked
<1>7. LegacyAreLinked'
  BY <1>1, <1>2 DEF StorageInv, RecordPending, LegacyAreLinked
<1>8. RequestsInStep'
  <2>1. RequestInStep(u)'
    BY <1>3 DEF RequestInStep
  <2>2. ASSUME NEW v \in Uploads \ {u} PROVE RequestInStep(v)'
    <3>1. RequestInStep(v) /\ v \in Files
      BY DEF StorageInv, RequestsInStep, Files
    <3> QED
      BY <1>1, <1>2, <1>3, <3>1 DEF RecordPending, RequestInStep, Owns
  <2> QED
    BY <2>1, <2>2 DEF RequestsInStep
<1>9. CleanersInStep'
  BY <1>3, <1>4, CleanersGoOn DEF StorageInv
<1>10. BatchesInStep'
  BY <1>4, BatchesGoOn DEF StorageInv, RecordPending
<1>11. PurgedAreEmpty'
  BY <1>1, <1>2 DEF StorageInv, RecordPending, PurgedAreEmpty
<1> QED
  BY <1>5, <1>6, <1>7, <1>8, <1>9, <1>10, <1>11 DEF StorageInv

(* Renewing the lease, before the scan and before the commit.              *)
LEMMA HeartbeatStep ==
  ASSUME StorageInv, NEW u \in Uploads,
         NEW place, NEW next,
         \/ place = "heartbeat" /\ next = "scan"
         \/ place = "heartbeat again" /\ next = "commit", 
         Heartbeat(u, place, next)
  PROVE  StorageInv'
<1>1. u \in Files
  BY DEF Files
<1>2. /\ row' \in [Files -> LeasedReservations]
      /\ \A g \in Files : /\ row'[g].state = row[g].state
                          /\ row'[g].owner = row[g].owner
                          /\ row'[g].linked = row[g].linked
  <2>1. CASE UNCHANGED row
    BY <2>1, RowsLeased DEF StorageInv
  <2>2. CASE Owns(u) /\ row' = [row EXCEPT ![u].lease = "RUNNING"]
    <3>1. row[u] \in LeasedReservations /\ row[u].state \in OpenStates
      BY <1>1, <2>2, RowsLeased DEF StorageInv, Owns, OpenStates
    <3> DEFINE q == [row[u] EXCEPT !.lease = "RUNNING"]
    <3>2. /\ q \in LeasedReservations
          /\ q.state = row[u].state /\ q.owner = row[u].owner /\ q.linked = row[u].linked
      BY <3>1, ReleasedReservation
    <3>3. row' = [row EXCEPT ![u] = q]
      BY <2>2
    <3> HIDE DEF q
    <3> QED
      BY <1>1, <3>2, <3>3, RowGiven DEF StorageInv
  <2> QED
    BY <2>1, <2>2 DEF Heartbeat
<1>3. /\ request' \in [Uploads -> Requests]
      /\ \A v \in Uploads \ {u} : request'[v] = request[v]
      /\ \/ request'[u] = "done"
         \/ request[u] = "heartbeat" /\ request'[u] = "scan"
         \/ request[u] = "heartbeat again" /\ request'[u] = "commit"
      /\ faults' \in 0 .. MaxFaults
  BY GotoMoves, FaultCounted DEF Heartbeat, StorageInv, Requests
<1>4. StayAbandoned
  BY <1>2 DEF Heartbeat, StayAbandoned, StaysAbandoned, Abandoned
<1>5. TypeOK'
  BY <1>2, <1>3, RowsLeased DEF StorageInv, Heartbeat, TypeOK
<1>6. CleanIsBacked'
  BY <1>2 DEF StorageInv, Heartbeat, CleanIsBacked
<1>7. LegacyAreLinked'
  BY <1>2 DEF StorageInv, Heartbeat, LegacyAreLinked
<1>8. RequestsInStep'
  <2>1. RequestInStep(u)'
    BY <1>1, <1>2, <1>3 DEF StorageInv, Heartbeat, RequestsInStep, RequestInStep, Owns, Files
  <2>2. ASSUME NEW v \in Uploads \ {u} PROVE RequestInStep(v)'
    <3>1. RequestInStep(v) /\ v \in Files
      BY DEF StorageInv, RequestsInStep, Files
    <3> QED
      BY <1>1, <1>2, <1>3, <3>1 DEF Heartbeat, RequestInStep, Owns
  <2> QED
    BY <2>1, <2>2 DEF RequestsInStep
<1>9. CleanersInStep'
  BY <1>4, CleanersGoOn DEF StorageInv, Heartbeat
<1>10. BatchesInStep'
  BY <1>4, BatchesGoOn DEF StorageInv, Heartbeat
<1>11. PurgedAreEmpty'
  BY <1>2 DEF StorageInv, Heartbeat, PurgedAreEmpty
<1> QED
  BY <1>5, <1>6, <1>7, <1>8, <1>9, <1>10, <1>11 DEF StorageInv

(* The scanner's verdict.                                                  *)
LEMMA ScanFileStep ==
  ASSUME StorageInv, NEW u \in Uploads, ScanFile(u)
  PROVE  StorageInv'
<1>1. u \in Cleaners
  BY DEF Cleaners
<1>2. /\ request' \in [Uploads -> Requests]
      /\ \A v \in Uploads \ {u} : request'[v] = request[v]
      /\ request[u] = "scan" /\ request'[u] \in {"promote", "refuse"}
      /\ job' \in [Cleaners -> Jobs]
      /\ \A c \in Cleaners : job'[c] = job[c] \/ (c = u /\ job'[c] = Claiming(c))
  <2>1. CASE Goto(u, "promote") /\ UNCHANGED job
    BY <2>1, GotoMoves DEF StorageInv, TypeOK, Requests, ScanFile
  <2>2. CASE ReleaseAnd(u, "refuse")
    BY <2>2, ReleaseStarts DEF StorageInv, Requests, ScanFile
  <2> QED
    BY <2>1, <2>2 DEF ScanFile
<1>3. StayAbandoned
  BY DEF ScanFile, StayAbandoned, StaysAbandoned, Abandoned
<1>4. TypeOK'
  BY <1>2 DEF StorageInv, ScanFile, TypeOK
<1>5. CleanIsBacked'
  BY DEF StorageInv, ScanFile, CleanIsBacked
<1>6. LegacyAreLinked'
  BY DEF StorageInv, ScanFile, LegacyAreLinked
<1>7. RequestsInStep'
  BY <1>2 DEF StorageInv, ScanFile, RequestsInStep, RequestInStep, Owns, Files
<1>8. CleanersInStep'
  BY <1>2, <1>3, CleanersGoOn DEF StorageInv
<1>9. BatchesInStep'
  BY <1>3, BatchesGoOn DEF StorageInv, ScanFile
<1>10. PurgedAreEmpty'
  BY DEF StorageInv, ScanFile, PurgedAreEmpty
<1> QED
  BY <1>4, <1>5, <1>6, <1>7, <1>8, <1>9, <1>10 DEF StorageInv

(* Renaming the quarantine file.                                           *)
LEMMA PromoteFileStep ==
  ASSUME StorageInv, NEW u \in Uploads, PromoteFile(u)
  PROVE  StorageInv'
<1>1. u \in Files /\ u \in Cleaners /\ scan[u] = "PENDING_SCAN"
  BY DEF StorageInv, Files, Cleaners, RequestsInStep, RequestInStep, PromoteFile
<1>2. /\ objects' \in [Files -> SUBSET Keys]
      /\ \A f \in Files \ {u} : objects'[f] = objects[f]
      /\ objects'[u] = objects[u] \/ ("quarantine" \in objects[u] /\ objects'[u] = {"clean"})
  BY <1>1 DEF StorageInv, TypeOK, PromoteFile, Keys
<1>3. /\ request' \in [Uploads -> Requests]
      /\ \A v \in Uploads \ {u} : request'[v] = request[v]
      /\ request'[u] = "refuse" \/ (request'[u] = "heartbeat again" /\ objects'[u] = {"clean"})
      /\ faults' \in 0 .. MaxFaults
      /\ job' \in [Cleaners -> Jobs]
      /\ \A c \in Cleaners : job'[c] = job[c] \/ (c = u /\ job'[c] = Claiming(c))
  <2>1. CASE Goto(u, "heartbeat again") /\ NoFault /\ UNCHANGED job
             /\ objects' = [objects EXCEPT ![u] = {"clean"}]
    BY <1>1, <2>1, GotoMoves, FaultCounted DEF StorageInv, TypeOK, Requests
  <2>2. CASE (Fault \/ NoFault) /\ ReleaseAnd(u, "refuse")
    BY <2>2, ReleaseStarts, FaultCounted DEF StorageInv, Requests
  <2> QED
    BY <2>1, <2>2 DEF PromoteFile
<1>4. StayAbandoned
  BY <1>1, <1>2 DEF PromoteFile, StayAbandoned, StaysAbandoned, Abandoned
<1>5. TypeOK'
  BY <1>2, <1>3 DEF StorageInv, PromoteFile, TypeOK
<1>6. CleanIsBacked'
  BY <1>1, <1>2 DEF StorageInv, PromoteFile, CleanIsBacked
<1>7. LegacyAreLinked'
  BY DEF StorageInv, PromoteFile, LegacyAreLinked
<1>8. RequestsInStep'
  BY <1>1, <1>2, <1>3 DEF StorageInv, PromoteFile, RequestsInStep, RequestInStep, Owns, Files
<1>9. CleanersInStep'
  BY <1>3, <1>4, CleanersGoOn DEF StorageInv
<1>10. BatchesInStep'
  BY <1>4, BatchesGoOn DEF StorageInv, PromoteFile
<1>11. PurgedAreEmpty'
  BY <1>1, <1>2 DEF StorageInv, PromoteFile, PurgedAreEmpty
<1> QED
  BY <1>5, <1>6, <1>7, <1>8, <1>9, <1>10, <1>11 DEF StorageInv

(* The final commit.                                                       *)
LEMMA CommitCleanStep ==
  ASSUME StorageInv, NEW u \in Uploads, CommitClean(u)
  PROVE  StorageInv'
<1>1. /\ u \in Files
      /\ scan[u] = "PENDING_SCAN"
      /\ Owns(u) => objects[u] = {"clean"}
  BY DEF StorageInv, Files, CommitClean, RequestsInStep, RequestInStep
<1>2. /\ row' \in [Files -> LeasedReservations]
      /\ scan' \in [Files -> ScanStatuses]
      /\ \A f \in Files \ {u} : row'[f] = row[f] /\ scan'[f] = scan[f]
      /\ \/ row'[u] = row[u] /\ scan'[u] = scan[u]
         \/ /\ row[u].state = "RESERVED" /\ row'[u].state = "RETAINED"
            /\ scan'[u] = "CLEAN" /\ objects[u] = {"clean"}
  <2>1. CASE UNCHANGED <<row, scan>>
    BY <1>1, <2>1, RowsLeased DEF StorageInv, TypeOK
  <2>2. CASE Owns(u) /\ Retain(u)
    <3>1. row[u] \in LeasedReservations
      BY <1>1, RowsLeased DEF StorageInv
    <3>2. /\ row' \in [Files -> LeasedReservations]
          /\ row'[u].state = "RETAINED"
          /\ \A f \in Files \ {u} : row'[f] = row[f]
      BY <1>1, <2>2, <3>1, RetainedReservation, RowGiven DEF StorageInv, Retain
    <3>3. scan' \in [Files -> ScanStatuses]
      BY <2>2 DEF StorageInv, TypeOK, ScanStatuses, Retain
    <3> QED
      BY <1>1, <2>2, <3>2, <3>3 DEF Owns, Retain, StorageInv, TypeOK
  <2> QED
    BY <2>1, <2>2 DEF CommitClean
<1>3. /\ request' \in [Uploads -> Requests]
      /\ \A v \in Uploads \ {u} : request'[v] = request[v]
      /\ request'[u] \in {"done", "settle"}
      /\ faults' \in 0 .. MaxFaults
  BY GotoMoves, FaultCounted DEF CommitClean, StorageInv, Requests
<1>4. StayAbandoned
  BY <1>1, <1>2 DEF CommitClean, StayAbandoned, StaysAbandoned, Abandoned
<1>5. TypeOK'
  BY <1>2, <1>3, RowsLeased DEF StorageInv, CommitClean, TypeOK
<1>6. CleanIsBacked'
  BY <1>1, <1>2 DEF StorageInv, CommitClean, CleanIsBacked
<1>7. LegacyAreLinked'
  BY <1>1, <1>2 DEF StorageInv, CommitClean, LegacyAreLinked
<1>8. RequestsInStep'
  <2>1. RequestInStep(u)'
    BY <1>1, <1>2, <1>3 DEF StorageInv, CommitClean, RequestsInStep, RequestInStep, Owns, Files
  <2>2. ASSUME NEW v \in Uploads \ {u} PROVE RequestInStep(v)'
    <3>1. RequestInStep(v) /\ v \in Files
      BY DEF StorageInv, RequestsInStep, Files
    <3> QED
      BY <1>1, <1>2, <1>3, <3>1 DEF CommitClean, RequestInStep, Owns
  <2> QED
    BY <2>1, <2>2 DEF RequestsInStep
<1>9. CleanersInStep'
  BY <1>4, CleanersGoOn DEF StorageInv, CommitClean
<1>10. BatchesInStep'
  BY <1>4, BatchesGoOn DEF StorageInv, CommitClean
<1>11. PurgedAreEmpty'
  BY <1>1, <1>2 DEF StorageInv, CommitClean, PurgedAreEmpty
<1> QED
  BY <1>5, <1>6, <1>7, <1>8, <1>9, <1>10, <1>11 DEF StorageInv

(* Asking the database what became of a failed commit.                     *)
LEMMA SettleCommitStep ==
  ASSUME StorageInv, NEW u \in Uploads, SettleCommit(u)
  PROVE  StorageInv'
<1>1. u \in Files /\ u \in Cleaners
  BY DEF Files, Cleaners
<1>2. /\ scan' \in [Files -> ScanStatuses]
      /\ \A f \in Files \ {u} : scan'[f] = scan[f]
      /\ scan'[u] = scan[u] \/ (scan[u] = "PENDING_SCAN" /\ scan'[u] = "REFUSED")
  BY <1>1 DEF SettleCommit, StorageInv, TypeOK, ScanStatuses
<1>3. /\ request' \in [Uploads -> Requests]
      /\ \A v \in Uploads \ {u} : request'[v] = request[v]
      /\ request'[u] = "done"
      /\ faults' \in 0 .. MaxFaults
      /\ job' \in [Cleaners -> Jobs]
      /\ \A c \in Cleaners : job'[c] = job[c] \/ (c = u /\ job'[c] = Claiming(c))
  <2>1. CASE Goto(u, "done") /\ (Fault \/ NoFault) /\ UNCHANGED job
    BY <2>1, GotoMoves, FaultCounted DEF StorageInv, TypeOK, Requests
  <2>2. CASE NoFault /\ ReleaseAnd(u, "done")
    BY <2>2, ReleaseStarts, FaultCounted DEF StorageInv, Requests
  <2> QED
    BY <2>1, <2>2 DEF SettleCommit
<1>4. StayAbandoned
  BY <1>2 DEF SettleCommit, StayAbandoned, StaysAbandoned, Abandoned, Inventoried
<1>5. TypeOK'
  BY <1>2, <1>3 DEF StorageInv, SettleCommit, TypeOK
<1>6. CleanIsBacked'
  BY <1>2 DEF StorageInv, SettleCommit, CleanIsBacked
<1>7. LegacyAreLinked'
  BY <1>2 DEF StorageInv, SettleCommit, LegacyAreLinked
<1>8. RequestsInStep'
  BY <1>2, <1>3 DEF StorageInv, SettleCommit, RequestsInStep, RequestInStep, Owns, Files
<1>9. CleanersInStep'
  BY <1>3, <1>4, CleanersGoOn DEF StorageInv
<1>10. BatchesInStep'
  BY <1>4, BatchesGoOn DEF StorageInv, SettleCommit
<1>11. PurgedAreEmpty'
  BY DEF StorageInv, SettleCommit, PurgedAreEmpty
<1> QED
  BY <1>5, <1>6, <1>7, <1>8, <1>9, <1>10, <1>11 DEF StorageInv

(* Recording a refusal.                                                    *)
LEMMA RecordRefusalStep ==
  ASSUME StorageInv, NEW u \in Uploads, RecordRefusal(u)
  PROVE  StorageInv'
<1>1. u \in Files /\ u \in Cleaners
  BY DEF Files, Cleaners
<1>2. /\ scan' \in [Files -> ScanStatuses]
      /\ \A f \in Files \ {u} : scan'[f] = scan[f]
      /\ scan'[u] = scan[u] \/ (scan[u] = "PENDING_SCAN" /\ scan'[u] = "REFUSED")
  BY <1>1 DEF RecordRefusal, StorageInv, TypeOK, ScanStatuses
<1>3. /\ request' \in [Uploads -> Requests]
      /\ \A v \in Uploads \ {u} : request'[v] = request[v]
      /\ request'[u] = "done"
      /\ faults' \in 0 .. MaxFaults
  BY GotoMoves, FaultCounted DEF RecordRefusal, StorageInv, Requests
<1>4. StayAbandoned
  BY <1>2 DEF RecordRefusal, StayAbandoned, StaysAbandoned, Abandoned, Inventoried
<1>5. TypeOK'
  BY <1>2, <1>3 DEF StorageInv, RecordRefusal, TypeOK
<1>6. CleanIsBacked'
  BY <1>2 DEF StorageInv, RecordRefusal, CleanIsBacked
<1>7. LegacyAreLinked'
  BY <1>2 DEF StorageInv, RecordRefusal, LegacyAreLinked
<1>8. RequestsInStep'
  BY <1>2, <1>3 DEF StorageInv, RecordRefusal, RequestsInStep, RequestInStep, Owns, Files
<1>9. CleanersInStep'
  BY <1>4, CleanersGoOn DEF StorageInv, RecordRefusal
<1>10. BatchesInStep'
  BY <1>4, BatchesGoOn DEF StorageInv, RecordRefusal
<1>11. PurgedAreEmpty'
  BY DEF StorageInv, RecordRefusal, PurgedAreEmpty
<1> QED
  BY <1>5, <1>6, <1>7, <1>8, <1>9, <1>10, <1>11 DEF StorageInv

(* A release claims its reservation: it is not of legacy, and it is still  *)
(* open, so it is not clean.                                               *)
LEMMA ClaimReleaseStep ==
  ASSUME StorageInv, NEW u \in Uploads, ClaimRelease(u)
  PROVE  StorageInv'
<1>1. u \in Files /\ u \in Cleaners /\ job[u].file = u
  BY DEF StorageInv, Files, Cleaners, ClaimRelease, CleanersInStep, CleanerInStep
<1>2. row[u].state \in {"RESERVED", "RECONCILIATION_REQUIRED"} => scan[u] \notin Inventoried
  BY <1>1, StorageAssumption DEF StorageInv, CleanIsBacked, LegacyAreLinked, Inventoried
<1>3. /\ row' \in [Files -> LeasedReservations]
      /\ job' \in [Cleaners -> Jobs]
      /\ faults' \in 0 .. MaxFaults
      /\ \A f \in Files \ {u} : row'[f] = row[f]
      /\ \A c \in Cleaners \ {u} : job'[c] = job[c]
      /\ \/ row'[u] = row[u] /\ job'[u] = Idle
         \/ /\ row[u].state \in {"RESERVED", "RECONCILIATION_REQUIRED"}
            /\ row'[u].state = "PURGING" /\ row'[u].linked = row[u].linked
            /\ job'[u].step = "purge first" /\ job'[u].file = u
  <2>1. CASE UNCHANGED row /\ Finish(u) /\ (Fault \/ NoFault)
    BY <1>1, <2>1, RowsLeased, JobFinished, FaultCounted DEF StorageInv
  <2>2. CASE /\ row[u].state \in {"RESERVED", "RECONCILIATION_REQUIRED"}
             /\ row' = [row EXCEPT ![u] = Claimed(@, u)]
             /\ Continue(u, "purge first") /\ NoFault
    <3>1. row[u] \in LeasedReservations
      BY <1>1, RowsLeased DEF StorageInv
    <3>2. /\ row' \in [Files -> LeasedReservations]
          /\ row'[u].state = "PURGING" /\ row'[u].linked = row[u].linked
          /\ \A f \in Files \ {u} : row'[f] = row[f]
      <4> DEFINE q == Claimed(row[u], u)
      <4>1. q \in LeasedReservations /\ q.state = "PURGING" /\ q.linked = row[u].linked
        BY <1>1, <3>1, ClaimedReservation
      <4>2. row' = [row EXCEPT ![u] = q]
        BY <2>2
      <4> HIDE DEF q
      <4> QED
        BY <1>1, <4>1, <4>2, RowGiven DEF StorageInv
    <3>3. "purge first" \in Steps
      BY DEF Steps
    <3> QED
      BY <1>1, <2>2, <3>2, <3>3, JobContinued, FaultCounted DEF StorageInv
  <2> QED
    BY <2>1, <2>2 DEF ClaimRelease
<1>4. StayAbandoned
  BY <1>3 DEF ClaimRelease, StayAbandoned, StaysAbandoned, Abandoned
<1>5. TypeOK'
  BY <1>3, RowsLeased DEF StorageInv, ClaimRelease, TypeOK
<1>6. CleanIsBacked'
  BY <1>1, <1>3 DEF StorageInv, ClaimRelease, CleanIsBacked
<1>7. LegacyAreLinked'
  BY <1>3 DEF StorageInv, ClaimRelease, LegacyAreLinked
<1>8. RequestsInStep'
  <2>1. RequestInStep(u)'
    BY <1>3 DEF StorageInv, ClaimRelease, RequestsInStep, RequestInStep, Owns, Files
  <2>2. ASSUME NEW v \in Uploads \ {u} PROVE RequestInStep(v)'
    <3>1. RequestInStep(v) /\ v \in Files
      BY DEF StorageInv, RequestsInStep, Files
    <3> QED
      BY <1>3, <3>1 DEF ClaimRelease, RequestInStep, Owns
  <2> QED
    BY <2>1, <2>2 DEF RequestsInStep
<1>9. CleanersInStep'
  <2>1. CleanerInStep(u)'
    <3>1. CASE job'[u] = Idle
      BY <3>1, NewJob
    <3>2. CASE row'[u].state = "PURGING" /\ job'[u].step = "purge first" /\ job'[u].file = u
               /\ scan[u] \notin Inventoried
      BY <1>1, <3>2 DEF CleanerInStep, Abandoned, ClaimRelease
    <3> QED
      BY <1>2, <1>3, <3>1, <3>2
  <2>2. ASSUME NEW c \in Cleaners \ {u} PROVE CleanerInStep(c)'
    BY <1>3, <1>4, SameJob DEF StorageInv, CleanersInStep
  <2> QED
    BY <2>1, <2>2 DEF CleanersInStep
<1>10. BatchesInStep'
  BY <1>4, BatchesGoOn DEF StorageInv, ClaimRelease
<1>11. PurgedAreEmpty'
  BY <1>3 DEF StorageInv, ClaimRelease, PurgedAreEmpty
<1> QED
  BY <1>5, <1>6, <1>7, <1>8, <1>9, <1>10, <1>11 DEF StorageInv

(* Purging one key.                                                        *)
LEMMA PurgeObjectStep ==
  ASSUME StorageInv, NEW c \in Cleaners, PurgeObject(c)
  PROVE  StorageInv'
<1> DEFINE f == job[c].file
<1>1. /\ f \in Files /\ Abandoned(f) /\ scan[f] \notin Inventoried
      /\ job[c].step = "purge second" /\ row[f].linked => "quarantine" \notin objects[f]
  BY DEF StorageInv, PurgeObject, CleanersInStep, CleanerInStep
<1>2. /\ objects' \in [Files -> SUBSET Keys]
      /\ \A g \in Files : g # f => objects'[g] = objects[g]
      /\ objects'[f] \subseteq objects[f]
  BY <1>1 DEF StorageInv, PurgeObject, TypeOK
<1>3. /\ job' \in [Cleaners -> Jobs]
      /\ faults' \in 0 .. MaxFaults
      /\ job'[c].file = f
      /\ job'[c].step \in {"mark retry", "purge second", "mark purged"}
      /\ \A b \in Cleaners \ {c} : job'[b] = job[b]
  BY JobContinued, FaultCounted DEF StorageInv, PurgeObject, Steps
<1>4. /\ job'[c].step = "purge second" => "quarantine" \notin objects'[f]
      /\ job'[c].step = "mark purged" /\ row[f].linked => objects'[f] = {}
  <2>1. CASE Continue(c, "mark retry")
    BY <2>1, JobContinued DEF StorageInv, Steps
  <2>2. CASE /\ job[c].step = "purge first" /\ Continue(c, "purge second")
             /\ objects' = [objects EXCEPT ![f] = @ \ {"quarantine"}]
    BY <1>1, <2>2, JobContinued DEF StorageInv, TypeOK, Steps
  <2>3. CASE /\ job[c].step = "purge second" /\ Continue(c, "mark purged")
             /\ objects' = [objects EXCEPT ![f] = @ \ {"clean"}]
    <3>1. objects[f] \subseteq {"quarantine", "clean"} /\ objects'[f] = objects[f] \ {"clean"}
      BY <1>1, <2>3 DEF StorageInv, TypeOK, Keys
    <3>2. job'[c].step = "mark purged"
      BY <2>3, JobContinued DEF StorageInv, Steps
    <3> QED
      BY <1>1, <2>3, <3>1, <3>2
  <2> QED
    BY <2>1, <2>2, <2>3 DEF PurgeObject, PurgeKey
<1>5. StayAbandoned
  BY <1>1, <1>2 DEF PurgeObject, StayAbandoned, StaysAbandoned, Abandoned
<1>6. TypeOK'
  BY <1>2, <1>3 DEF StorageInv, PurgeObject, TypeOK
<1>7. CleanIsBacked'
  BY <1>1, <1>2 DEF StorageInv, PurgeObject, CleanIsBacked, Inventoried
<1>8. LegacyAreLinked'
  BY DEF StorageInv, PurgeObject, LegacyAreLinked
<1>9. RequestsInStep'
  BY <1>1, <1>2 DEF StorageInv, PurgeObject, RequestsInStep, RequestInStep, Owns, Files, Abandoned
<1>10. CleanersInStep'
  <2>1. CleanerInStep(c)'
    BY <1>1, <1>3, <1>4 DEF CleanerInStep, Abandoned, PurgeObject
  <2>2. ASSUME NEW b \in Cleaners \ {c} PROVE CleanerInStep(b)'
    BY <1>3, <1>5, SameJob DEF StorageInv, CleanersInStep
  <2> QED
    BY <2>1, <2>2 DEF CleanersInStep
<1>11. BatchesInStep'
  BY <1>5, BatchesGoOn DEF StorageInv, PurgeObject
<1>12. PurgedAreEmpty'
  BY <1>1, <1>2 DEF StorageInv, PurgeObject, PurgedAreEmpty
<1> QED
  BY <1>6, <1>7, <1>8, <1>9, <1>10, <1>11, <1>12 DEF StorageInv

(* The end of a claim.                                                     *)
LEMMA MarkReservationStep ==
  ASSUME StorageInv, NEW c \in Cleaners, MarkReservation(c)
  PROVE  StorageInv'
<1> DEFINE f == job[c].file
<1>1. /\ f \in Files /\ job[c].step \in Marks
      /\ job[c].step = "mark purged" /\ row[f].linked => objects[f] = {}
  BY DEF StorageInv, MarkReservation, CleanersInStep, CleanerInStep, Marks
<1>2. /\ row' \in [Files -> LeasedReservations]
      /\ \A g \in Files : row'[g] = row[g]
           \/ /\ g = f /\ row[f].state = "PURGING"
              /\ row'[f].state \notin {"NONE", "RESERVED", "DELETED"}
              /\ row'[f].state = "PURGED" => job[c].step = "mark purged"
              /\ row'[f].linked = row[f].linked
  <2>1. row[f] \in LeasedReservations
    BY <1>1, RowsLeased DEF StorageInv
  <2>2. CASE row' = [row EXCEPT ![f] = Marked(job[c].step, @)] /\ row[f].state = "PURGING"
    <3> DEFINE q == Marked(job[c].step, row[f])
    <3>1. /\ q \in LeasedReservations
          /\ q.state \notin {"NONE", "RESERVED", "DELETED"}
          /\ q.state = "PURGED" => job[c].step = "mark purged"
          /\ q.linked = row[f].linked
      BY <1>1, <2>1, MarkedReservation
    <3>2. row' = [row EXCEPT ![f] = q]
      BY <2>2
    <3> HIDE DEF q, f
    <3> QED
      BY <1>1, <2>2, <3>1, <3>2, RowGiven DEF StorageInv
  <2>3. CASE row' = row
    BY <2>3, RowsLeased DEF StorageInv
  <2>4. CASE row' = [row EXCEPT ![f] = @]
    BY <1>1, <2>1, <2>4, RowGiven DEF StorageInv
  <2> QED
    BY <2>2, <2>3, <2>4 DEF MarkReservation, ClaimedBy
<1>3. /\ job' \in [Cleaners -> Jobs]
      /\ faults' \in 0 .. MaxFaults
      /\ \A b \in Cleaners : job'[b] = job[b] \/ job'[b] = Idle
  BY JobFinished, FaultCounted DEF StorageInv, MarkReservation
<1>4. StayAbandoned
  BY <1>1, <1>2 DEF MarkReservation, StayAbandoned, StaysAbandoned, Abandoned
<1>5. TypeOK'
  BY <1>2, <1>3, RowsLeased DEF StorageInv, MarkReservation, TypeOK
<1>6. CleanIsBacked'
  BY <1>2 DEF StorageInv, MarkReservation, CleanIsBacked
<1>7. LegacyAreLinked'
  BY <1>2 DEF StorageInv, MarkReservation, LegacyAreLinked
<1>8. RequestsInStep'
  <2> SUFFICES ASSUME NEW v \in Uploads PROVE RequestInStep(v)'
    BY DEF RequestsInStep
  <2> QED
    BY <1>2 DEF StorageInv, MarkReservation, RequestsInStep, RequestInStep, Owns, Files
<1>9. CleanersInStep'
  BY <1>3, <1>4, CleanersGoOn DEF StorageInv
<1>10. BatchesInStep'
  BY <1>4, BatchesGoOn DEF StorageInv, MarkReservation
<1>11. PurgedAreEmpty'
  BY <1>1, <1>2 DEF StorageInv, MarkReservation, PurgedAreEmpty
<1> QED
  BY <1>5, <1>6, <1>7, <1>8, <1>9, <1>10, <1>11 DEF StorageInv

(* A lease runs out.                                                       *)
LEMMA ExpireLeaseStep ==
  ASSUME StorageInv, NEW f \in Files, ExpireLease(f)
  PROVE  StorageInv'
<1>1. row[f] \in LeasedReservations /\ row[f].state \in OpenStates
  BY RowsLeased DEF StorageInv, ExpireLease, LeasedReservations, Leased
<1>2. /\ row' \in [Files -> LeasedReservations]
      /\ \A g \in Files : /\ row'[g].state = row[g].state
                          /\ row'[g].owner = row[g].owner
                          /\ row'[g].linked = row[g].linked
  <2> DEFINE q == [row[f] EXCEPT !.lease = "EXPIRED"]
  <2>1. /\ q \in LeasedReservations
        /\ q.state = row[f].state /\ q.owner = row[f].owner /\ q.linked = row[f].linked
    BY <1>1, ReleasedReservation
  <2>2. row' = [row EXCEPT ![f] = q]
    BY DEF ExpireLease
  <2> HIDE DEF q
  <2> QED
    BY <2>1, <2>2, RowGiven DEF StorageInv
<1>3. StayAbandoned
  BY <1>2 DEF ExpireLease, StayAbandoned, StaysAbandoned, Abandoned
<1>4. TypeOK'
  BY <1>2, RowsLeased DEF StorageInv, ExpireLease, TypeOK
<1>5. CleanIsBacked'
  BY <1>2 DEF StorageInv, ExpireLease, CleanIsBacked
<1>6. LegacyAreLinked'
  BY <1>2 DEF StorageInv, ExpireLease, LegacyAreLinked
<1>7. RequestsInStep'
  <2> SUFFICES ASSUME NEW v \in Uploads PROVE RequestInStep(v)'
    BY DEF RequestsInStep
  <2> QED
    BY <1>2 DEF StorageInv, ExpireLease, RequestsInStep, RequestInStep, Owns, Files
<1>8. CleanersInStep'
  BY <1>3, CleanersGoOn DEF StorageInv, ExpireLease
<1>9. BatchesInStep'
  BY <1>3, BatchesGoOn DEF StorageInv, ExpireLease
<1>10. PurgedAreEmpty'
  BY <1>2 DEF StorageInv, ExpireLease, PurgedAreEmpty
<1> QED
  BY <1>4, <1>5, <1>6, <1>7, <1>8, <1>9, <1>10 DEF StorageInv

(* A run claims the expired reservations: an open one of the inventory is  *)
(* of legacy, so its row knows it and the run reads it as such.            *)
LEMMA StartRunStep ==
  ASSUME StorageInv, NEW r \in Reconcilers, StartRun(r)
  PROVE  StorageInv'
<1> DEFINE expired == {f \in Files : row[f].state \in OpenStates /\ row[f].lease = "EXPIRED"}
           read(f) == IF row[f].linked THEN scan[f] ELSE "NONE"
<1>1. r \in Cleaners /\ row \in [Files -> LeasedReservations]
  BY RowsLeased DEF StorageInv, Cleaners
<1>2. /\ row' \in [Files -> LeasedReservations]
      /\ \A f \in Files : row'[f] = row[f]
           \/ /\ row[f].state \in OpenStates /\ row'[f].state = "PURGING"
              /\ row'[f].linked = row[f].linked
      /\ \A f \in expired : row'[f].state = "PURGING"
  BY <1>1, ClaimedReservation DEF StartRun
<1>3. /\ batch' \in [Reconcilers -> SUBSET (Files \X ScanStatuses)]
      /\ \A q \in Reconcilers \ {r} : batch'[q] = batch[q]
      /\ batch'[r] = {<<f, read(f)>> : f \in expired}
  <2>1. batch' = [batch EXCEPT ![r] = {<<f, read(f)>> : f \in expired}]
    BY DEF StartRun
  <2>2. \A f \in Files : read(f) \in ScanStatuses
    BY DEF StorageInv, TypeOK, ScanStatuses
  <2> QED
    BY <2>1, <2>2 DEF StorageInv, TypeOK
<1>4. StayAbandoned
  BY <1>2 DEF StartRun, StayAbandoned, StaysAbandoned, Abandoned
<1>5. TypeOK'
  BY <1>2, <1>3, RowsLeased DEF StorageInv, StartRun, TypeOK
<1>6. CleanIsBacked'
  BY <1>2 DEF StorageInv, StartRun, CleanIsBacked, OpenStates
<1>7. LegacyAreLinked'
  BY <1>2 DEF StorageInv, StartRun, LegacyAreLinked
<1>8. RequestsInStep'
  BY <1>2 DEF StorageInv, StartRun, RequestsInStep, RequestInStep, Owns, Files, OpenStates
<1>9. CleanersInStep'
  BY <1>4, CleanersGoOn DEF StorageInv, StartRun
<1>10. BatchesInStep'
  <2>1. ASSUME NEW f \in expired
        PROVE  /\ Abandoned(f)'
               /\ scan'[f] \in Inventoried => read(f) \in Inventoried
    BY <1>2 DEF StartRun, StorageInv, CleanIsBacked, LegacyAreLinked, Inventoried, OpenStates, Abandoned
  <2>2. ASSUME NEW x \in batch'[r]
        PROVE  /\ Abandoned(x[1])'
               /\ scan'[x[1]] \in Inventoried => x[2] \in Inventoried
    <3>1. PICK f \in expired : x = <<f, read(f)>>
      BY <1>3
    <3> QED
      BY <2>1, <3>1
  <2>3. ASSUME NEW q \in Reconcilers \ {r}, NEW x \in batch'[q]
        PROVE  /\ Abandoned(x[1])'
               /\ scan'[x[1]] \in Inventoried => x[2] \in Inventoried
    <3>1. x \in batch[q] /\ x[1] \in Files
      BY <1>3, ClaimedFiles DEF StorageInv
    <3> QED
      BY <1>4, <3>1 DEF StorageInv, BatchesInStep, StayAbandoned, StaysAbandoned
  <2> QED
    BY <2>2, <2>3 DEF BatchesInStep
<1>11. PurgedAreEmpty'
  BY <1>2 DEF StorageInv, StartRun, PurgedAreEmpty
<1> QED
  BY <1>5, <1>6, <1>7, <1>8, <1>9, <1>10, <1>11 DEF StorageInv

(* A run turns to the next file.                                           *)
LEMMA TakeFileStep ==
  ASSUME StorageInv, NEW r \in Reconcilers, TakeFile(r)
  PROVE  StorageInv'
<1>1. PICK x \in batch[r] :
        /\ batch' = [batch EXCEPT ![r] = @ \ {x}]
        /\ job' = [job EXCEPT ![r] = [step |-> FirstStep(x[2]), file |-> x[1]]]
  BY DEF TakeFile
<1>2. /\ r \in Cleaners /\ x[1] \in Files /\ Abandoned(x[1])
      /\ scan[x[1]] \in Inventoried => x[2] \in Inventoried
  BY ClaimedFiles DEF StorageInv, BatchesInStep, Cleaners
<1>3. [step |-> FirstStep(x[2]), file |-> x[1]] \in Jobs
  BY <1>2 DEF FirstStep, Jobs, Steps
<1>4. /\ job' \in [Cleaners -> Jobs]
      /\ job'[r].file = x[1]
      /\ job'[r].step = "inspect" \/ (job'[r].step = "purge first" /\ scan[x[1]] \notin Inventoried)
      /\ \A c \in Cleaners \ {r} : job'[c] = job[c]
  BY <1>1, <1>2, <1>3, JobGiven DEF FirstStep, StorageInv
<1>5. /\ batch' \in [Reconcilers -> SUBSET (Files \X ScanStatuses)]
      /\ \A q \in Reconcilers : batch'[q] \subseteq batch[q]
  BY <1>1 DEF StorageInv, TypeOK
<1>6. StayAbandoned
  BY DEF TakeFile, StayAbandoned, StaysAbandoned, Abandoned
<1>7. TypeOK'
  BY <1>4, <1>5 DEF StorageInv, TakeFile, TypeOK
<1>8. CleanIsBacked'
  BY DEF StorageInv, TakeFile, CleanIsBacked
<1>9. LegacyAreLinked'
  BY DEF StorageInv, TakeFile, LegacyAreLinked
<1>10. RequestsInStep'
  BY DEF StorageInv, TakeFile, RequestsInStep, RequestInStep, Owns, Files
<1>11. CleanersInStep'
  <2>1. CleanerInStep(r)'
    BY <1>2, <1>4 DEF TakeFile, CleanerInStep, Abandoned
  <2>2. ASSUME NEW c \in Cleaners \ {r} PROVE CleanerInStep(c)'
    BY <1>4, <1>6, SameJob DEF StorageInv, CleanersInStep
  <2> QED
    BY <2>1, <2>2 DEF CleanersInStep
<1>12. BatchesInStep'
  BY <1>5, <1>6, BatchesGoOn DEF StorageInv
<1>13. PurgedAreEmpty'
  BY DEF StorageInv, TakeFile, PurgedAreEmpty
<1> QED
  BY <1>7, <1>8, <1>9, <1>10, <1>11, <1>12, <1>13 DEF StorageInv

(* Taking the inventory of a file.                                         *)
LEMMA InspectObjectsStep ==
  ASSUME StorageInv, NEW r \in Reconcilers, InspectObjects(r)
  PROVE  StorageInv'
<1> DEFINE f == job[r].file
<1>1. r \in Cleaners /\ f \in Files /\ Abandoned(f)
  BY DEF StorageInv, InspectObjects, CleanersInStep, CleanerInStep, Cleaners
<1>2. /\ job' \in [Cleaners -> Jobs]
      /\ faults' \in 0 .. MaxFaults
      /\ \A c \in Cleaners \ {r} : job'[c] = job[c]
      /\ \/ job'[r] = Idle
         \/ /\ job'[r].file = f
            /\ \/ job'[r].step \in {"mark retained", "mark retry"}
               \/ job'[r].step = "mark purged" /\ objects[f] = {}
  <2>1. CASE Fault /\ Finish(r)
    BY <1>1, <2>1, JobFinished, FaultCounted DEF StorageInv
  <2>2. CASE /\ \E step : /\ Continue(r, step)
                          /\ \/ step \in {"mark retained", "mark retry"}
                             \/ step = "mark purged" /\ objects[f] = {}
             /\ NoFault
    BY <1>1, <2>2, JobContinued, FaultCounted DEF StorageInv, Steps
  <2> QED
    BY <2>1, <2>2 DEF InspectObjects
<1>3. StayAbandoned
  BY DEF InspectObjects, StayAbandoned, StaysAbandoned, Abandoned
<1>4. TypeOK'
  BY <1>2 DEF StorageInv, InspectObjects, TypeOK
<1>5. CleanIsBacked'
  BY DEF StorageInv, InspectObjects, CleanIsBacked
<1>6. LegacyAreLinked'
  BY DEF StorageInv, InspectObjects, LegacyAreLinked
<1>7. RequestsInStep'
  BY DEF StorageInv, InspectObjects, RequestsInStep, RequestInStep, Owns, Files
<1>8. CleanersInStep'
  <2>1. CleanerInStep(r)'
    BY <1>1, <1>2, NewJob DEF InspectObjects, CleanerInStep, Abandoned
  <2>2. ASSUME NEW c \in Cleaners \ {r} PROVE CleanerInStep(c)'
    BY <1>2, <1>3, SameJob DEF StorageInv, CleanersInStep
  <2> QED
    BY <2>1, <2>2 DEF CleanersInStep
<1>9. BatchesInStep'
  BY <1>3, BatchesGoOn DEF StorageInv, InspectObjects
<1>10. PurgedAreEmpty'
  BY DEF StorageInv, InspectObjects, PurgedAreEmpty
<1> QED
  BY <1>4, <1>5, <1>6, <1>7, <1>8, <1>9, <1>10 DEF StorageInv

(* The end of a run.                                                       *)
LEMMA EndRunStep ==
  ASSUME StorageInv, NEW r \in Reconcilers, EndRun(r)
  PROVE  StorageInv'
<1>1. PICK old \in SUBSET {f \in Files : row[f].state = "PURGED"} :
        row' = [f \in Files |-> IF f \in old THEN [NoRow EXCEPT !.state = "DELETED",
                                                               !.linked = row[f].linked]
                                ELSE row[f]]
  BY DEF EndRun
<1>2. row \in [Files -> LeasedReservations]
  BY RowsLeased DEF StorageInv
<1>3. ASSUME NEW f \in Files
      PROVE  LET q == [NoRow EXCEPT !.state = "DELETED", !.linked = row[f].linked]
             IN  q \in LeasedReservations /\ q.state = "DELETED" /\ q.linked = row[f].linked
  BY <1>2 DEF LeasedReservations, Reservations, Leased, NoRow, OpenStates, SettledStates
<1>4. /\ row' \in [Files -> LeasedReservations]
      /\ \A f \in Files : row'[f] = row[f]
           \/ /\ row[f].state = "PURGED" /\ row'[f].state = "DELETED"
              /\ row'[f].linked = row[f].linked
  BY <1>1, <1>2, <1>3
<1>5. running' \in SUBSET Reconcilers
  BY DEF EndRun, StorageInv, TypeOK
<1>6. StayAbandoned
  BY <1>4 DEF EndRun, StayAbandoned, StaysAbandoned, Abandoned
<1>7. TypeOK'
  BY <1>4, <1>5, RowsLeased DEF StorageInv, EndRun, TypeOK
<1>8. CleanIsBacked'
  BY <1>4 DEF StorageInv, EndRun, CleanIsBacked
<1>9. LegacyAreLinked'
  BY <1>4 DEF StorageInv, EndRun, LegacyAreLinked
<1>10. RequestsInStep'
  BY <1>4 DEF StorageInv, EndRun, RequestsInStep, RequestInStep, Owns, Files
<1>11. CleanersInStep'
  BY <1>6, CleanersGoOn DEF StorageInv, EndRun
<1>12. BatchesInStep'
  BY <1>6, BatchesGoOn DEF StorageInv, EndRun
<1>13. PurgedAreEmpty'
  BY <1>4 DEF StorageInv, EndRun, PurgedAreEmpty
<1> QED
  BY <1>7, <1>8, <1>9, <1>10, <1>11, <1>12, <1>13 DEF StorageInv

(* A request dies.                                                         *)
LEMMA CrashRequestStep ==
  ASSUME StorageInv, NEW u \in Uploads, CrashRequest(u)
  PROVE  StorageInv'
<1>1. u \in Cleaners
  BY DEF Cleaners
<1>2. /\ request' \in [Uploads -> Requests]
      /\ \A v \in Uploads : request'[v] = request[v] \/ request'[v] = "done"
      /\ job' \in [Cleaners -> Jobs]
      /\ \A c \in Cleaners : job'[c] = job[c] \/ job'[c] = Idle
      /\ faults' \in 0 .. MaxFaults
  BY <1>1, GotoMoves, JobFinished, FaultCounted DEF CrashRequest, StorageInv, Requests
<1>3. admission' \in [holder : Uploads \cup {"NONE"}, available : 0 .. Capacity]
  BY StorageAssumption DEF CrashRequest, Unlocked, StorageInv, TypeOK
<1>4. StayAbandoned
  BY DEF CrashRequest, StayAbandoned, StaysAbandoned, Abandoned
<1>5. TypeOK'
  BY <1>2, <1>3 DEF StorageInv, CrashRequest, TypeOK
<1>6. CleanIsBacked'
  BY DEF StorageInv, CrashRequest, CleanIsBacked
<1>7. LegacyAreLinked'
  BY DEF StorageInv, CrashRequest, LegacyAreLinked
<1>8. RequestsInStep'
  BY <1>2 DEF StorageInv, CrashRequest, RequestsInStep, RequestInStep, Owns, Files
<1>9. CleanersInStep'
  BY <1>2, <1>4, CleanersGoOn DEF StorageInv
<1>10. BatchesInStep'
  BY <1>4, BatchesGoOn DEF StorageInv, CrashRequest
<1>11. PurgedAreEmpty'
  BY DEF StorageInv, CrashRequest, PurgedAreEmpty
<1> QED
  BY <1>5, <1>6, <1>7, <1>8, <1>9, <1>10, <1>11 DEF StorageInv

(* A reconciler dies.                                                      *)
LEMMA CrashReconcilerStep ==
  ASSUME StorageInv, NEW r \in Reconcilers, CrashReconciler(r)
  PROVE  StorageInv'
<1>1. r \in Cleaners
  BY DEF Cleaners
<1>2. /\ job' \in [Cleaners -> Jobs]
      /\ \A c \in Cleaners : job'[c] = job[c] \/ job'[c] = Idle
      /\ faults' \in 0 .. MaxFaults
  BY <1>1, JobFinished, FaultCounted DEF CrashReconciler, StorageInv
<1>3. /\ batch' \in [Reconcilers -> SUBSET (Files \X ScanStatuses)]
      /\ \A q \in Reconcilers : batch'[q] \subseteq batch[q]
      /\ running' \in SUBSET Reconcilers
  BY DEF CrashReconciler, StorageInv, TypeOK
<1>4. StayAbandoned
  BY DEF CrashReconciler, StayAbandoned, StaysAbandoned, Abandoned
<1>5. TypeOK'
  BY <1>2, <1>3 DEF StorageInv, CrashReconciler, TypeOK
<1>6. CleanIsBacked'
  BY DEF StorageInv, CrashReconciler, CleanIsBacked
<1>7. LegacyAreLinked'
  BY DEF StorageInv, CrashReconciler, LegacyAreLinked
<1>8. RequestsInStep'
  BY DEF StorageInv, CrashReconciler, RequestsInStep, RequestInStep, Owns, Files
<1>9. CleanersInStep'
  BY <1>2, <1>4, CleanersGoOn DEF StorageInv
<1>10. BatchesInStep'
  BY <1>3, <1>4, BatchesGoOn DEF StorageInv
<1>11. PurgedAreEmpty'
  BY DEF StorageInv, CrashReconciler, PurgedAreEmpty
<1> QED
  BY <1>5, <1>6, <1>7, <1>8, <1>9, <1>10, <1>11 DEF StorageInv

-----------------------------------------------------------------------------
(* The theorems.                                                           *)

(* The invariant holds of files just found and requests just made.         *)
LEMMA InitInv ==
  Init => StorageInv
<1> SUFFICES ASSUME Init PROVE StorageInv
  OBVIOUS
<1>1. \A f \in Files : BackfilledRow(scan[f]) \in LeasedReservations
  BY DEF BackfilledRow, NoRow, LeasedReservations, Reservations, Leased, OpenStates, SettledStates
<1>2. row \in [Files -> LeasedReservations]
  BY <1>1 DEF Init
<1>3. \A f \in Files : Leased(row[f]) /\ row[f] \in Reservations
  BY <1>2 DEF LeasedReservations
<1>4. TypeOK
  BY <1>2, <1>3, StorageAssumption DEF Init, TypeOK, Unlocked, Idle, Jobs, Steps, Requests
<1>5. \A f \in Files : /\ scan[f] = "NONE" => row[f] = NoRow
                       /\ scan[f] = "CLEAN" => row[f].state = "RETAINED"
                       /\ row[f].state \notin {"PURGED", "DELETED"}
                       /\ scan[f] # "NONE" => row[f].linked
  BY DEF Init, BackfilledRow, NoRow
<1>6. CleanIsBacked /\ LegacyAreLinked /\ PurgedAreEmpty
  BY <1>5 DEF Init, CleanIsBacked, LegacyAreLinked, PurgedAreEmpty, Files
<1>7. RequestsInStep
  BY <1>5 DEF Init, RequestsInStep, RequestInStep, Files, NoRow
<1>8. CleanersInStep
  BY DEF Init, CleanersInStep, CleanerInStep, Idle
<1>9. BatchesInStep
  BY DEF Init, BatchesInStep
<1> QED
  BY <1>4, <1>6, <1>7, <1>8, <1>9 DEF StorageInv

(* Every step preserves the invariant.                                     *)
LEMMA NextInv ==
  ASSUME StorageInv, [Next]_storageVars
  PROVE  StorageInv'
<1>1. ASSUME NEW u \in Uploads, Upload(u) PROVE StorageInv'
  <2>1. CASE Heartbeat(u, "heartbeat", "scan") \/ Heartbeat(u, "heartbeat again", "commit")
    BY <2>1, HeartbeatStep
  <2> QED
    BY <1>1, <2>1, BeginAdmissionStep, FinishAdmissionStep, UploadFileStep, RecordPendingStep,
       ScanFileStep, PromoteFileStep, CommitCleanStep, SettleCommitStep, RecordRefusalStep
       DEF Upload
<1>2. ASSUME NEW c \in Cleaners, Clean(c) PROVE StorageInv'
  BY <1>2, PurgeObjectStep, MarkReservationStep DEF Clean
<1>3. ASSUME NEW u \in Uploads, ClaimRelease(u) \/ Clean(u) \/ CrashRequest(u) PROVE StorageInv'
  BY <1>2, <1>3, ClaimReleaseStep, CrashRequestStep DEF Cleaners
<1>4. ASSUME NEW r \in Reconcilers, Reconcile(r) \/ CrashReconciler(r) PROVE StorageInv'
  BY <1>2, <1>4, StartRunStep, TakeFileStep, InspectObjectsStep, EndRunStep,
     CrashReconcilerStep DEF Reconcile, Cleaners
<1>5. ASSUME NEW f \in Files, ExpireLease(f) PROVE StorageInv'
  BY <1>5, ExpireLeaseStep
<1>6. CASE UNCHANGED storageVars
  BY <1>6 DEF storageVars, StorageInv, TypeOK, CleanIsBacked, LegacyAreLinked, RequestsInStep, RequestInStep,
     Owns, CleanersInStep, CleanerInStep, BatchesInStep, Abandoned, PurgedAreEmpty
<1> QED
  BY <1>1, <1>3, <1>4, <1>5, <1>6 DEF Next

(* The inductive invariant holds in every reachable state.                 *)
THEOREM StorageInvariant ==
  Spec => []StorageInv
<1> QED
  BY InitInv, NextInv, PTL DEF Spec

(* Every reachable state is well typed, and every open reservation has a   *)
(* lease by which a reconciler will find it.                               *)
THEOREM StorageTyped ==
  Spec => []TypeOK
<1>1. StorageInv => TypeOK
  BY DEF StorageInv
<1> QED
  BY <1>1, StorageInvariant, PTL

(* A clean attachment always has its bytes and its retained reservation,   *)
(* whatever the cleaners are doing.                                        *)
THEOREM CleanBacked ==
  Spec => []CleanIsBacked
<1>1. StorageInv => CleanIsBacked
  BY DEF StorageInv
<1> QED
  BY <1>1, StorageInvariant, PTL

(* An attached reservation reported purged has no bytes left.              *)
THEOREM PurgedEmpty ==
  Spec => []PurgedLeaveNoBytes
<1>1. StorageInv => PurgedLeaveNoBytes
  BY DEF StorageInv, PurgedAreEmpty, PurgedLeaveNoBytes, Stranded, Stored
<1> QED
  BY <1>1, StorageInvariant, PTL

-----------------------------------------------------------------------------
(* What no step may do.                                                    *)

(* The bytes of inventoried files: only the requests of files without a    *)
(* verdict write, and cleaners purge nothing of the inventory.             *)
LEMMA BytesStay ==
  ASSUME StorageInv, [Next]_storageVars, NEW f \in Files, scan[f] \in Inventoried
  PROVE  objects'[f] = objects[f]
<1>1. ASSUME NEW u \in Uploads, UploadFile(u) PROVE objects'[f] = objects[f]
  <2>1. scan[u] = "NONE"
    BY <1>1 DEF StorageInv, RequestsInStep, RequestInStep, UploadFile
  <2> QED
    BY <1>1, <2>1 DEF UploadFile, StorageInv, TypeOK, Inventoried
<1>2. ASSUME NEW u \in Uploads, PromoteFile(u) PROVE objects'[f] = objects[f]
  <2>1. scan[u] = "PENDING_SCAN"
    BY <1>2 DEF StorageInv, RequestsInStep, RequestInStep, PromoteFile
  <2> QED
    BY <1>2, <2>1 DEF PromoteFile, StorageInv, TypeOK, Inventoried
<1>3. ASSUME NEW c \in Cleaners, PurgeObject(c) PROVE objects'[f] = objects[f]
  <2>1. scan[job[c].file] \notin Inventoried
    BY <1>3 DEF StorageInv, CleanersInStep, CleanerInStep, PurgeObject
  <2> QED
    BY <1>3, <2>1 DEF PurgeObject, StorageInv, TypeOK
<1>4. ASSUME NEW u \in Uploads, Upload(u) PROVE objects'[f] = objects[f]
  BY <1>1, <1>2, <1>4 DEF Upload, BeginAdmission, FinishAdmission, RecordPending, Heartbeat,
     ScanFile, CommitClean, SettleCommit, RecordRefusal
<1>5. ASSUME NEW u \in Uploads, ClaimRelease(u) \/ Clean(u) \/ CrashRequest(u)
      PROVE  objects'[f] = objects[f]
  BY <1>3, <1>5 DEF Clean, ClaimRelease, MarkReservation, CrashRequest, Cleaners
<1>6. ASSUME NEW r \in Reconcilers, Reconcile(r) \/ CrashReconciler(r)
      PROVE  objects'[f] = objects[f]
  BY <1>3, <1>6 DEF Reconcile, Clean, StartRun, TakeFile, InspectObjects, MarkReservation, EndRun,
     CrashReconciler, Cleaners
<1> QED
  BY <1>4, <1>5, <1>6 DEF Next, ExpireLease, storageVars

(* No step removes or changes the bytes of a clean or legacy attachment.   *)
THEOREM HistoryKept ==
  Spec => HistoryBytesStay
<1>1. StorageInv /\ [Next]_storageVars =>
        [\A f \in Files : scan[f] \in Inventoried => objects'[f] = objects[f]]_storageVars
  BY BytesStay
<1> QED
  BY <1>1, StorageInvariant, PTL DEF Spec, HistoryBytesStay

(* Verdicts: only requests write them, and only over a pending one.        *)
LEMMA VerdictStays ==
  ASSUME StorageInv, [Next]_storageVars, NEW f \in Files,
         scan[f] \in {"CLEAN", "REFUSED", "LEGACY_UNSCANNED"}
  PROVE  scan'[f] = scan[f]
<1>1. ASSUME NEW u \in Uploads, RecordPending(u) PROVE scan'[f] = scan[f]
  <2>1. scan[u] = "NONE"
    BY <1>1 DEF StorageInv, RequestsInStep, RequestInStep, RecordPending
  <2> QED
    BY <1>1, <2>1 DEF RecordPending, StorageInv, TypeOK
<1>2. ASSUME NEW u \in Uploads, CommitClean(u) PROVE scan'[f] = scan[f]
  <2>1. scan[u] = "PENDING_SCAN"
    BY <1>2 DEF StorageInv, RequestsInStep, RequestInStep, CommitClean
  <2> QED
    BY <1>2, <2>1 DEF CommitClean, Retain, StorageInv, TypeOK
<1>3. ASSUME NEW u \in Uploads, SettleCommit(u) \/ RecordRefusal(u) PROVE scan'[f] = scan[f]
  BY <1>3 DEF SettleCommit, RecordRefusal, StorageInv, TypeOK
<1>4. ASSUME NEW u \in Uploads, Upload(u) PROVE scan'[f] = scan[f]
  BY <1>1, <1>2, <1>3, <1>4 DEF Upload, BeginAdmission, FinishAdmission, UploadFile, Heartbeat,
     ScanFile, PromoteFile
<1>5. ASSUME NEW u \in Uploads, ClaimRelease(u) \/ Clean(u) \/ CrashRequest(u)
      PROVE  scan'[f] = scan[f]
  BY <1>5 DEF Clean, ClaimRelease, PurgeObject, MarkReservation, CrashRequest
<1>6. ASSUME NEW r \in Reconcilers, Reconcile(r) \/ CrashReconciler(r)
      PROVE  scan'[f] = scan[f]
  BY <1>6 DEF Reconcile, Clean, StartRun, TakeFile, InspectObjects, PurgeObject, MarkReservation,
     EndRun, CrashReconciler
<1> QED
  BY <1>4, <1>5, <1>6 DEF Next, ExpireLease, storageVars

(* Settled rows: admission writes rows that were not there, requests their *)
(* own open ones, cleaners those they hold a claim on.                     *)
LEMMA SettledStays ==
  ASSUME StorageInv, [Next]_storageVars, NEW f \in Files, row[f].state \in SettledStates
  PROVE  row'[f] = row[f] \/ (row[f].state = "PURGED" /\ row'[f].state = "DELETED")
<1> USE DEF SettledStates
<1>1. ASSUME NEW u \in Uploads, FinishAdmission(u) PROVE row'[f] = row[f]
  <2>1. row[u].state = "NONE"
    BY <1>1 DEF StorageInv, RequestsInStep, RequestInStep, FinishAdmission
  <2> QED
    BY <1>1, <2>1 DEF FinishAdmission, StorageInv, TypeOK
<1>2. ASSUME NEW u \in Uploads, Upload(u) PROVE row'[f] = row[f]
  <2>1. ASSUME Owns(u) PROVE u # f
    BY <2>1 DEF Owns
  <2>2. ASSUME NEW place, NEW next, Heartbeat(u, place, next) PROVE row'[f] = row[f]
    BY <2>1, <2>2 DEF Heartbeat, StorageInv, TypeOK
  <2>3. ASSUME RecordPending(u) \/ CommitClean(u) PROVE row'[f] = row[f]
    BY <2>1, <2>3 DEF RecordPending, CommitClean, Retain, StorageInv, TypeOK
  <2> QED
    BY <1>1, <1>2, <2>2, <2>3 DEF Upload, BeginAdmission, UploadFile, ScanFile, PromoteFile,
       SettleCommit, RecordRefusal
<1>3. ASSUME NEW c \in Cleaners, Clean(c) PROVE row'[f] = row[f]
  BY <1>3 DEF Clean, PurgeObject, MarkReservation, ClaimedBy, StorageInv, TypeOK
<1>4. ASSUME NEW u \in Uploads, ClaimRelease(u) \/ CrashRequest(u) PROVE row'[f] = row[f]
  BY <1>4 DEF ClaimRelease, CrashRequest, StorageInv, TypeOK
<1>5. ASSUME NEW r \in Reconcilers, StartRun(r) PROVE row'[f] = row[f]
  BY <1>5 DEF StartRun, OpenStates
<1>6. ASSUME NEW r \in Reconcilers, EndRun(r)
      PROVE  row'[f] = row[f] \/ (row[f].state = "PURGED" /\ row'[f].state = "DELETED")
  BY <1>6 DEF EndRun, NoRow
<1>7. ASSUME NEW r \in Reconcilers, TakeFile(r) \/ InspectObjects(r) \/ CrashReconciler(r)
      PROVE  row'[f] = row[f]
  BY <1>7 DEF TakeFile, InspectObjects, CrashReconciler
<1>8. ASSUME NEW g \in Files, ExpireLease(g) PROVE row'[f] = row[f]
  <2>1. row[f].lease = "NONE"
    BY RowsLeased DEF StorageInv, LeasedReservations, Leased, OpenStates
  <2> QED
    BY <1>8, <2>1 DEF ExpireLease, StorageInv, TypeOK
<1>9. CASE UNCHANGED storageVars
  BY <1>9 DEF storageVars
<1> QED
  BY <1>2, <1>3, <1>4, <1>5, <1>6, <1>7, <1>8, <1>9 DEF Next, Reconcile, Cleaners

(* No step rewrites a decided scan status or reopens a settled             *)
(* reservation.                                                            *)
THEOREM EndsFinal ==
  Spec => EndsAreFinal
<1>1. StorageInv /\ [Next]_storageVars =>
        [\A f \in Files :
           /\ scan[f] \in {"CLEAN", "REFUSED", "LEGACY_UNSCANNED"} => scan'[f] = scan[f]
           /\ row[f].state \in {"RETAINED", "DELETED"} => row'[f] = row[f]
           /\ row[f].state = "PURGED" => row'[f].state \in {"PURGED", "DELETED"}]_storageVars
  <2> SUFFICES ASSUME StorageInv, [Next]_storageVars, NEW f \in Files
               PROVE  /\ scan[f] \in {"CLEAN", "REFUSED", "LEGACY_UNSCANNED"} => scan'[f] = scan[f]
                      /\ row[f].state \in {"RETAINED", "DELETED"} => row'[f] = row[f]
                      /\ row[f].state = "PURGED" => row'[f].state \in {"PURGED", "DELETED"}
    OBVIOUS
  <2>1. scan[f] \in {"CLEAN", "REFUSED", "LEGACY_UNSCANNED"} => scan'[f] = scan[f]
    BY VerdictStays
  <2>2. row[f].state \in SettledStates =>
          row'[f] = row[f] \/ (row[f].state = "PURGED" /\ row'[f].state = "DELETED")
    BY SettledStays
  <2> QED
    BY <2>1, <2>2 DEF SettledStates
<1> QED
  BY <1>1, StorageInvariant, PTL DEF Spec, EndsAreFinal

-----------------------------------------------------------------------------
(* What is counted at an admission.                                        *)

(* Where the bytes are: under one key of an upload that was admitted, and  *)
(* nobody retains an upload but its own commit.                            *)
BytesInPlace ==
  /\ \A f \in Files : objects[f] # {} => row[f].state # "NONE"
  /\ \A u \in Uploads :
       /\ objects[u] \in {{}, {"quarantine"}, {"clean"}}
       /\ request[u] \in {"start", "admission", "upload"} => objects[u] = {}
       /\ request[u] = "upload" => row[u].state # "NONE"
       /\ row[u].state = "RETAINED" => scan[u] = "CLEAN"
  /\ \A c \in Cleaners : job[c].step \in {"inspect", "mark retained"} => job[c].file \in Legacy
  /\ \A r \in Reconcilers : \A x \in batch[r] : x[2] \in Inventoried => x[1] \in Legacy

(* The objects that stay whatever becomes of the open reservations, and    *)
(* these with one object for every upload that has one.                    *)
Kept == {x \in Stored : x[1] \in Legacy}
          \cup {<<u, "clean">> : u \in {v \in Uploads : row[v].state = "RETAINED"}}

Occupied == Kept \cup {<<u, "quarantine">> : u \in {v \in Uploads : row[v].state \in OpenStates}}

Admitted == \E u \in Uploads : row[u].state \in QuotaStates

(* Once an upload has been admitted, what counts is within the quota and   *)
(* fits on the disk; and so it will with any upload that the space read at *)
(* an admission lets in.                                                   *)
RoomKept ==
  /\ Admitted => Counted(QuotaStates) <= Quota /\ Cardinality(Occupied) <= Capacity
  /\ admission.available > 0 => Cardinality(Kept) + admission.available <= Capacity

(* Rows move forward: a reservation is made by an admission, retained for  *)
(* an upload by its own commit only, and else stays open, is purged or,    *)
(* purged already, deleted.                                                *)
RowStep(f) ==
  \/ row'[f].state = row[f].state
  \/ row[f].state \in OpenStates /\ row'[f].state \in OpenStates \cup {"PURGED"}
  \/ row[f].state = "PURGED" /\ row'[f].state = "DELETED"
  \/ f \in Legacy /\ row[f].state \in OpenStates /\ row'[f].state = "RETAINED"
  \/ f \in Uploads /\ CommitClean(f) /\ Owns(f) /\ admission = Unlocked /\ Retain(f)
  \/ f \in Uploads /\ FinishAdmission(f) /\ row[f].state = "NONE" /\ row'[f].state = "RESERVED"

(* A request writes the row of its own file only.                          *)
LEMMA UploadRows ==
  ASSUME StorageInv, NEW u \in Uploads, Upload(u), NEW f \in Files
  PROVE  RowStep(f)
<1>1. row \in [Files -> Reservations] /\ u \in Files
  BY DEF StorageInv, TypeOK, Files
<1>2. CASE FinishAdmission(u)
  <2>1. row[u].state = "NONE"
    BY <1>2 DEF StorageInv, RequestsInStep, RequestInStep, FinishAdmission
  <2>2. row' = row \/ row' = [row EXCEPT ![u] = [state |-> "RESERVED", owner |-> "REQUEST",
                                        lease |-> "RUNNING", linked |-> FALSE]]
    BY <1>2 DEF FinishAdmission
  <2> QED
    BY <1>1, <1>2, <2>1, <2>2 DEF RowStep
<1>3. ASSUME NEW place, NEW next, Heartbeat(u, place, next) PROVE RowStep(f)
  <2>1. row' = row \/ row' = [row EXCEPT ![u].lease = "RUNNING"]
    BY <1>3 DEF Heartbeat
  <2> QED
    BY <1>1, <2>1 DEF RowStep, Reservations
<1>4. CASE RecordPending(u)
  <2>1. row' = row \/ row' = [row EXCEPT ![u].linked = TRUE]
    BY <1>4 DEF RecordPending
  <2> QED
    BY <1>1, <2>1 DEF RowStep, Reservations
<1>5. CASE CommitClean(u)
  <2>1. row' = row \/ (Owns(u) /\ admission = Unlocked /\ Retain(u))
    BY <1>5 DEF CommitClean
  <2>2. CASE f = u
    BY <1>5, <2>1, <2>2 DEF RowStep
  <2>3. CASE f # u
    BY <1>1, <2>1, <2>3 DEF RowStep, Retain
  <2> QED
    BY <2>2, <2>3
<1>6. CASE UNCHANGED row
  BY <1>6 DEF RowStep
<1> QED
  BY <1>2, <1>3, <1>4, <1>5, <1>6 DEF Upload, BeginAdmission, UploadFile, ScanFile, PromoteFile,
     SettleCommit, RecordRefusal

(* A cleaner retains no upload.                                            *)
LEMMA CleanRows ==
  ASSUME StorageInv, BytesInPlace, NEW c \in Cleaners, Clean(c), NEW f \in Files
  PROVE  RowStep(f)
<1>1. row \in [Files -> Reservations]
  BY DEF StorageInv, TypeOK
<1>2. CASE PurgeObject(c)
  BY <1>2 DEF PurgeObject, RowStep
<1>3. CASE MarkReservation(c)
  <2> DEFINE g == job[c].file
             q == Marked(job[c].step, row[g])
  <2>1. row' = row \/ (row[g].state = "PURGING" /\ row' = [row EXCEPT ![g] = q])
    <3>1. row' = [row EXCEPT ![g] = IF ClaimedBy(c, g) THEN q ELSE row[g]] \/ row' = row
      BY <1>1, <1>3 DEF MarkReservation
    <3> QED
      BY <1>1, <3>1 DEF ClaimedBy
  <2>2. job[c].step \in {"mark purged", "mark retained", "mark retry"}
          /\ (job[c].step = "mark retained" => g \in Legacy)
    BY <1>3 DEF MarkReservation, BytesInPlace
  <2>3. ASSUME f = g, row[g].state = "PURGING", row' = [row EXCEPT ![g] = q]
        PROVE  RowStep(f)
    <3>1. row'[f] = q /\ row[f] \in Reservations
      BY <1>1, <2>3
    <3>2. q.state \in {"PURGED", "RECONCILIATION_REQUIRED"}
            \/ (q.state = "RETAINED" /\ g \in Legacy)
      BY <2>2, <2>3, <3>1 DEF Marked, Reservations
    <3> HIDE DEF q, g
    <3> QED
      BY <2>3, <3>1, <3>2 DEF RowStep, OpenStates
  <2>4. ASSUME f # g \/ row' = row PROVE RowStep(f)
    BY <1>1, <2>1, <2>4 DEF RowStep
  <2> QED
    BY <2>1, <2>3, <2>4
<1> QED
  BY <1>2, <1>3 DEF Clean

(* What else happens to the rows.                                          *)
LEMMA OtherRows ==
  ASSUME StorageInv, NEW f \in Files,
         \/ \E u \in Uploads : ClaimRelease(u) \/ CrashRequest(u)
         \/ \E r \in Reconcilers : StartRun(r) \/ TakeFile(r) \/ InspectObjects(r) \/ EndRun(r)
                                     \/ CrashReconciler(r)
         \/ \E g \in Files : ExpireLease(g)
         \/ UNCHANGED storageVars
  PROVE  RowStep(f)
<1>1. row \in [Files -> Reservations] /\ Uploads \subseteq Files
  BY DEF StorageInv, TypeOK, Files
<1>2. ASSUME NEW u \in Uploads, ClaimRelease(u) PROVE RowStep(f)
  <2>1. row' = row \/ (row[u].state \in OpenStates /\ row' = [row EXCEPT ![u] = Claimed(row[u], u)])
    BY <1>1, <1>2 DEF ClaimRelease, OpenStates
  <2>2. row[u] \in Reservations /\ Claimed(row[u], u).state = "PURGING"
    BY <1>1 DEF Claimed, Reservations
  <2> QED
    BY <1>1, <2>1, <2>2 DEF RowStep, OpenStates
<1>3. ASSUME NEW r \in Reconcilers, StartRun(r) PROVE RowStep(f)
  <2> DEFINE expired == {g \in Files : row[g].state \in OpenStates /\ row[g].lease = "EXPIRED"}
  <2>1. row'[f] = IF f \in expired THEN Claimed(row[f], r) ELSE row[f]
    BY <1>3 DEF StartRun
  <2>2. Claimed(row[f], r).state = "PURGING"
    BY <1>1 DEF Claimed, Reservations
  <2> QED
    BY <2>1, <2>2 DEF RowStep, OpenStates
<1>4. ASSUME NEW r \in Reconcilers, EndRun(r) PROVE RowStep(f)
  <2>1. PICK old \in SUBSET {g \in Files : row[g].state = "PURGED"} :
          row' = [g \in Files |-> IF g \in old THEN [NoRow EXCEPT !.state = "DELETED",
                                                       !.linked = row[g].linked]
                                  ELSE row[g]]
    BY <1>4 DEF EndRun
  <2>2. row'[f] = row[f] \/ (row[f].state = "PURGED" /\ row'[f].state = "DELETED")
    BY <2>1 DEF NoRow
  <2> QED
    BY <2>2 DEF RowStep
<1>5. ASSUME NEW g \in Files, ExpireLease(g) PROVE RowStep(f)
  <2>1. row' = [row EXCEPT ![g].lease = "EXPIRED"]
    BY <1>5 DEF ExpireLease
  <2> QED
    BY <1>1, <2>1 DEF RowStep, Reservations
<1>6. CASE UNCHANGED row
  BY <1>6 DEF RowStep
<1> QED
  BY <1>2, <1>3, <1>4, <1>5, <1>6 DEF CrashRequest, TakeFile, InspectObjects, CrashReconciler,
     storageVars

(* Every step moves every row forward.                                     *)
LEMMA RowSteps ==
  ASSUME StorageInv, BytesInPlace, [Next]_storageVars, NEW f \in Files
  PROVE  RowStep(f)
BY UploadRows, CleanRows, OtherRows DEF Next, Reconcile, Cleaners

(* Only the request of an upload adds a key to its file: its upload the    *)
(* quarantine key, and its promotion the clean key in place of that one.   *)
ObjectsStep(f) ==
  \/ objects'[f] \subseteq objects[f]
  \/ f \in Uploads /\ UploadFile(f) /\ objects'[f] = objects[f] \cup {"quarantine"}
  \/ f \in Uploads /\ PromoteFile(f) /\ "quarantine" \in objects[f] /\ objects'[f] = {"clean"}

(* Every step keeps to that.                                               *)
LEMMA ObjectsSteps ==
  ASSUME StorageInv, [Next]_storageVars, NEW f \in Files
  PROVE  ObjectsStep(f)
<1>1. objects \in [Files -> SUBSET Keys] /\ Uploads \subseteq Files
  BY DEF StorageInv, TypeOK, Files
<1>2. ASSUME NEW u \in Uploads, UploadFile(u) PROVE ObjectsStep(f)
  <2>1. objects' = objects \/ objects' = [objects EXCEPT ![u] = objects[u] \cup {"quarantine"}]
    BY <1>2 DEF UploadFile
  <2> QED
    BY <1>1, <1>2, <2>1 DEF ObjectsStep
<1>3. ASSUME NEW u \in Uploads, PromoteFile(u) PROVE ObjectsStep(f)
  <2>1. objects' = objects
          \/ ("quarantine" \in objects[u] /\ objects' = [objects EXCEPT ![u] = {"clean"}])
    BY <1>3 DEF PromoteFile
  <2> QED
    BY <1>1, <1>3, <2>1 DEF ObjectsStep
<1>4. ASSUME NEW c \in Cleaners, PurgeObject(c) PROVE ObjectsStep(f)
  <2>1. objects' = objects
          \/ objects' = [objects EXCEPT ![job[c].file] = objects[job[c].file] \ {PurgeKey(job[c].step)}]
    BY <1>4 DEF PurgeObject
  <2> QED
    BY <1>1, <2>1 DEF ObjectsStep
<1>5. CASE UNCHANGED objects
  BY <1>5 DEF ObjectsStep
<1>6. ASSUME NEW u \in Uploads, Upload(u) PROVE ObjectsStep(f)
  BY <1>2, <1>3, <1>5, <1>6 DEF Upload, BeginAdmission, FinishAdmission, RecordPending, Heartbeat,
     ScanFile, CommitClean, SettleCommit, RecordRefusal
<1>7. ASSUME NEW u \in Uploads, ClaimRelease(u) \/ Clean(u) \/ CrashRequest(u)
      PROVE  ObjectsStep(f)
  BY <1>4, <1>5, <1>7 DEF Clean, ClaimRelease, MarkReservation, CrashRequest, Cleaners
<1>8. ASSUME NEW r \in Reconcilers, Reconcile(r) \/ CrashReconciler(r)
      PROVE  ObjectsStep(f)
  BY <1>4, <1>5, <1>8 DEF Reconcile, Clean, StartRun, TakeFile, InspectObjects, MarkReservation,
     EndRun, CrashReconciler, Cleaners
<1> QED
  BY <1>5, <1>6, <1>7, <1>8 DEF Next, ExpireLease, storageVars

(* A request that has yet to write has just begun its admission, has just  *)
(* been admitted, or stands where it stood.                                *)
LEMMA RequestSteps ==
  ASSUME StorageInv, [Next]_storageVars, NEW u \in Uploads,
         request'[u] \in {"start", "admission", "upload"}
  PROVE  /\ request[u] \in {"start", "admission", "upload"}
         /\ ~UploadFile(u) /\ ~PromoteFile(u)
         /\ request'[u] = "upload" => request[u] = "upload" \/ row'[u].state = "RESERVED"
<1>1. request \in [Uploads -> Requests] /\ row \in [Files -> Reservations] /\ u \in Files
  BY DEF StorageInv, TypeOK, Files
<1>2. ASSUME UploadFile(u) \/ PromoteFile(u) PROVE FALSE
  BY <1>1, <1>2 DEF UploadFile, PromoteFile, ReleaseAnd, Goto
<1>3. ASSUME NEW v \in Uploads, NEW place, Goto(v, place), v # u PROVE request'[u] = request[u]
  BY <1>1, <1>3 DEF Goto
<1>4. ASSUME NEW place, Goto(u, place) PROVE place \in {"start", "admission", "upload"}
  BY <1>1, <1>4 DEF Goto
<1>5. ASSUME NEW v \in Uploads, Upload(v), v # u PROVE request'[u] = request[u]
  <2>1. \E place : Goto(v, place)
    BY <1>5 DEF Upload, BeginAdmission, FinishAdmission, UploadFile, RecordPending, Heartbeat,
       ScanFile, PromoteFile, CommitClean, SettleCommit, RecordRefusal, ReleaseAnd
  <2> QED
    BY <1>3, <1>5, <2>1
<1>6. CASE Upload(u)
  <2>1. CASE BeginAdmission(u)
    BY <1>1, <1>2, <2>1 DEF BeginAdmission, Goto
  <2>2. CASE FinishAdmission(u)
    <3>1. row' = [row EXCEPT ![u] = [state |-> "RESERVED", owner |-> "REQUEST",
                                        lease |-> "RUNNING", linked |-> FALSE]]
            \/ Goto(u, "done")
      BY <2>2 DEF FinishAdmission
    <3>2. row'[u].state = "RESERVED"
      BY <1>1, <1>4, <3>1
    <3> QED
      BY <1>2, <2>2, <3>2 DEF FinishAdmission
  <2>3. CASE RecordPending(u) \/ ScanFile(u) \/ CommitClean(u) \/ SettleCommit(u)
             \/ RecordRefusal(u)
    BY <1>4, <2>3 DEF RecordPending, ScanFile, CommitClean, SettleCommit, RecordRefusal, ReleaseAnd
  <2>4. CASE Heartbeat(u, "heartbeat", "scan")
    <3>1. Goto(u, "scan") \/ Goto(u, "done")
      BY <2>4 DEF Heartbeat
    <3> QED
      BY <1>4, <3>1
  <2>5. CASE Heartbeat(u, "heartbeat again", "commit")
    <3>1. Goto(u, "commit") \/ Goto(u, "done")
      BY <2>5 DEF Heartbeat
    <3> QED
      BY <1>4, <3>1
  <2> QED
    BY <1>2, <1>6, <2>1, <2>2, <2>3, <2>4, <2>5 DEF Upload
<1>7. ASSUME NEW v \in Uploads, CrashRequest(v) PROVE request'[u] = request[u]
  BY <1>3, <1>4, <1>7 DEF CrashRequest
<1>8. CASE request'[u] = request[u]
  BY <1>2, <1>8
<1> QED
  BY <1>5, <1>6, <1>7, <1>8 DEF Next, Reconcile, Clean, ClaimRelease, PurgeObject,
     MarkReservation, StartRun, TakeFile, InspectObjects, EndRun, CrashReconciler, ExpireLease,
     storageVars

(* Where the bytes are is preserved.                                       *)
LEMMA PlaceFiles ==
  ASSUME StorageInv, BytesInPlace, [Next]_storageVars, NEW f \in Files
  PROVE  /\ row[f].state # "NONE" => row'[f].state # "NONE"
         /\ objects'[f] # {} => row'[f].state # "NONE"
<1>1. row[f].state # "NONE" => row'[f].state # "NONE"
  <2>1. ASSUME f \in Uploads, Retain(f) PROVE row'[f].state = "RETAINED"
    BY <2>1 DEF Retain, StorageInv, TypeOK, Reservations
  <2> QED
    BY <2>1, RowSteps DEF RowStep, OpenStates
<1>2. ASSUME objects'[f] # {} PROVE row[f].state # "NONE"
  <2>1. CASE objects'[f] \subseteq objects[f]
    BY <1>2, <2>1 DEF BytesInPlace
  <2>2. CASE f \in Uploads /\ UploadFile(f)
    BY <2>2 DEF BytesInPlace, UploadFile
  <2>3. CASE f \in Uploads /\ PromoteFile(f) /\ "quarantine" \in objects[f]
    BY <2>3 DEF BytesInPlace
  <2> QED
    BY <2>1, <2>2, <2>3, ObjectsSteps DEF ObjectsStep
<1> QED
  BY <1>1, <1>2

(* So is what is said of uploads.                                          *)
LEMMA PlaceUploads ==
  ASSUME StorageInv, BytesInPlace, [Next]_storageVars, NEW u \in Uploads
  PROVE  /\ objects'[u] \in {{}, {"quarantine"}, {"clean"}}
         /\ request'[u] \in {"start", "admission", "upload"} => objects'[u] = {}
         /\ request'[u] = "upload" => row'[u].state # "NONE"
         /\ row'[u].state = "RETAINED" => scan'[u] = "CLEAN"
<1>1. u \in Files /\ u \notin Legacy
  BY StorageAssumption DEF Files
<1>2. objects'[u] \in {{}, {"quarantine"}, {"clean"}}
  <2>1. objects[u] \in {{}, {"quarantine"}, {"clean"}}
    BY DEF BytesInPlace
  <2>2. CASE UploadFile(u) /\ objects'[u] = objects[u] \cup {"quarantine"}
    <3>1. objects[u] = {}
      BY <2>2 DEF UploadFile, BytesInPlace
    <3> QED
      BY <2>2, <3>1
  <2> QED
    BY <1>1, <2>1, <2>2, ObjectsSteps DEF ObjectsStep
<1>3. request'[u] \in {"start", "admission", "upload"} => objects'[u] = {}
  BY <1>1, RequestSteps, ObjectsSteps DEF ObjectsStep, BytesInPlace
<1>4. request'[u] = "upload" => row'[u].state # "NONE"
  BY <1>1, RequestSteps, PlaceFiles DEF BytesInPlace
<1>5. ASSUME row'[u].state = "RETAINED" PROVE scan'[u] = "CLEAN"
  <2>1. CASE row[u].state = "RETAINED"
    BY <1>1, <2>1, VerdictStays DEF BytesInPlace
  <2>2. CASE Retain(u)
    BY <1>1, <2>2 DEF Retain, StorageInv, TypeOK
  <2> QED
    BY <1>1, <1>5, <2>1, <2>2, RowSteps DEF RowStep, OpenStates
<1> QED
  BY <1>2, <1>3, <1>4, <1>5

(* And of the jobs of the cleaners and the batches they come from.         *)
LEMMA PlaceJobs ==
  ASSUME StorageInv, BytesInPlace, [Next]_storageVars, NEW c \in Cleaners,
         job'[c].step \in {"inspect", "mark retained"}
  PROVE  job'[c].file \in Legacy
<1>1. /\ job \in [Cleaners -> Jobs] /\ Uploads \subseteq Cleaners /\ Reconcilers \subseteq Cleaners
      /\ job[c].step \in {"inspect", "mark retained"} => job[c].file \in Legacy
  BY DEF StorageInv, TypeOK, Cleaners, BytesInPlace
<1>2. ASSUME NEW b \in Cleaners, Finish(b) PROVE job'[c].file \in Legacy
  <2>1. Idle.step = "idle"
    BY DEF Idle
  <2> QED
    BY <1>1, <1>2, <2>1 DEF Finish
<1>3. ASSUME NEW u \in Uploads, NEW place, ReleaseAnd(u, place) PROVE job'[c].file \in Legacy
  BY <1>1, <1>3 DEF ReleaseAnd
<1>4. ASSUME NEW b \in Cleaners, NEW step, Continue(b, step),
             step \in {"inspect", "mark retained"} => job[b].step = "inspect"
      PROVE  job'[c].file \in Legacy
  <2>1. job[b] \in Jobs /\ (job[b].step = "inspect" => job[b].file \in Legacy)
    BY <1>1 DEF BytesInPlace
  <2>2. CASE c = b
    <3>1. job'[c].step = step /\ job'[c].file = job[b].file
      BY <1>1, <1>4, <2>1, <2>2 DEF Continue, Jobs
    <3> QED
      BY <1>4, <2>1, <3>1
  <2>3. CASE c # b
    BY <1>1, <1>4, <2>3 DEF Continue
  <2> QED
    BY <2>2, <2>3
<1>5. CASE UNCHANGED job
  BY <1>1, <1>5
<1>6. ASSUME NEW u \in Uploads, Upload(u) PROVE job'[c].file \in Legacy
  BY <1>3, <1>5, <1>6 DEF Upload, BeginAdmission, FinishAdmission, UploadFile, RecordPending,
     Heartbeat, ScanFile, PromoteFile, CommitClean, SettleCommit, RecordRefusal
<1>7. ASSUME NEW b \in Cleaners, Clean(b) PROVE job'[c].file \in Legacy
  <2>1. CASE PurgeObject(b)
    <3>1. Continue(b, "purge second") \/ Continue(b, "mark purged") \/ Continue(b, "mark retry")
      BY <2>1 DEF PurgeObject
    <3> QED
      BY <1>4, <3>1
  <2>2. CASE MarkReservation(b)
    BY <1>2, <2>2 DEF MarkReservation
  <2> QED
    BY <1>7, <2>1, <2>2 DEF Clean
<1>8. ASSUME NEW u \in Uploads, ClaimRelease(u) \/ CrashRequest(u) PROVE job'[c].file \in Legacy
  <2>1. CASE Finish(u)
    BY <1>1, <1>2, <2>1
  <2>2. CASE Continue(u, "purge first")
    BY <1>1, <1>4, <2>2
  <2> QED
    BY <1>8, <2>1, <2>2 DEF ClaimRelease, CrashRequest
<1>9. ASSUME NEW r \in Reconcilers, TakeFile(r) PROVE job'[c].file \in Legacy
  <2>1. PICK x \in batch[r] : job' = [job EXCEPT ![r] = [step |-> FirstStep(x[2]), file |-> x[1]]]
    BY <1>9 DEF TakeFile
  <2>2. FirstStep(x[2]) \in {"inspect", "mark retained"} => x[1] \in Legacy
    BY DEF FirstStep, BytesInPlace
  <2>3. CASE c = r
    BY <1>1, <2>1, <2>2, <2>3
  <2>4. CASE c # r
    BY <1>1, <2>1, <2>4
  <2> QED
    BY <2>3, <2>4
<1>10. ASSUME NEW r \in Reconcilers, InspectObjects(r) PROVE job'[c].file \in Legacy
  <2>1. (\E step : Continue(r, step)) \/ Finish(r)
    BY <1>10 DEF InspectObjects
  <2>2. job[r].step = "inspect"
    BY <1>10 DEF InspectObjects
  <2> QED
    BY <1>1, <1>2, <1>4, <2>1, <2>2
<1>11. ASSUME NEW r \in Reconcilers, CrashReconciler(r) PROVE job'[c].file \in Legacy
  BY <1>1, <1>2, <1>11 DEF CrashReconciler
<1> QED
  BY <1>1, <1>5, <1>6, <1>7, <1>8, <1>9, <1>10, <1>11 DEF Next, Reconcile, StartRun, EndRun,
     ExpireLease, storageVars

(* What a reconciler read of an upload never makes it an inventoried file. *)
LEMMA PlaceBatches ==
  ASSUME StorageInv, BytesInPlace, [Next]_storageVars, NEW r \in Reconcilers, NEW x \in batch'[r],
         x[2] \in Inventoried
  PROVE  x[1] \in Legacy
<1>1. batch \in [Reconcilers -> SUBSET (Files \X ScanStatuses)]
  BY DEF StorageInv, TypeOK
<1>2. CASE x \in batch[r]
  BY <1>2 DEF BytesInPlace
<1>3. CASE StartRun(r)
  <2> DEFINE expired == {f \in Files : row[f].state \in OpenStates /\ row[f].lease = "EXPIRED"}
             read(f) == IF row[f].linked THEN scan[f] ELSE "NONE"
  <2>1. batch' = [batch EXCEPT ![r] = {<<f, read(f)>> : f \in expired}]
    BY <1>3 DEF StartRun
  <2>2. PICK f \in expired : x = <<f, read(f)>>
    BY <1>1, <2>1
  <2>3. scan[f] \in Inventoried /\ row[f].state \in OpenStates /\ f \in Files
    BY <2>2 DEF Inventoried
  <2>4. scan[f] # "CLEAN"
    BY <2>3 DEF StorageInv, CleanIsBacked, OpenStates
  <2>5. f \in Legacy
    BY <2>3, <2>4 DEF StorageInv, LegacyAreLinked, Inventoried
  <2> QED
    BY <2>2, <2>5
<1>4. ASSUME NEW q \in Reconcilers, StartRun(q), q # r PROVE x \in batch[r]
  BY <1>1, <1>4 DEF StartRun
<1>5. ASSUME NEW q \in Reconcilers, TakeFile(q) \/ CrashReconciler(q) PROVE x \in batch[r]
  BY <1>1, <1>5 DEF TakeFile, CrashReconciler
<1>6. CASE UNCHANGED batch
  BY <1>2, <1>6
<1> QED
  BY <1>2, <1>3, <1>4, <1>5, <1>6 DEF Next, Upload, BeginAdmission, FinishAdmission, UploadFile,
     RecordPending, Heartbeat, ScanFile, PromoteFile, CommitClean, SettleCommit, RecordRefusal,
     ClaimRelease, CrashRequest, Reconcile, Clean, PurgeObject, MarkReservation, InspectObjects,
     EndRun, ExpireLease, storageVars

(* Every step keeps the bytes in place.                                    *)
LEMMA PlaceStep ==
  ASSUME StorageInv, BytesInPlace, [Next]_storageVars
  PROVE  BytesInPlace'
BY PlaceFiles, PlaceUploads, PlaceJobs, PlaceBatches DEF BytesInPlace

-----------------------------------------------------------------------------
(* The quota and the disk.                                                 *)

(* Whatever is counted is finite.                                          *)
LEMMA Finite ==
  /\ \A S \in SUBSET Files : IsFiniteSet(S) /\ Cardinality(S) \in Nat
  /\ \A S \in SUBSET (Files \X Keys) : IsFiniteSet(S) /\ Cardinality(S) \in Nat
<1>1. IsFiniteSet(Files)
  BY StorageAssumption, FS_Union DEF Files
<1>2. IsFiniteSet(Keys)
  <2>1. IsFiniteSet({"quarantine"} \cup {"clean"})
    BY FS_Singleton, FS_AddElement
  <2>2. Keys = {"quarantine"} \cup {"clean"}
    BY DEF Keys
  <2> QED
    BY <2>1, <2>2
<1>3. IsFiniteSet(Files \X Keys)
  BY <1>1, <1>2, FS_Product
<1> QED
  BY <1>1, <1>3, FS_Subset, FS_CardinalityType

(* What is counted is among the keys of the files.                         *)
LEMMA Places ==
  /\ Stored \in SUBSET (Files \X Keys)
  /\ Kept \in SUBSET (Files \X Keys)
  /\ Occupied \in SUBSET (Files \X Keys)
<1>1. Stored \in SUBSET (Files \X Keys)
  BY DEF Stored
<1>2. \A u \in Uploads : <<u, "clean">> \in Files \X Keys /\ <<u, "quarantine">> \in Files \X Keys
  BY DEF Files, Keys
<1>3. Kept \in SUBSET (Files \X Keys)
  BY <1>1, <1>2 DEF Kept
<1>4. Occupied \in SUBSET (Files \X Keys)
  BY <1>2, <1>3 DEF Occupied
<1> QED
  BY <1>1, <1>3, <1>4

(* The same in the next state.                                             *)
LEMMA PlacesNext ==
  /\ Stored' \in SUBSET (Files \X Keys)
  /\ Kept' \in SUBSET (Files \X Keys)
  /\ Occupied' \in SUBSET (Files \X Keys)
<1>1. Stored' \in SUBSET (Files \X Keys)
  BY DEF Stored
<1>2. \A u \in Uploads : <<u, "clean">> \in Files \X Keys /\ <<u, "quarantine">> \in Files \X Keys
  BY DEF Files, Keys
<1>3. Kept' \in SUBSET (Files \X Keys)
  BY <1>1, <1>2 DEF Kept
<1>4. Occupied' \in SUBSET (Files \X Keys)
  BY <1>2, <1>3 DEF Occupied
<1> QED
  BY <1>1, <1>3, <1>4

(* The files that count, in this state and the next.                       *)
CountedFiles(states) == {f \in Files : row[f].state \in states}

(* A step that admits nothing and retains no upload makes no less room.    *)
LEMMA NothingAdmitted ==
  ASSUME StorageInv, RoomKept,
         \A f \in Files :
           /\ row'[f].state \in QuotaStates => row[f].state \in QuotaStates
           /\ f \in Uploads => /\ row'[f].state = "RETAINED" => row[f].state = "RETAINED"
                               /\ row'[f].state \in OpenStates => row[f].state \in OpenStates
           /\ f \in Legacy => objects'[f] \subseteq objects[f]
  PROVE  /\ Admitted' => Counted(QuotaStates)' <= Quota /\ Cardinality(Occupied') <= Capacity
         /\ Kept' \subseteq Kept /\ Cardinality(Kept') <= Cardinality(Kept)
<1>1. Kept' \subseteq Kept
  <2>1. ASSUME NEW x \in Stored', x[1] \in Legacy PROVE x \in Stored
    BY <2>1 DEF Stored
  <2> QED
    BY <2>1 DEF Kept, Files
<1>2. Occupied' \subseteq Occupied
  BY <1>1 DEF Occupied, Files
<1>3. CountedFiles(QuotaStates)' \subseteq CountedFiles(QuotaStates)
  BY DEF CountedFiles
<1>4. Admitted' => Admitted
  BY DEF Admitted, Files
<1>5. /\ Cardinality(Kept') <= Cardinality(Kept)
      /\ Cardinality(Occupied') <= Cardinality(Occupied)
      /\ Cardinality(Occupied') \in Nat /\ Cardinality(Occupied) \in Nat
  BY <1>1, <1>2, Finite, Places, PlacesNext, FS_Subset
<1>6. /\ CountedFiles(QuotaStates) \in SUBSET Files /\ CountedFiles(QuotaStates)' \in SUBSET Files
      /\ Counted(QuotaStates) = Cardinality(CountedFiles(QuotaStates))
      /\ Counted(QuotaStates)' = Cardinality(CountedFiles(QuotaStates)')
  BY DEF CountedFiles, Counted
<1>7. /\ Counted(QuotaStates)' <= Counted(QuotaStates)
      /\ Counted(QuotaStates)' \in Nat /\ Counted(QuotaStates) \in Nat
  BY <1>3, <1>6, Finite, FS_Subset
<1> QED
  BY <1>1, <1>4, <1>5, <1>7, StorageAssumption DEF RoomKept

(* One more element is at most one more to count.                          *)
LEMMA OnePlus ==
  ASSUME NEW S, IsFiniteSet(S), NEW p
  PROVE  /\ IsFiniteSet(S \cup {p}) /\ Cardinality(S \cup {p}) \in Nat
         /\ Cardinality(S) \in Nat /\ Cardinality(S \cup {p}) <= Cardinality(S) + 1
BY FS_AddElement, FS_CardinalityType

(* A file is admitted: it and all that may come to be stored fit.          *)
LEMMA AdmissionRoom ==
  ASSUME StorageInv, RoomKept, NEW u \in Uploads, FinishAdmission(u), request'[u] = "upload"
  PROVE  RoomKept'
<1> DEFINE open == CountedFiles(OpenStates)
           slots == {<<v, "quarantine">> : v \in {w \in Uploads : row[w].state \in OpenStates}}
<1>1. /\ row \in [Files -> Reservations] /\ request \in [Uploads -> Requests] /\ u \in Files
      /\ row[u].state = "NONE" /\ admission.available \in Nat
  <2>1. row \in [Files -> Reservations] /\ request \in [Uploads -> Requests] /\ u \in Files
    BY DEF StorageInv, TypeOK, Files
  <2>2. row[u].state = "NONE"
    BY DEF StorageInv, RequestsInStep, RequestInStep, FinishAdmission
  <2>3. admission.available \in 0 .. Capacity
    BY DEF StorageInv, TypeOK
  <2> QED
    BY <2>1, <2>2, <2>3, StorageAssumption
<1>2. /\ admission.available >= Counted(OpenStates) + 1
      /\ Counted(QuotaStates) + 1 <= Quota
      /\ row' = [row EXCEPT ![u] = [state |-> "RESERVED", owner |-> "REQUEST",
                                        lease |-> "RUNNING", linked |-> FALSE]]
  BY <1>1 DEF FinishAdmission, Goto
<1>3. objects' = objects /\ admission'.available = 0
  BY DEF FinishAdmission, Unlocked
<1>4. row'[u].state = "RESERVED" /\ \A f \in Files : f # u => row'[f] = row[f]
  BY <1>1, <1>2
<1>5. Kept' = Kept
  <2>1. Stored' = Stored
    BY <1>3 DEF Stored
  <2>2. {v \in Uploads : row'[v].state = "RETAINED"} = {v \in Uploads : row[v].state = "RETAINED"}
    BY <1>1, <1>4 DEF Files
  <2> QED
    BY <2>1, <2>2 DEF Kept
<1>6. Occupied' \subseteq (Kept \cup slots) \cup {<<u, "quarantine">>}
  <2>1. \A v \in Uploads : row'[v].state \in OpenStates => row[v].state \in OpenStates \/ v = u
    BY <1>4 DEF Files
  <2> QED
    BY <1>5, <2>1 DEF Occupied
<1>7. /\ IsFiniteSet(slots) /\ Cardinality(slots) \in Nat
      /\ Cardinality(slots) <= Counted(OpenStates) /\ Counted(OpenStates) \in Nat
  <2> DEFINE file == [x \in slots |-> x[1]]
  <2>1. file \in Injection(slots, open)
    <3>1. \A x \in slots : x[1] \in open /\ x = <<x[1], "quarantine">>
      BY DEF CountedFiles, Files
    <3> HIDE DEF slots, open
    <3> QED
      BY <3>1 DEF Injection, IsInjective
  <2>2. open \in SUBSET Files /\ Counted(OpenStates) = Cardinality(open)
    BY DEF CountedFiles, Counted
  <2> HIDE DEF file, slots, open
  <2>3. IsFiniteSet(open) /\ Cardinality(open) \in Nat
    BY <2>2, Finite
  <2> QED
    BY <2>1, <2>2, <2>3, FS_Injection, FS_CardinalityType
<1>8. Cardinality(Occupied') <= Cardinality(Kept) + Counted(OpenStates) + 1
  <2>1. IsFiniteSet(Kept) /\ Cardinality(Kept) \in Nat
    BY Finite, Places
  <2> HIDE DEF slots
  <2>2. /\ IsFiniteSet(Kept \cup slots) /\ Cardinality(Kept \cup slots) \in Nat
        /\ Cardinality(Kept \cup slots) <= Cardinality(Kept) + Cardinality(slots)
    <3>1. IsFiniteSet(Kept \cap slots) /\ Cardinality(Kept \cap slots) \in Nat
      BY <2>1, FS_Subset, FS_CardinalityType
    <3>2. Cardinality(Kept \cup slots)
            = Cardinality(Kept) + Cardinality(slots) - Cardinality(Kept \cap slots)
      BY <1>7, <2>1, FS_Union
    <3>3. IsFiniteSet(Kept \cup slots) /\ Cardinality(Kept \cup slots) \in Nat
      BY <1>7, <2>1, FS_Union, FS_CardinalityType
    <3> QED
      BY <1>7, <2>1, <3>1, <3>2, <3>3
  <2>3. LET S == (Kept \cup slots) \cup {<<u, "quarantine">>}
        IN  /\ IsFiniteSet(S) /\ Cardinality(S) \in Nat
            /\ Cardinality(S) <= Cardinality(Kept \cup slots) + 1
    BY <2>2, OnePlus
  <2>4. Cardinality(Occupied') <= Cardinality((Kept \cup slots) \cup {<<u, "quarantine">>})
          /\ Cardinality(Occupied') \in Nat
    BY <1>6, <2>3, FS_Subset, FS_CardinalityType
  <2> QED
    BY <1>7, <2>1, <2>2, <2>3, <2>4
<1>9. Cardinality(Kept) + admission.available <= Capacity /\ Cardinality(Kept) \in Nat
  BY <1>1, <1>2, <1>7, Finite, Places DEF RoomKept
<1>10. Cardinality(Occupied') <= Capacity
  <2>1. Cardinality(Occupied') \in Nat
    BY Finite, PlacesNext
  <2> QED
    BY <1>1, <1>2, <1>7, <1>8, <1>9, <2>1, StorageAssumption
<1>11. Counted(QuotaStates)' <= Quota
  <2>1. CountedFiles(QuotaStates)' \subseteq CountedFiles(QuotaStates) \cup {u}
    BY <1>4 DEF CountedFiles
  <2>2. /\ CountedFiles(QuotaStates) \in SUBSET Files /\ CountedFiles(QuotaStates)' \in SUBSET Files
        /\ Counted(QuotaStates) = Cardinality(CountedFiles(QuotaStates))
        /\ Counted(QuotaStates)' = Cardinality(CountedFiles(QuotaStates)')
    BY DEF CountedFiles, Counted
  <2>3. /\ IsFiniteSet(CountedFiles(QuotaStates) \cup {u})
        /\ Cardinality(CountedFiles(QuotaStates) \cup {u}) \in Nat
        /\ Cardinality(CountedFiles(QuotaStates) \cup {u}) <= Counted(QuotaStates) + 1
        /\ Counted(QuotaStates) \in Nat
    BY <2>2, Finite, FS_AddElement, FS_CardinalityType
  <2>4. Counted(QuotaStates)' <= Cardinality(CountedFiles(QuotaStates) \cup {u})
          /\ Counted(QuotaStates)' \in Nat
    BY <2>1, <2>2, <2>3, Finite, FS_Subset
  <2> QED
    BY <1>2, <2>3, <2>4, StorageAssumption
<1> QED
  BY <1>3, <1>10, <1>11 DEF RoomKept

(* A file is retained: its object takes the place it had been kept.        *)
LEMMA CommitRoom ==
  ASSUME StorageInv, RoomKept, NEW u \in Uploads, CommitClean(u), Owns(u), admission = Unlocked,
         Retain(u)
  PROVE  RoomKept'
<1>1. /\ row \in [Files -> Reservations] /\ u \in Files /\ u \notin Legacy
      /\ row[u].state = "RESERVED"
  BY StorageAssumption DEF StorageInv, TypeOK, Files, Owns
<1>2. /\ row'[u].state = "RETAINED" /\ \A f \in Files : f # u => row'[f] = row[f]
  BY <1>1 DEF Retain, Reservations
<1>3. objects' = objects /\ admission' = admission /\ admission.available = 0
  BY DEF CommitClean, Unlocked
<1>4. Admitted
  BY <1>1 DEF Admitted, QuotaStates, OpenStates
<1>5. Counted(QuotaStates)' = Counted(QuotaStates)
  <2>1. CountedFiles(QuotaStates)' = CountedFiles(QuotaStates)
    BY <1>1, <1>2 DEF CountedFiles, QuotaStates, OpenStates
  <2> QED
    BY <2>1 DEF CountedFiles, Counted
<1>6. Occupied' \subseteq (Occupied \ {<<u, "quarantine">>}) \cup {<<u, "clean">>}
  <2>1. Stored' = Stored
    BY <1>3 DEF Stored
  <2>2. \A v \in Uploads : v # u => row'[v] = row[v]
    BY <1>2 DEF Files
  <2>3. ASSUME NEW x \in Kept' PROVE x \in Kept \/ x = <<u, "clean">>
    BY <2>1, <2>2, <2>3 DEF Kept
  <2>4. \A x \in Kept : x # <<u, "quarantine">>
    BY <1>1 DEF Kept, Stored
  <2>5. ASSUME NEW x \in Occupied', x \notin Kept'
        PROVE  x \in Occupied /\ x # <<u, "quarantine">>
    <3>1. PICK v \in Uploads : row'[v].state \in OpenStates /\ x = <<v, "quarantine">>
      BY <2>5 DEF Occupied
    <3>2. v # u
      BY <1>2, <3>1 DEF OpenStates
    <3>3. row[v].state \in OpenStates
      BY <2>2, <3>1, <3>2
    <3> QED
      BY <3>1, <3>2, <3>3 DEF Occupied
  <2>6. Kept \subseteq Occupied
    BY DEF Occupied
  <2> QED
    BY <2>3, <2>4, <2>5, <2>6
<1>7. <<u, "quarantine">> \in Occupied
  BY <1>1 DEF Occupied, OpenStates
<1>8. Cardinality(Occupied') <= Cardinality(Occupied) /\ Cardinality(Occupied') \in Nat
        /\ Cardinality(Occupied) \in Nat
  <2> DEFINE S == Occupied \ {<<u, "quarantine">>}
  <2>1. /\ IsFiniteSet(S) /\ Cardinality(S) = Cardinality(Occupied) - 1
        /\ Cardinality(Occupied) \in Nat /\ Cardinality(S) \in Nat
    BY <1>7, Finite, Places, FS_RemoveElement, FS_CardinalityType
  <2> HIDE DEF S
  <2>2. /\ IsFiniteSet(S \cup {<<u, "clean">>})
        /\ Cardinality(S \cup {<<u, "clean">>}) <= Cardinality(S) + 1
        /\ Cardinality(S \cup {<<u, "clean">>}) \in Nat
    BY <2>1, OnePlus
  <2>3. Cardinality(Occupied') <= Cardinality(S \cup {<<u, "clean">>})
          /\ Cardinality(Occupied') \in Nat
    BY <1>6, <2>2, FS_Subset, FS_CardinalityType DEF S
  <2> QED
    BY <2>1, <2>2, <2>3
<1>9. Counted(QuotaStates)' <= Quota /\ Cardinality(Occupied') <= Capacity
  BY <1>4, <1>5, <1>8, StorageAssumption DEF RoomKept
<1> QED
  BY <1>3, <1>9 DEF RoomKept

(* The space an admission reads is what the stored files leave.            *)
LEMMA ReadRoom ==
  ASSUME StorageInv, BytesInPlace, NEW u \in Uploads, BeginAdmission(u)
  PROVE  admission'.available > 0 => Cardinality(Kept) + admission'.available <= Capacity
<1>1. admission'.available = Room(Cardinality(Stored))
  BY DEF BeginAdmission
<1>2. Kept \subseteq Stored
  <2>1. ASSUME NEW v \in Uploads, row[v].state = "RETAINED" PROVE <<v, "clean">> \in Stored
    <3>1. v \in Files /\ scan[v] = "CLEAN"
      BY <2>1 DEF Files, BytesInPlace
    <3>2. objects[v] = {"clean"}
      BY <3>1 DEF StorageInv, CleanIsBacked
    <3> QED
      BY <3>1, <3>2 DEF Stored, Keys
  <2> QED
    BY <2>1 DEF Kept
<1>3. Cardinality(Kept) <= Cardinality(Stored) /\ Cardinality(Kept) \in Nat
        /\ Cardinality(Stored) \in Nat
  BY <1>2, Finite, Places, FS_Subset
<1> QED
  BY <1>1, <1>3, StorageAssumption DEF Room

(* Every step keeps the quota and fits the disk.                           *)
LEMMA RoomStep ==
  ASSUME StorageInv, BytesInPlace, RoomKept, [Next]_storageVars
  PROVE  RoomKept'
<1>1. CASE \E u \in Uploads : FinishAdmission(u) /\ request'[u] = "upload"
  BY <1>1, AdmissionRoom
<1>2. CASE \E u \in Uploads : CommitClean(u) /\ Owns(u) /\ admission = Unlocked /\ Retain(u)
  BY <1>2, CommitRoom
<1>3. CASE ~(\E u \in Uploads : FinishAdmission(u) /\ request'[u] = "upload")
             /\ ~(\E u \in Uploads : CommitClean(u) /\ Owns(u) /\ admission = Unlocked /\ Retain(u))
  <2>1. ASSUME NEW f \in Files
        PROVE  /\ row'[f].state \in QuotaStates => row[f].state \in QuotaStates
               /\ f \in Uploads => /\ row'[f].state = "RETAINED" => row[f].state = "RETAINED"
                                   /\ row'[f].state \in OpenStates => row[f].state \in OpenStates
               /\ f \in Legacy => objects'[f] \subseteq objects[f]
    <3>1. RowStep(f)
      BY RowSteps
    <3>2. ~(f \in Uploads /\ FinishAdmission(f) /\ row[f].state = "NONE" /\ row'[f].state = "RESERVED")
      <4>1. ASSUME f \in Uploads, FinishAdmission(f), request'[f] # "upload"
            PROVE  row' = row
        BY <4>1 DEF FinishAdmission, Goto, StorageInv, TypeOK
      <4> QED
        BY <1>3, <4>1
    <3>3. f \in Legacy => f \notin Uploads
      BY StorageAssumption
    <3>4. f \in Legacy => objects'[f] \subseteq objects[f]
      BY <3>3, ObjectsSteps DEF ObjectsStep
    <3> QED
      BY <1>3, <3>1, <3>2, <3>3, <3>4 DEF RowStep, QuotaStates, OpenStates
  <2>2. /\ Admitted' => Counted(QuotaStates)' <= Quota /\ Cardinality(Occupied') <= Capacity
        /\ Kept' \subseteq Kept /\ Cardinality(Kept') <= Cardinality(Kept)
    BY <2>1, NothingAdmitted
  <2>3. Cardinality(Kept') \in Nat /\ Cardinality(Kept) \in Nat
    BY Finite, Places, PlacesNext
  <2>4. admission' = admission \/ admission' = Unlocked \/ \E u \in Uploads : BeginAdmission(u)
    BY DEF Next, Upload, BeginAdmission, FinishAdmission, UploadFile, RecordPending, Heartbeat,
       ScanFile, PromoteFile, CommitClean, SettleCommit, RecordRefusal, ClaimRelease, CrashRequest,
       Reconcile, Clean, PurgeObject, MarkReservation, StartRun, TakeFile, InspectObjects, EndRun,
       CrashReconciler, ExpireLease, storageVars
  <2>5. admission'.available > 0 => Cardinality(Kept) + admission'.available <= Capacity
    <3>1. CASE admission' = admission
      BY <3>1 DEF RoomKept
    <3>2. CASE admission' = Unlocked
      BY <3>2 DEF Unlocked
    <3>3. CASE \E u \in Uploads : BeginAdmission(u)
      BY <3>3, ReadRoom
    <3> QED
      BY <2>4, <3>1, <3>2, <3>3
  <2>6. admission'.available \in 0 .. Capacity
    BY NextInv DEF StorageInv, TypeOK
  <2>7. admission'.available > 0 => Cardinality(Kept') + admission'.available <= Capacity
    BY <2>2, <2>3, <2>5, <2>6, StorageAssumption
  <2> QED
    BY <2>2, <2>7 DEF RoomKept
<1> QED
  BY <1>1, <1>2, <1>3

(* At first nothing has been admitted.                                     *)
LEMMA RoomInit == Init => BytesInPlace /\ RoomKept
<1> SUFFICES ASSUME Init PROVE BytesInPlace /\ RoomKept
  OBVIOUS
<1>1. \A u \in Uploads : /\ u \in Files /\ scan[u] = "NONE" /\ objects[u] = {}
                         /\ row[u] = NoRow /\ request[u] = "start"
  BY DEF Init, Files, BackfilledRow
<1>2. BytesInPlace
  <2>1. \A f \in Files : objects[f] # {} => row[f].state # "NONE"
    BY DEF Init, BackfilledRow
  <2>2. \A c \in Cleaners : job[c].step = "idle"
    BY DEF Init, Idle
  <2>3. \A r \in Reconcilers : batch[r] = {}
    BY DEF Init
  <2>4. \A u \in Uploads :
          /\ objects[u] \in {{}, {"quarantine"}, {"clean"}}
          /\ request[u] \in {"start", "admission", "upload"} => objects[u] = {}
          /\ request[u] = "upload" => row[u].state # "NONE"
          /\ row[u].state = "RETAINED" => scan[u] = "CLEAN"
    BY <1>1 DEF NoRow
  <2>5. \A c \in Cleaners : job[c].step \in {"inspect", "mark retained"} => job[c].file \in Legacy
    BY <2>2
  <2> QED
    BY <2>1, <2>3, <2>4, <2>5 DEF BytesInPlace
<1>3. ~Admitted
  BY <1>1 DEF Admitted, NoRow, QuotaStates, OpenStates
<1>4. admission.available = 0
  BY DEF Init, Unlocked
<1> QED
  BY <1>2, <1>3, <1>4 DEF RoomKept

(* Storage is within its limits in every reachable state.                  *)
RoomInv == StorageInv /\ BytesInPlace /\ RoomKept

(* It stays so, whatever fails and whichever cleaners are at work.         *)
THEOREM RoomInvariant == Spec => []RoomInv
<1>1. Init => RoomInv
  BY InitInv, RoomInit DEF RoomInv
<1>2. RoomInv /\ [Next]_storageVars => RoomInv'
  BY NextInv, PlaceStep, RoomStep DEF RoomInv
<1> QED
  BY <1>1, <1>2, PTL DEF Spec

(* While an upload keeps bytes, some upload is admitted.                   *)
LEMMA KeepersAdmitted ==
  ASSUME RoomInv
  PROVE  /\ \A x \in Stored \ Stranded : x[1] \in CountedFiles(QuotaStates)
         /\ (\E x \in Stored \ Stranded : x[1] \in Uploads) => Admitted
<1>1. ASSUME NEW x \in Stored \ Stranded PROVE x[1] \in CountedFiles(QuotaStates)
  <2>1. x[1] \in Files /\ objects[x[1]] # {} /\ row[x[1]].state \notin {"PURGED", "DELETED"}
    BY <1>1 DEF Stored, Stranded
  <2>2. row[x[1]].state # "NONE" /\ row[x[1]] \in Reservations
    BY <2>1 DEF RoomInv, BytesInPlace, StorageInv, TypeOK
  <2> QED
    BY <2>1, <2>2 DEF CountedFiles, Reservations, QuotaStates, OpenStates, SettledStates
<1> QED
  BY <1>1 DEF Admitted, CountedFiles

(* A file counts until its bytes are gone: never do the files of which     *)
(* bytes are kept exceed the quota once an upload is among them.           *)
THEOREM QuotaHolds == Spec => []QuotaKept
<1>1. RoomInv => QuotaKept
  <2> SUFFICES ASSUME RoomInv, \E x \in Stored \ Stranded : x[1] \in Uploads
               PROVE  Cardinality({x[1] : x \in Stored \ Stranded}) <= Quota
    BY DEF QuotaKept
  <2> DEFINE holders == {x[1] : x \in Stored \ Stranded}
  <2>1. Counted(QuotaStates) <= Quota
    BY KeepersAdmitted DEF RoomInv, RoomKept
  <2>2. holders \subseteq CountedFiles(QuotaStates)
    BY KeepersAdmitted
  <2>3. /\ CountedFiles(QuotaStates) \in SUBSET Files
        /\ Counted(QuotaStates) = Cardinality(CountedFiles(QuotaStates))
    BY DEF CountedFiles, Counted
  <2> HIDE DEF holders
  <2>4. Cardinality(holders) <= Counted(QuotaStates) /\ Cardinality(holders) \in Nat
          /\ Counted(QuotaStates) \in Nat
    BY <2>2, <2>3, Finite, FS_Subset
  <2>5. Cardinality(holders) <= Quota
    BY <2>1, <2>4, StorageAssumption
  <2> QED
    BY <2>5 DEF holders
<1> QED
  BY <1>1, RoomInvariant, PTL

(* What has been admitted fits on the disk, though the space was read      *)
(* before the reservations and uploads, promotions, commits and purges     *)
(* went on between the two.                                                *)
THEOREM AdmittedFit == Spec => []AdmittedFits
<1>1. RoomInv => AdmittedFits
  <2> SUFFICES ASSUME RoomInv, \E x \in Stored \ Stranded : x[1] \in Uploads
               PROVE  Cardinality(Stored \ Stranded) <= Capacity
    BY DEF AdmittedFits
  <2> DEFINE S == Stored \ Stranded
             slot == [x \in S |-> IF x \in Kept THEN x ELSE <<x[1], "quarantine">>]
  <2>1. ASSUME NEW x \in S
        PROVE  x \in Kept \/ (x[1] \in Uploads /\ row[x[1]].state \in OpenStates)
    <3>1. x[1] \in Files /\ row[x[1]].state \in QuotaStates /\ x \in Stored
      BY <2>1, KeepersAdmitted DEF CountedFiles
    <3>2. CASE x[1] \in Legacy
      BY <3>1, <3>2 DEF Kept
    <3>3. CASE x[1] \in Uploads /\ row[x[1]].state = "RETAINED"
      <4>1. objects[x[1]] = {"clean"}
        BY <3>1, <3>3 DEF RoomInv, BytesInPlace, StorageInv, CleanIsBacked
      <4>2. x = <<x[1], "clean">>
        BY <3>1, <4>1 DEF Stored
      <4> QED
        BY <3>3, <4>2 DEF Kept
    <3> QED
      BY <3>1, <3>2, <3>3 DEF QuotaStates, Files
  <2>2. slot \in Injection(S, Occupied)
    <3>1. ASSUME NEW x \in S PROVE slot[x] \in Occupied /\ slot[x][1] = x[1]
      BY <2>1 DEF Occupied
    <3>2. ASSUME NEW x \in S, NEW y \in S, slot[x] = slot[y] PROVE x = y
      <4>1. x[1] = y[1]
        BY <3>1, <3>2
      <4>2. /\ x = <<x[1], x[2]>> /\ y = <<y[1], y[2]>> /\ x[1] \in Files
            /\ x[2] \in objects[x[1]] /\ y[2] \in objects[y[1]]
        BY DEF Stored
      <4>3. CASE x[1] \in Uploads
        <5>1. objects[x[1]] \in {{}, {"quarantine"}, {"clean"}}
          BY <4>3 DEF RoomInv, BytesInPlace
        <5> QED
          BY <4>1, <4>2, <5>1
      <4>4. CASE x[1] \notin Uploads
        <5>1. x \in Kept /\ y \in Kept
          BY <2>1, <4>1, <4>4
        <5> QED
          BY <3>2, <5>1
      <4> QED
        BY <4>3, <4>4
    <3> HIDE DEF S
    <3>3. slot \in [S -> Occupied]
      BY <3>1
    <3> QED
      BY <3>2, <3>3 DEF Injection, IsInjective
  <2> HIDE DEF S, slot
  <2>3. IsFiniteSet(Occupied) /\ Cardinality(Occupied) \in Nat
    BY Finite, Places
  <2>4. Cardinality(S) <= Cardinality(Occupied) /\ Cardinality(S) \in Nat
    BY <2>2, <2>3, FS_Injection, FS_CardinalityType
  <2>5. Cardinality(Occupied) <= Capacity
    BY KeepersAdmitted DEF RoomInv, RoomKept
  <2>6. Cardinality(S) <= Capacity
    BY <2>3, <2>4, <2>5, StorageAssumption
  <2> QED
    BY <2>6 DEF S
<1> QED
  BY <1>1, RoomInvariant, PTL


=============================================================================
