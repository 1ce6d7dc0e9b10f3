-------------------------- MODULE AttachmentStorage --------------------------
(***************************************************************************)
(* The life of an uploaded file: its storage reservation (a database row), *)
(* its attachment's scan status, its bytes under a quarantine and a clean  *)
(* key, the request that uploads it, the release that request starts when  *)
(* it fails, and the reconcilers that take over expired reservations.      *)
(*                                                                         *)
(* One action is one database transaction or one storage call; anything    *)
(* may happen between two of them.  Every file has one unit of bytes; all  *)
(* uploads fall under one quota.  A step with Fault is a failure of the    *)
(* database, of the storage or of the process.                             *)
(***************************************************************************)
EXTENDS Naturals, FiniteSets

CONSTANTS Uploads,      \* upload requests of today, each with its reservation
          Legacy,       \* attachments stored before reservations existed
          Reconcilers,  \* processes that reconcile; two while a restart overlaps
          Quota,        \* files the quota admits
          Capacity,     \* files the disk holds beside its free headroom
          MaxFaults     \* bound: failures in one behaviour

ASSUME StorageAssumption ==
  /\ IsFiniteSet(Uploads) /\ IsFiniteSet(Legacy)
  /\ Uploads \cap Legacy = {}
  /\ (Uploads \cup Legacy) \cap Reconcilers = {}
  /\ Quota \in Nat /\ Capacity \in Nat /\ MaxFaults \in Nat

VARIABLES row,        \* the reservation of each file
          scan,       \* scanStatus of its attachment, NONE before it exists
          objects,    \* the keys under which its bytes are stored
          request,    \* where the upload request of the file is
          job,        \* what each cleaner is doing to which file
          batch,      \* claimed files a reconciler has yet to work on, as read
          running,    \* the reconcilers in the middle of a run
          admission,  \* holder of the admission lock, and the space it read
          faults      \* failures so far

storageVars ==
  <<row, scan, objects, request, job, batch, running, admission, faults>>

-----------------------------------------------------------------------------

Files    == Uploads \cup Legacy
Cleaners == Uploads \cup Reconcilers   \* an upload's release, and reconcilers

(* REJECTED and SCAN_ERROR are one status here, REFUSED.                   *)
ScanStatuses == {"NONE", "PENDING_SCAN", "CLEAN", "REFUSED", "LEGACY_UNSCANNED"}
Inventoried  == {"CLEAN", "LEGACY_UNSCANNED"}

OpenStates    == {"RESERVED", "PURGING", "RECONCILIATION_REQUIRED"}
SettledStates == {"RETAINED", "PURGED", "DELETED"}
Keys          == {"quarantine", "clean"}

Requests == {"start", "admission", "upload", "record", "heartbeat", "scan",
             "promote", "heartbeat again", "commit", "settle", "refuse", "done"}
Steps    == {"idle", "claim", "inspect", "purge first", "purge second",
             "mark purged", "mark retained", "mark retry"}

Idle  == [step |-> "idle", file |-> "NONE"]
NoRow == [state |-> "NONE", owner |-> "NONE", lease |-> "NONE", linked |-> FALSE]

Reservations == [state  : {"NONE"} \cup OpenStates \cup SettledStates,
                 owner  : {"NONE", "REQUEST", "BACKFILL"} \cup Cleaners,
                 lease  : {"NONE", "RUNNING", "EXPIRED"},
                 linked : BOOLEAN]

Jobs == [step : Steps, file : Files \cup {"NONE"}]

(* An open reservation has a lease, by which a reconciler will find it.    *)
Leased(reservation) == reservation.lease # "NONE" <=> reservation.state \in OpenStates

TypeOK ==
  /\ row \in [Files -> Reservations]
  /\ \A f \in Files : Leased(row[f])
  /\ scan \in [Files -> ScanStatuses]
  /\ objects \in [Files -> SUBSET Keys]
  /\ request \in [Uploads -> Requests]
  /\ job \in [Cleaners -> Jobs]
  /\ batch \in [Reconcilers -> SUBSET (Files \X ScanStatuses)]
  /\ running \in SUBSET Reconcilers
  /\ admission \in [holder : Uploads \cup {"NONE"}, available : 0 .. Capacity]
  /\ faults \in 0 .. MaxFaults

Fault == faults < MaxFaults /\ faults' = faults + 1
NoFault == UNCHANGED faults

Unlocked == [holder |-> "NONE", available |-> 0]

(* The request of u still owns its reservation.                            *)
Owns(u) == row[u].state = "RESERVED" /\ row[u].owner = "REQUEST"

Goto(u, place) == request' = [request EXCEPT ![u] = place]

(* The request hands its reservation to a release and goes to place.       *)
ReleaseAnd(u, place) ==
  /\ Goto(u, place)
  /\ job' = [job EXCEPT ![u] = [step |-> "claim", file |-> u]]

Stored == {x \in Files \X Keys : x[2] \in objects[x[1]]}

(* Mutant: a reservation being released no longer counts.                  *)
QuotaStatesShort == {"RESERVED", "RETAINED"}

QuotaStates == OpenStates \cup {"RETAINED"}

Counted(states) == Cardinality({f \in Files : row[f].state \in states})

(* The space that used bytes leave above the headroom.                     *)
Room(used) == IF used < Capacity THEN Capacity - used ELSE 0

-----------------------------------------------------------------------------
(* reserve                                                                 *)

(* The transaction takes the admission lock and reads the free space ...   *)
BeginAdmission(u) ==
  /\ request[u] = "start"
  /\ admission = Unlocked
  /\ admission' = [holder |-> u,
                   available |-> Room(Cardinality(Stored))]
  /\ Goto(u, "admission")
  /\ UNCHANGED <<row, scan, objects, job, batch, running, faults>>

(* ... then reads the reservations and admits the file or refuses it.      *)
FinishAdmission(u) ==
  /\ request[u] = "admission"
  /\ admission' = Unlocked
  /\ IF /\ admission.available >= Counted(OpenStates) + 1
        /\ Counted(QuotaStates) + 1 <= Quota
     THEN /\ row' = [row EXCEPT ![u] = [state |-> "RESERVED", owner |-> "REQUEST",
                                        lease |-> "RUNNING", linked |-> FALSE]]
          /\ Goto(u, "upload")
     ELSE /\ Goto(u, "done")
          /\ UNCHANGED row
  /\ UNCHANGED <<scan, objects, job, batch, running, faults>>

-----------------------------------------------------------------------------
(* createStoredAttachment                                                  *)

(* The quarantine file exists from the moment it is opened; a failed write *)
(* may leave it behind.                                                    *)
UploadFile(u) ==
  /\ request[u] = "upload"
  /\ \/ /\ objects' = [objects EXCEPT ![u] = @ \cup {"quarantine"}]
        /\ Goto(u, "record")
        /\ NoFault /\ UNCHANGED job
     \/ /\ Fault
        /\ \/ objects' = [objects EXCEPT ![u] = @ \cup {"quarantine"}]
           \/ UNCHANGED objects
        /\ ReleaseAnd(u, "done")
  /\ UNCHANGED <<row, scan, batch, running, admission>>

(* The attachment is created and attached to the reservation, unless the   *)
(* actor lost access or the reservation its owner; a commit whose          *)
(* acknowledgement is lost looks like a failure.                           *)
RecordPending(u) ==
  /\ request[u] = "record"
  /\ \/ /\ Owns(u)
        /\ row' = [row EXCEPT ![u].linked = TRUE]
        /\ scan' = [scan EXCEPT ![u] = "PENDING_SCAN"]
        /\ \/ Goto(u, "heartbeat") /\ NoFault /\ UNCHANGED job
           \/ Fault /\ ReleaseAnd(u, "done")
     \/ /\ ReleaseAnd(u, "done")
        /\ NoFault
        /\ UNCHANGED <<row, scan>>
  /\ UNCHANGED <<objects, batch, running, admission>>

(* A heartbeat renews the lease, even an expired one that nobody claimed;  *)
(* its failure ends the request without any cleanup.                       *)
Heartbeat(u, place, next) ==
  /\ request[u] = place
  /\ \/ /\ Owns(u)
        /\ row' = [row EXCEPT ![u].lease = "RUNNING"]
        /\ Goto(u, next) /\ NoFault
     \/ /\ ~Owns(u)
        /\ Goto(u, "done") /\ NoFault
        /\ UNCHANGED row
     \/ /\ Fault /\ Goto(u, "done")
        /\ UNCHANGED row
  /\ UNCHANGED <<scan, objects, job, batch, running, admission>>

(* A verdict other than CLEAN, or none, refuses the file: its status is    *)
(* recorded while a release runs beside it.                                *)
ScanFile(u) ==
  /\ request[u] = "scan"
  /\ \/ Goto(u, "promote") /\ UNCHANGED job
     \/ ReleaseAnd(u, "refuse")
  /\ UNCHANGED <<row, scan, objects, batch, running, admission, faults>>

(* A rename: it fails when the quarantine file is gone.                    *)
PromoteFile(u) ==
  /\ request[u] = "promote"
  /\ \/ /\ "quarantine" \in objects[u]
        /\ objects' = [objects EXCEPT ![u] = {"clean"}]
        /\ Goto(u, "heartbeat again")
        /\ NoFault /\ UNCHANGED job
     \/ /\ IF "quarantine" \in objects[u] THEN Fault ELSE NoFault
        /\ ReleaseAnd(u, "refuse")
        /\ UNCHANGED objects
  /\ UNCHANGED <<row, scan, batch, running, admission>>

(* recordScanFailure                                                       *)
RecordRefusal(u) ==
  /\ request[u] = "refuse"
  /\ Goto(u, "done")
  /\ \/ /\ scan[u] = "PENDING_SCAN"
        /\ scan' = [scan EXCEPT ![u] = "REFUSED"]
        /\ NoFault
     \/ /\ IF scan[u] = "PENDING_SCAN" THEN Fault ELSE NoFault
        /\ UNCHANGED scan
  /\ UNCHANGED <<row, objects, job, batch, running, admission>>

Retain(u) ==
  /\ row' = [row EXCEPT ![u] = [@ EXCEPT !.state = "RETAINED", !.lease = "NONE"]]
  /\ scan' = [scan EXCEPT ![u] = "CLEAN"]

(* Mutants: the commit does not look at the reservation; it does not wait  *)
(* for the admission lock.                                                 *)
CommitCleanUnfenced(u) ==
  /\ request[u] = "commit"
  /\ \/ /\ admission = Unlocked
        /\ Retain(u)
        /\ \/ Goto(u, "done") /\ NoFault
           \/ Goto(u, "settle") /\ Fault
     \/ /\ Goto(u, "settle") /\ NoFault
        /\ UNCHANGED <<row, scan>>
  /\ UNCHANGED <<objects, job, batch, running, admission>>

CommitCleanUnlocked(u) ==
  /\ request[u] = "commit"
  /\ \/ /\ Owns(u)
        /\ Retain(u)
        /\ \/ Goto(u, "done") /\ NoFault
           \/ Goto(u, "settle") /\ Fault
     \/ /\ Goto(u, "settle") /\ NoFault
        /\ UNCHANGED <<row, scan>>
  /\ UNCHANGED <<objects, job, batch, running, admission>>

(* The final transaction: CLEAN and RETAINED together, under the admission *)
(* lock, or neither; the domain may refuse it, the acknowledgement be lost. *)
CommitClean(u) ==
  /\ request[u] = "commit"
  /\ \/ /\ Owns(u)
        /\ admission = Unlocked
        /\ Retain(u)
        /\ \/ Goto(u, "done") /\ NoFault
           \/ Goto(u, "settle") /\ Fault
     \/ /\ Goto(u, "settle") /\ NoFault
        /\ UNCHANGED <<row, scan>>
  /\ UNCHANGED <<objects, job, batch, running, admission>>

(* Mutant: the failed commit is taken at its word.                         *)
SettleCommitBlindly(u) ==
  /\ request[u] = "settle"
  /\ scan' = [scan EXCEPT ![u] = "REFUSED"]
  /\ ReleaseAnd(u, "done")
  /\ UNCHANGED <<row, objects, batch, running, admission, faults>>

(* recordFinalCommitFailureAndRelease: what the database says decides; if  *)
(* it cannot be asked, the reservation is left to a reconciler.            *)
SettleCommit(u) ==
  /\ request[u] = "settle"
  /\ \/ /\ scan[u] = "CLEAN"
        /\ Goto(u, "done") /\ NoFault
        /\ UNCHANGED <<scan, job>>
     \/ /\ scan[u] # "CLEAN"
        /\ scan' = [scan EXCEPT ![u] = IF @ = "PENDING_SCAN" THEN "REFUSED" ELSE @]
        /\ ReleaseAnd(u, "done") /\ NoFault
     \/ /\ Fault /\ Goto(u, "done")
        /\ UNCHANGED <<scan, job>>
  /\ UNCHANGED <<row, objects, batch, running, admission>>

-----------------------------------------------------------------------------
(* purgeAndRelease, and what it shares with the reconcilers.  A claim puts *)
(* the cleaner's token on the row; later writes ask for that token.        *)

Finish(c) == job' = [job EXCEPT ![c] = Idle]
Continue(c, step) == job' = [job EXCEPT ![c].step = step]

(* Mutant: a mark asks for no token.                                       *)
ClaimedByAnyone(c, f) == row[f].state # "NONE"

ClaimedBy(c, f) == row[f].state = "PURGING" /\ row[f].owner = c

Claimed(r, c) == [r EXCEPT !.state = "PURGING", !.owner = c, !.lease = "RUNNING"]

(* Only the request's own reservation is released.                         *)
ClaimRelease(u) ==
  /\ job[u].step = "claim"
  /\ \/ /\ row[u].owner = "REQUEST"
        /\ row[u].state \in {"RESERVED", "RECONCILIATION_REQUIRED"}
        /\ row' = [row EXCEPT ![u] = Claimed(@, u)]
        /\ Continue(u, "purge first") /\ NoFault
     \/ /\ ~(row[u].owner = "REQUEST" /\ row[u].state \in {"RESERVED", "RECONCILIATION_REQUIRED"})
        /\ Finish(u) /\ NoFault
        /\ UNCHANGED row
     \/ /\ Fault /\ Finish(u)
        /\ UNCHANGED row
  /\ UNCHANGED <<scan, objects, request, batch, running, admission>>

(* Mutant: the clean key is emptied first.                                 *)
PurgeKeyClean(step) == IF step = "purge first" THEN "clean" ELSE "quarantine"

(* The quarantine key is emptied before the clean one.                     *)
PurgeKey(step) == IF step = "purge first" THEN "quarantine" ELSE "clean"

PurgeObject(c) ==
  /\ job[c].step \in {"purge first", "purge second"}
  /\ \/ /\ objects' = [objects EXCEPT ![job[c].file] = @ \ {PurgeKey(job[c].step)}]
        /\ Continue(c, IF job[c].step = "purge first" THEN "purge second" ELSE "mark purged")
        /\ NoFault
     \/ /\ Fault /\ Continue(c, "mark retry")
        /\ UNCHANGED objects
  /\ UNCHANGED <<row, scan, request, batch, running, admission>>

(* Mutant: a reservation to be retried loses its lease.                    *)
MarkedWithoutRetry(step, r) ==
  [r EXCEPT !.state = CASE step = "mark purged"   -> "PURGED"
                        [] step = "mark retained" -> "RETAINED"
                        [] step = "mark retry"    -> "RECONCILIATION_REQUIRED",
            !.lease = "NONE"]

(* The end of a claim; a retry waits for a new lease to expire.            *)
Marked(step, r) ==
  [r EXCEPT !.state = CASE step = "mark purged"   -> "PURGED"
                        [] step = "mark retained" -> "RETAINED"
                        [] step = "mark retry"    -> "RECONCILIATION_REQUIRED",
            !.lease = IF step = "mark retry" THEN "RUNNING" ELSE "NONE"]

(* Without its token a cleaner marks nothing; it gives up either way.      *)
MarkReservation(c) ==
  /\ job[c].step \in {"mark purged", "mark retained", "mark retry"}
  /\ \/ /\ row' = [row EXCEPT ![job[c].file] =
                      IF ClaimedBy(c, job[c].file) THEN Marked(job[c].step, @) ELSE @]
        /\ NoFault
     \/ /\ Fault
        /\ UNCHANGED row
  /\ Finish(c)
  /\ UNCHANGED <<scan, objects, request, batch, running, admission>>

-----------------------------------------------------------------------------
(* reconcileExpiredReservations                                            *)

ExpireLease(f) ==
  /\ row[f].lease = "RUNNING"
  /\ row' = [row EXCEPT ![f].lease = "EXPIRED"]
  /\ UNCHANGED <<scan, objects, request, job, batch, running, admission, faults>>

(* A run claims every expired reservation and keeps what it read of them.  *)
StartRun(r) ==
  LET expired == {f \in Files : row[f].state \in OpenStates /\ row[f].lease = "EXPIRED"}
  IN  /\ r \notin running
      /\ running' = running \cup {r}
      /\ row' = [f \in Files |-> IF f \in expired THEN Claimed(row[f], r) ELSE row[f]]
      /\ batch' = [batch EXCEPT ![r] = {<<f, IF row[f].linked THEN scan[f] ELSE "NONE">> : f \in expired}]
      /\ UNCHANGED <<scan, objects, request, job, admission, faults>>

FirstStep(status) == IF status \in Inventoried THEN "inspect" ELSE "purge first"

TakeFile(r) ==
  /\ job[r] = Idle
  /\ \E x \in batch[r] :
       /\ batch' = [batch EXCEPT ![r] = @ \ {x}]
       /\ job' = [job EXCEPT ![r] = [step |-> FirstStep(x[2]), file |-> x[1]]]
  /\ UNCHANGED <<row, scan, objects, request, running, admission, faults>>

(* The inventory of a file that must not be purged: exactly one object is  *)
(* kept, a legacy file without any is given up, anything else is retried.  *)
InspectObjects(r) ==
  /\ job[r].step = "inspect"
  /\ LET f == job[r].file
     IN  \/ /\ Continue(r, IF Cardinality(objects[f]) = 1 THEN "mark retained"
                           ELSE IF objects[f] = {} /\ scan[f] = "LEGACY_UNSCANNED"
                           THEN "mark purged"
                           ELSE "mark retry")
            /\ NoFault
         \/ Fault /\ Finish(r)
  /\ UNCHANGED <<row, scan, objects, request, batch, running, admission>>

(* A run ends by deleting purged reservations that are old enough.         *)
EndRun(r) ==
  /\ r \in running
  /\ job[r] = Idle
  /\ batch[r] = {}
  /\ running' = running \ {r}
  /\ \E old \in SUBSET {f \in Files : row[f].state = "PURGED"} :
       row' = [f \in Files |-> IF f \in old THEN [NoRow EXCEPT !.state = "DELETED",
                                                              !.linked = row[f].linked]
                               ELSE row[f]]
  /\ UNCHANGED <<scan, objects, request, job, batch, admission, faults>>

-----------------------------------------------------------------------------
(* The process dies: what it held in memory is gone, its transaction and   *)
(* with it the admission lock too.                                         *)

CrashRequest(u) ==
  /\ request[u] \notin {"start", "done"} \/ job[u] # Idle
  /\ Fault
  /\ Goto(u, "done")
  /\ Finish(u)
  /\ admission' = IF admission.holder = u THEN Unlocked ELSE admission
  /\ UNCHANGED <<row, scan, objects, batch, running>>

CrashReconciler(r) ==
  /\ r \in running
  /\ Fault
  /\ Finish(r)
  /\ batch' = [batch EXCEPT ![r] = {}]
  /\ running' = running \ {r}
  /\ UNCHANGED <<row, scan, objects, request, admission>>

-----------------------------------------------------------------------------

(* The backfill of the migration: clean files are retained, all others     *)
(* wait for a reconciler, wherever their bytes are.                        *)
BackfilledRow(status) ==
  IF status = "NONE" THEN NoRow
  ELSE IF status = "CLEAN"
  THEN [state |-> "RETAINED", owner |-> "BACKFILL", lease |-> "NONE", linked |-> TRUE]
  ELSE [state |-> "RECONCILIATION_REQUIRED", owner |-> "BACKFILL",
        lease |-> "EXPIRED", linked |-> TRUE]

Init ==
  /\ scan \in [Files -> ScanStatuses]
  /\ objects \in [Files -> SUBSET Keys]
  /\ \A f \in Files :
       /\ scan[f] = "NONE" <=> f \in Uploads
       /\ scan[f] = "NONE" => objects[f] = {}
       /\ scan[f] = "CLEAN" => objects[f] = {"clean"}
  /\ row = [f \in Files |-> BackfilledRow(scan[f])]
  /\ request = [u \in Uploads |-> "start"]
  /\ job = [c \in Cleaners |-> Idle]
  /\ batch = [r \in Reconcilers |-> {}]
  /\ running = {}
  /\ admission = Unlocked
  /\ faults = 0

Upload(u) ==
  \/ BeginAdmission(u) \/ FinishAdmission(u) \/ UploadFile(u) \/ RecordPending(u)
  \/ Heartbeat(u, "heartbeat", "scan") \/ ScanFile(u) \/ PromoteFile(u)
  \/ Heartbeat(u, "heartbeat again", "commit")
  \/ CommitClean(u) \/ SettleCommit(u) \/ RecordRefusal(u)

Clean(c) == PurgeObject(c) \/ MarkReservation(c)

Reconcile(r) == StartRun(r) \/ TakeFile(r) \/ InspectObjects(r) \/ Clean(r) \/ EndRun(r)

Next ==
  \/ \E u \in Uploads : Upload(u) \/ ClaimRelease(u) \/ Clean(u) \/ CrashRequest(u)
  \/ \E r \in Reconcilers : Reconcile(r) \/ CrashReconciler(r)
  \/ \E f \in Files : ExpireLease(f)

Spec == Init /\ [][Next]_storageVars

(* Time passes and the reconciler's timer keeps firing; requests need not  *)
(* get anywhere.                                                           *)
FairSpec ==
  /\ Spec
  /\ \A r \in Reconcilers : WF_storageVars(Reconcile(r))
  /\ \A f \in Files : WF_storageVars(ExpireLease(f))

-----------------------------------------------------------------------------
(* Properties.                                                             *)

(* A file that can be downloaded is there: the bytes of a CLEAN attachment *)
(* are under its clean key and their reservation is retained, whatever     *)
(* leases expired and whichever cleaners are still at work.                *)
CleanIsBacked ==
  \A f \in Files :
    scan[f] = "CLEAN" => objects[f] = {"clean"} /\ row[f].state = "RETAINED"

(* Bytes left by a request that outlived its lease while it wrote them.    *)
Stranded == {x \in Stored : row[x[1]].state \in {"PURGED", "DELETED"}}

(* A reservation that an attachment refers to is reported purged only when *)
(* no bytes are left, even if the request was promoting them meanwhile.    *)
PurgedLeaveNoBytes ==
  \A x \in Stranded : ~row[x[1]].linked

(* What has been admitted fits on the disk: as long as an upload keeps     *)
(* bytes, the stored objects leave the headroom free.                      *)
AdmittedFits ==
  (\E x \in Stored \ Stranded : x[1] \in Uploads) =>
    Cardinality(Stored \ Stranded) <= Capacity

(* A file counts until its bytes are gone: files whose release failed or   *)
(* is under way make no room for another upload.                           *)
QuotaKept ==
  (\E x \in Stored \ Stranded : x[1] \in Uploads) =>
    Cardinality({x[1] : x \in Stored \ Stranded}) <= Quota

(* Ends are final.  Neither a commit whose acknowledgement was lost nor a  *)
(* failure recorded beside a release rewrites a decided scan status, and   *)
(* no late step of a request, of a release or of a reconciler that lost    *)
(* its claim reopens a settled reservation.                                *)
EndsAreFinal ==
  [][\A f \in Files :
       /\ scan[f] \in {"CLEAN", "REFUSED", "LEGACY_UNSCANNED"} => scan'[f] = scan[f]
       /\ row[f].state \in {"RETAINED", "DELETED"} => row'[f] = row[f]
       /\ row[f].state = "PURGED" => row'[f].state \in {"PURGED", "DELETED"}]_storageVars

(* History is kept: the bytes of a clean or a legacy attachment are never  *)
(* removed.                                                                *)
HistoryBytesStay ==
  [][\A f \in Files : scan[f] \in Inventoried => objects'[f] = objects[f]]_storageVars

(* Quota comes back: whatever fails, a reservation is retained or purged   *)
(* in the end.                                                             *)
ReservationsSettle ==
  \A u \in Uploads : row[u].state = "RESERVED" ~> row[u].state \in SettledStates

=============================================================================
