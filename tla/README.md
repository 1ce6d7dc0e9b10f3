# Feishu timeline app: specifications

TLA+ specifications, model-checking runs and machine-checked proofs for the colour-development
project tracker: a NestJS API (`src/apps/api`) over PostgreSQL and Redis, with a web client
(`src/apps/web`). The API keeps one workflow per project, the domain records the workflow rests on,
the files people attach, and reminders and notifications around it.

Paths below are relative to the repository; `api/` stands for `src/apps/api/src/`.

## 1. The system

| Component | State it keeps | Operations | What is hard about it | What makes it correct |
|---|---|---|---|---|
| **Workflow engine** `api/modules/workflows/workflows.service.ts`, `workflow-node.constants.ts`, `api/common/workflow-evidence.ts` | `workflow_tasks`, `workflow_instances`, the project's status and `currentNodeCode` | start, complete, approve, reject, return; create the next tasks; sweep a technical round; close | requests name tasks by ids that may be stale; a consistency return supersedes nine nodes at once; three copies of "where is the project" | one open main-line task; open work is current work; no decision is refused for want of room; pointers agree; closed tasks are history |
| **Reviews and monthly plan** `api/modules/reviews/reviews.service.ts`, `api/common/monthly-review-plan.ts` | the three review tables, `monthly_review_plans` and periods | create, approve, reject a review; mark a month | approving a month and finishing the task must coincide exactly at the last month; a year of months over several rounds of the review | the review always has a month left while it is open; a project closes only with the whole year reviewed |
| **Domain records** `api/modules/{samples,paint-procurements,standard-boards,performance-tests,pilot-productions,production-plans,mass-productions}` | one table each, keyed to a task | create, version, edit, order, issue, confirm, cancel a record; complete the stage it proves | records of one stage rest on records of another that are still edited; a rework must rest on the records of its own round, found by walking `fromTaskId`; some rules ask for a record of the project, others for one of the round | the nearest ancestor is the current round; what a stage was completed on stays; no stage opens without what its rules will ask for; one current board |
| **Approved report, colour link** `api/modules/projects/approved-report.service.ts`, `project-color-link.service.ts` | `approvedDevelopmentReportAttachmentId`, `primaryColorId` | register (completes two tasks in one transaction), link | the second completion acts on the task the first created | as for the engine |
| **Attachment storage** `api/modules/attachments/*.service.ts`, `api/infra/storage/object-storage.service.ts` | `attachments`, `attachment_storage_reservations`, files under quarantine and clean keys | reserve, upload, record, heartbeat, scan, promote, commit, release; reconcile | many transactions and file operations per upload, each may fail; leases expire under a live upload; two reconcilers overlap | a clean attachment has its bytes; verdicts and settled reservations are final; history is never deleted; quota is neither leaked nor overrun |
| **Malware scanner** `malware-scanner.service.ts`, `clamav-session.ts` | a session and a concurrency gate | scan a stream | the daemon may answer late or not at all | one verdict per scan |
| **Team assignment** `api/common/team-authorization.ts`, `team-assignment.ts`, `api/modules/personnel` | users and roles, owners and epochs of tasks, stored results of commands | change a person, claim, transfer, complete, reassign what a change of personnel touches | two members claim one task; a role is revoked between the admission of a request and its transaction; a command is sent twice | nobody acts on revoked rights; owners are entitled and told; an answer stays true for its epoch; a retry is answered; an administrator remains |
| **Task reminders** `api/modules/notifications/task-reminders.service.ts` | a scan lease, a cursor, deduplication keys | scan in pages, send, checkpoint | a scan dies between sending and checkpointing, or loses its lease; tasks change hands under it | whoever a due task waits for is told; one fault repeats one reminder at most |
| **Notification queue and graceful shutdown** `api/modules/queue/notification-queue.service.ts`, `api/modules/notifications/notifications.service.ts`, `api/common/graceful-shutdown.ts`, `request-drain.interceptor.ts`, `main.ts` | a Redis list, an in-memory fallback, rows of `notifications`, the busy flags of the writers | enqueue, pop, deliver, retry; drain | calls that fail after they were carried out; jobs in the hand of the worker or of a request when the process stops; retries that overwrite | what is promised is delivered, reported or still queued; order is kept; a clean exit is a point for a backup |
| **Transfer admission** `api/common/{upload,download}-admission.service.ts` | counters, leases and remembered admissions per process | admit, sweep, release | a connection, a handler and a stream end in any order, also before the request is admitted | counters equal the leases; limits hold for what really runs; the rate holds whatever sweeps forget; every lease returns |
| **Idempotent commands** `api/modules/r26-read-model`, `api/modules/projects/projects.service.ts` | command rows with a key and a request hash | execute, replay | the same command twice at once | exactly one effect, one answer |
| **Accounts and sessions** `api/modules/auth` | credentials, recovery codes, account versions, sessions in Redis | login, change of password, recovery, binding and grants by the host | the password changes between its check and the session | no session outlives its password; the last administrator cannot be locked out |
| **Administration, catalogues, read models, fees, web client, deployment** | rows of their own | row-by-row writes and queries | little interleaving of their own | - |

How they interact: every write of the project workflow, by any service, runs inside
`withProjectWrite`, which takes the project's advisory lock and commits once; the domain and review
services call the engine with their own transaction, and the engine asks
`workflow-evidence` whether the records of the task suffice. Every write of a member first takes the
team's authorization lock in shared mode and reads the actor again under it; changes of people, roles
and passwords take it alone, raise the account's version and reassign the tasks they touch. The
reminders' scans read tasks, owners and epochs under the project's lock, one page at a time. Attachments are recorded and committed in transactions that
call back into the service whose record they belong to; their bytes are outside any transaction.
System notices go through the queue, whose worker writes the notifications table; at a signal
`drainWriters` tells the request interceptor, the queue and the storage reconciler to stop, and waits
for the connections and then for all three.

## 2. Modules

| Module | Models | Its state and actions in the code |
|---|---|---|
| `WorkflowNodes` | `workflow-node.constants.ts` | the 18 nodes, the actions each accepts, `WORKFLOW_NEXT_TASK_MAP` as edges |
| `ProjectWorkflow` | engine, reviews, domain records, approved report, colour link | `task` = `workflow_tasks` by node and round, `round` = the latest round, `instance`, `project`, `linked` = `primaryColorId`, `report`, `planned`/`months` = the monthly plan. One action per handler; `Transition` is `transitionTaskWithExecutor` for a finishing action, built from `Finished`, `Invalidated` (`invalidateTechnicalRound`), `CanSpawn`/`Spawned` (`createNextTasks`) and `SyncState` (`syncWorkflowStateToDatabase`) |
| `ProjectLifecycle` | abstract: what the engine promises | a stage that moves along the main line, a number, a fee, reviewed periods |
| `MCProjectWorkflow` | instances for TLC | - |
| `ProjectWorkflow_proofs`, `ProjectProgress_proofs` | proofs | section 6 |
| `DomainRecords` | the record services beside the engine as the stages see it | `task` = the latest round of each stage, `rec` = the records by stage, round and number with their status, `isCurrent` and the record they name, `standard` = boards with a version of the colour. One action per handler; `Finish` is the engine, `OwnProof` is `getTechnicalReworkCompletionIssues`, `EngineAllows` everything the engine asks of records |
| `MCDomainRecords` | the tasks completed the ordinary way | - |
| `DomainRecords_proofs` | proofs | section 6 |
| `AttachmentStorage` | upload pipeline, reservations, releases, reconcilers | `row` = the reservation, `scan` = `scanStatus`, `objects` = the files, `request` = the line the upload is at, `job` = what a release or a reconciler is doing, `batch` = rows claimed and read, `admission` = the quota lock's holder and the space it read |
| `MCAttachmentStorage` | instances for TLC with symmetry | - |
| `AttachmentStorage_proofs` | proofs | section 6 |
| `NotificationQueue` | queue service, delivery of system notices, `RedisService.execute`, interceptor, drain | `redis` = the list at `QUEUE_KEY`, `memory` = `memoryQueue`, `worker` = the await `processPendingJobs` is at with its job and `inspected`, `inbox` = what each row of `notifications` has held, `request`/`open` = handlers and connections, `busy` = the flags of the scans, `server` = how far `shutdown` is |
| `MCNotificationQueue` | instances for TLC | - |
| `NotificationQueue_proofs` | proofs | section 6 |
| `TransferAdmission` | upload and download admission, the thumbnails' included | `activeGlobal`, `activeByActor`, `activeByTarget` and `admittedAt` = the fields of the services, `held` = leases not released, `stage`/`transport`/`source` = handler, connection and stream of each request |
| `MCTransferAdmission`, `TransferAdmission_proofs` | instances, proofs | section 6 |
| `TeamAccounts` | people, roles, passwords, recovery codes, host commands, sessions, the authorization lock | `account` = the users with their credential and version, `sessions` = Redis, `request` = what each request has seen and decided, `results` = stored results of commands. One action per half of a request: what it decides under its locks, what it writes |
| `TeamTasks` | claims, transfers, completions, reassignment, notices; EXTENDS `TeamAccounts` | `task` = status, owner and `assignmentEpoch`, `notices` = the epochs of each user's ACTIVATE notice; `Reconcile` is `reconcileTeamAssignmentsAfterUserChange` |
| `MCTeamTasks`, `TeamTasks_proofs` | instances, proofs | section 6 |
| `TaskReminders` | the leased scan of due months | `row` = the scan's row with token, lease and cursor, `scan` = the local variables of each scanner by the step it is at, `told` = reminders and what each is bound to |
| `MCTaskReminders`, `TaskReminders_proofs` | instances, proofs | section 6 |

### What the workflow modules abstract

- One project. Projects share nothing the engine writes, and their locks are their own.
- Handlers are atomic: each is one transaction under the project's advisory lock, and a handler that
  throws rolls back, so it is a disabled action. What a client holds across transactions is a task
  id; actions range over **all** tasks, closed and superseded ones included, so any stale id is tried.
- A record is present or not: "registered" stands for a record brought to the status that counts as
  evidence. Fields a user can always fill in correctly are not conditions here.
- Creating a record looks at the task only, not at the instance, as the code does.
- Several reviewers may hold a review of one month. The first approval ends it, and the others can then
  be neither approved nor rejected, as in `lockVisualDeltaReviewWriteState`.
- `Init` has both kinds of project: created today (linked, report required) and created before those
  columns existed (neither).
- Not modelled: due dates, the timeline, who a created task is assigned to (`TeamTasks` has that), the
  audit log.

### What the records module abstracts

- Of each node only the latest round is kept: ancestors within the lookup's limit are latest rounds (`LineageIsCurrent` of
  `ProjectWorkflow`), and whatever has been superseded is asked for by no rule. The engine's rules about
  instances, months and closing are `ProjectWorkflow`'s; stages end at MASS_PRODUCTION, so the monthly
  review and its return are not part of this module.
- Statuses that no rule tells apart are one: a trial is PLANNED while it can be edited and JUDGED when
  it passed or failed.
- Where the code takes the most recent qualifying record (the trial of a cabin review, the current
  sample), the module takes any: more behaviours, and the properties hold for all of them.
- The ordinary completion (`r26-ordinary-completion.service.ts`) is `CompleteOrdinarily`: the engine's
  rules without the services' own. `OrdinaryTasks` says on which tasks a run explores it.
- Editing fields, distributing boards and listing issues of trials change nothing a stage asks for.

### What the storage module abstracts

- One action is one database transaction or one storage call; two of them may always be interleaved
  with anything, and `Fault` marks a failure of PostgreSQL, of the file system or of the process.
  An acknowledgement may be lost: the transaction takes effect and the request takes the error path.
- Files have one unit of bytes and one quota scope stands for the global, project and actor scopes;
  the test outside the lock that precedes `reserve` is subsumed by the one inside.
- `REJECTED` and `SCAN_ERROR` are one status, `REFUSED`: they differ in wording.
- A claim token is a fresh UUID per claim; here it is the claimer's name, which is as good because a
  claimer finishes its claims before it makes others.
- A run claims all expired rows (a batch of 100 in the code). Deleting metadata of purged rows after
  90 days is a choice of `EndRun`.
- Rows of the migration's backfill start with any bytes a legacy file can have; both keys together
  also stand for an object of the wrong size, which the inventory treats alike. `CLEAN` ones have
  their bytes under the clean key.
- Heartbeats between the steps of one phase are the two of the model: before the scan and before the
  commit. As in the code they renew even an expired lease nobody has claimed, and a failed one ends
  the request without any cleanup.
- `Stranded` bytes: the write of the quarantine file is not fenced, so a request that outlives its
  two-hour lease during that write leaves bytes no reservation counts. `AdmittedFits` and `QuotaKept`
  leave exactly these out, by name; `PurgedLeaveNoBytes` shows they exist only where no attachment
  was ever recorded.
- Not modelled: replacing and deleting attachments (logical: the bytes stay), bindings, downloads.

### What the queue module abstracts

- One action runs from one await of the code to the next; between them everything else may happen,
  as in the one thread of a Node process. A Redis call that fails may have been carried out, and so
  may a delivery: the notice then exists twice, or is in its row although it is tried again.
- A failed call may be anything `RedisService.execute` throws for: no connection, a timeout, too many
  operations. `outages` and `failures` count them up to a bound.
- A notice is its sender's request, its job and its content at once; every request sends one. A retry
  may be due or not whenever it is looked at (`Postpone`): no clock.
- New jobs are system notices with a recipient, the ones the internal endpoint
  (`internal-notifications.controller.ts`) makes unless told otherwise. `Leftover` jobs are what an
  earlier process left in Redis, with any number of tries; they may be invalid or of a retired kind,
  which the worker passes over (`Discard`). A new job of a retired kind would go the same way.
- A crash is the end of a behaviour, which may happen in any state; what the next process finds is
  `redis`.
- A connection carries one request. `closeIdleConnections` closes those whose request was answered;
  one on which nothing was ever sent is not idle to Node and is left to its client, which may go away
  at any time (`Abort`).
- `Scans` are the writers with a flag of their own: the three scans of the queue service and the
  storage reconciler, which is modelled in full in `AttachmentStorage`.
- Not modelled: `enqueueOnce`, which has no caller, the size limit of jobs, reading notices.

### What the admission module abstracts

- One process with one event loop; one callback is one action. A request names its service, actor and
  target; what it transfers is left out.
- A client may break off at any time, even before its request reaches admission; a handler may then
  still run, and a download may still open its stream, which is destroyed at once.
- The map of targets of uploads is the one of downloads with a target that is optional. The clock
  moves by whole units; sweeps happen inside `acquire`, as in the code.

### What the team modules abstract

- A request runs in two halves: it takes its locks and decides, then writes and commits. Between them
  everything the locks allow may happen. Row locks beside the authorization and project locks, rate
  limits, expiry and logging out only forbid behaviours and are left out.
- A password and a recovery code are named by the account version that set them. Every form is filled
  in from a page that may be out of date: an earlier version of the account or epoch of the task.
- Any command may be sent again at any time, also twice at once.
- `Monthly` tasks stand for due periods of an open review: changes of personnel move them without a
  notice, and their owners hear of it from the scan of reminders.
- The rights of an administrator go with the role; the flag and the role are one.

### What the reminders module abstracts

- One action is one transaction or statement of the scan; a crash, an error or an outlived lease may
  come between any two. `Lost` is the token of a scan that died.
- Ids are numbers in the order of the database; pages and limits are counts of users and tasks.
- The ordinary scan is the monthly one with tasks that are planned from the start, belong to no round
  of a review and are not marked overdue. Two timers begin it, so two scanners share its row.
- `served` and `replays` are history variables: who was reminded of what in the current pass.

## 3. Runs

All runs end with the whole state space explored, except the four that end with a counterexample.

| Run | Distinct states | Question and what it shows |
|---|---|---|
| `rework` | 316,517 | Two rounds of every node, all four reviews rejecting and returning, explicit starts, two monthly periods. Tables, lineage and pointers stay consistent (`SinglePrimary`, `LiveWorkIsCurrent`, `OneNumberOneFee`, `PointersFollowTasks`, `UpstreamStands`, `LineageIsCurrent`, `SettledTasksStay`), something is left to do until the project closes and the review closes with its last period (`WorkRemains`), no allowed decision is refused (`ReworkNeverRefused`), and the engine implements `ProjectLifecycle` (`ImplementsLifecycle`) |
| `records` | 920,358 | Two rounds of every stage with a record each, linked and unlinked projects, every handler of the record services: a completed stage keeps what it was completed on (`ProofStands`), no stage opens without what its rules ask of the stages before it (`NoStageStarves`), series production rests on one chain of current records (`SeriesRestsOnRound`), one board is current (`OneCurrentBoard`) |
| `storage` | 3,786,778 | Two uploads under a quota of one, two overlapping reconcilers, three failures: `CleanIsBacked`, `PurgedLeaveNoBytes`, `EndsAreFinal`, and files whose release failed still count (`QuotaKept`) |
| `admission` | 1,230,924 | Two uploads and a file older than the reservations, wherever its bytes are: what is admitted fits (`AdmittedFits`), although free space and reservations are read at two moments; the old file's bytes are never removed (`HistoryBytesStay`); under fairness every reservation is retained or purged in the end (`ReservationsSettle`) |
| `queue` | 349,796 | Two requests and a job left by an earlier process, short queues, a failing Redis call, a failing delivery and a shutdown at any moment: no notice vanishes (`NothingVanishes`), a row never goes back to an older notice while Redis answers (`NoticesInOrder`), a clean exit leaves what is unsettled in Redis and writes nothing after it (`CleanExitHolds`). Under fairness every queued notice is settled while the process serves (`EveryNoticeSettles`), and a drain completes by itself unless notices are in memory or a client never sends its request (`DrainCompletes`) |
| `transfers` | 874,080 | Three uploads and two downloads come in, break off, stream and finish in any order over two windows: `CountersMatchLeases`, `UseWithinLimits`, `RateKept`, and under fairness `LeaseReturns` |
| `team` | 902,545 | Two requests at a time, thirteen commands, any sent again: `SessionsFollowPasswords`, `AdminRemains`, `OwnersAreTold`, `AnswersHold`, `RevokedNeverAct`, `RetriesAnswered` |
| `reminders` | 688,089 | Two scanners, two months, two users, a fault, a change of roles, assignments or of the review's round, and days that pass: one fault repeats at most one reminder (`AtMostOneReplay`), limits and types (`TypeOK`), and under fairness whoever a due month waits for is told (`EveryoneReminded`) |
| `EveryDecisionLands`, `ParallelWorkFinishable`, `IssuedBoardServesReview`, `NoticesKeepApart` | - | counterexamples: section 5 |

Types are an invariant of `storage` and `reminders`; those of `ProjectWorkflow`, `DomainRecords`,
`NotificationQueue`, `TransferAdmission` and `TeamTasks` are proved and not checked again.

### Bounds and why they are enough

- `MaxRound` 2 lets every node be reworked once and every pair of returns meet. A decision that would
  need a further round is disabled (`WithinBound`). What more rounds add, a sweep that meets a round
  swept before, is covered by the theorems: every property of `rework` and of `records` is proved for
  any number of rounds.
- `MonthCount` 2 instead of 12: the fewest with a rejection between months and a month that is not the
  last.
- `StartedNodes`, `RecordingNodes`, `ReturningNodes` name the nodes for which a run explores the
  optional operations. A start changes only a status and every node treats it alike; nodes whose
  records nothing asks for are left out where the run does not concern them.
- `DoubledNodes` is empty in `records`: one record a round, so that two rounds of all eleven stages
  fit; the theorems are for any choice, and for any number of rounds. `OrdinaryTasks` gives every stage one round completed by its service and, where both
  exist, one completed the ordinary way.

- `ChainLimit` is 20 instead of 64, so that the run meets it: with two rounds a project has up to 21
  main-line tasks behind the open one. `LineageIsCurrent` is about those with at most `ChainLimit`; with 19
  it fails already for 20 tasks, and with 20 it fails for 21. The theorem is for any limit.
- `MaxFaults` 1 to 3: three failures give a lost acknowledgement, a failed release and a failed
  reconciliation in one behaviour.
- Two uploads share the quota and the lock, which is all that files share; two reconcilers are the
  most a restart makes overlap. `admission` has one reconciler and the one file older than the
  reservations: what two reconcilers do to any number of such files is covered by the theorem
  `HistoryKept`.
- Two new notices and an old one for one recipient, a list of two and a memory of one: both queues
  fill up, a retry finds its place taken, and jobs for one row can overtake each other in every way
  two can. `MaxRetries` 2 has a first try and a last one, `Batch` 2 a loop that goes on and one that
  is cut. One failing call is enough for a fallback to memory, a lost reply or a notice that is queued
  twice, and one failing delivery for a retry; the old job may already have one try behind it. What
  more failures do to the safety properties is covered by the theorems.
- `transfers` has limits that each refuse something no other does: two uploads of one actor, two uploads
  to one project by different actors, and two downloads of different actors and attachments under a
  limit of one in all; without any one of the three `UseWithinLimits` fails. Two windows and a tracker of
  one actor make sweeps forget an actor who comes back. The theorems are for any limits, windows and
  requests.
- `team` has two people with credentials and an administrator of old without one, which is the fewest for
  a last administrator, and two requests, the fewest for a race; thirteen commands are one of each kind
  and a second wherever the subject matters. Versions and epochs are bounded by what the commands can
  raise them to. The theorems are for any people, requests and commands.
- `reminders`: two tasks and two users are the least for a page that is cut, a cursor between users and
  one between tasks; three reminders at most in a scan cut the second page. One change and one fault
  suffice for a scan that goes on with what is no longer true and for one that replays.

### Fairness

The workflow, the records and the team's writes have none: people decide, and nothing obliges them to.
`FairSpec` of the storage module assumes that time passes (`WF` of `ExpireLease`) and that the
reconciler's interval timer, set in `onModuleInit`, keeps firing (`WF` of `Reconcile`); requests get
none, they may stop anywhere. `admission` has the single reconciler of the one API container: with two,
leases that expire at once let them claim a row from each other for ever, which the code excludes by
five-minute leases that the model does not time. The queue module's `QueueFairness` says that timers
fire and awaited calls come back (each has a timeout), that a retry's time comes (`SF`, since it can be
postponed many times first), and that the sweep of idle connections runs; nothing is assumed of
clients, of failures or of the drain's own timeout, so `DrainCompletes` is about drains that need none.
`FairSpec` of the admission of transfers says that handlers return and that streams which ended or
were destroyed close, as Node's do; a client may keep its connection for ever. The reminders' `Fairness`
says that a scan which runs goes on (each step is an awaited call), that some timer keeps beginning
scans, and that a lease nobody renews runs out; it does not choose the scanner, so one may be unlucky
for ever.

`CHECK_DEADLOCK FALSE` appears where the system really stops: a closed or halted project, an exited
process, requests that were all answered, a team whose commands are all used up to the bound on
versions and epochs. In `storage`, `admission` and `reminders` deadlock is checked, and there is none,
since timers always fire again.

### Properties and mutants

Every property of a passing run has a mutant: a definition that changes the code the way a plausible
bug would (a sweep that forgets open tasks, a new task that points at the round it supersedes, months
counted before the current one is marked, a commit that does not look at the reservation, a purge
that empties the clean key first, a lease that is given back with the connection alone, a session that takes
the version the account has by then, a reassignment without a new epoch, a cursor that stays where it is, a
board chosen whatever stage the project is in). With it the run finds the property
violated. The mutants stand beside what they mutate, each marked `Mutant`.

## 4. Hard behaviours and where they are checked

Stale task ids, double transitions, repeated sweeps, lookups along ancestors, a year of months over
several rounds of its review: `rework`. Records edited, versioned and cancelled under one stage while another rests on them:
`records`. A slow upload that outlives its lease, purges racing renames, lost acknowledgements, crashes
between any two steps, a reconciler acting on what it read at the start of its run: `storage`,
`admission`. Calls that fail after they took effect, full queues, retries that come back, a worker or an
abandoned handler caught by the shutdown: `queue`. Clients that break off before, during and after
admission: `transfers`. Rights, passwords and owners that change between the two halves of a request, and
commands sent twice: `team`. Scans that die or are overtaken while tasks change hands: `reminders`. The
full list, with the lines where each bites and the one no property covers, is the `hazards` list of
`PROJECT.json`.

## 5. Where the code and its documents disagree

- **`EveryDecisionLands`.** Rejecting a sample confirmation (the REJECT of `mapDecisionToAction`,
  `api/modules/samples/samples.service.ts:1412`) finds no entry in `WORKFLOW_NEXT_TASK_MAP`
  (`workflow-node.constants.ts:262`): the task closes, nothing is created, and the instance stays
  RUNNING with no open main-line task, which nothing can ever create. `docs/WORKFLOW_RULE_FREEZE.md:93`
  says that the back end decides where APPROVE, REJECT and RETURN land. `WorkRemains` shows that
  this is the only decision that halts a project.
- **`ParallelWorkFinishable`.** Closing the project does not look at open parallel tasks, and an
  instance that is not RUNNING accepts no action: they stay active and can never be finished.
  `docs/WORKFLOW_RULE_FREEZE.md:61` says that parallel nodes can be executed independently.
- **`IssuedBoardServesReview`.** For a linked project a review asks for a standard version whose board
  was made under a STANDARD_BOARD_PRODUCTION task on the review's own chain of origins
  (`review-standard-version.ts:21`); that task is created in parallel and is on no review's chain, so
  there is never one to choose, although the message asks for "the board issued in this round". In
  the passing runs a project therefore gets past the cabin review only if it is not linked: created
  before the link existed, with its numbering still open.

- **`NoticesKeepApart`.** A system notice without a task and without a key chosen by its sender gets
  the dedupeKey `SYSTEM_INFO:<user>:no-task:system` (`api/modules/notifications/notifications.service.ts:234`),
  so the upsert replaces the recipient's previous notice and keeps its being read.
  `skills/notification-idempotency-skill.md:261` forbids deduplication by which different business
  events overwrite one another.

Observations that contradict no document a run could quote, but that a maintainer may want to know:

- At shutdown the worker stops first, and nothing moves `memoryQueue` anywhere, so a notice that is in
  memory then keeps the drain from completing until its timeout reports it as unverified.
  `DrainCompletes` names this exception.
- Completing COLOR_NUMBERING links the project (`persistControlledColorNumber`) even when boards, plans
  or reviews exist by then, although `project-color-link.service.ts` says that records with an unknown
  standard must never be reinterpreted by a new link and refuses its own link there. `NumberColor` has it.
- A rework of MASS_PRODUCTION or of its plan is completed on a record of an earlier round: neither is
  among the stages that ask for their own. `ProofStands` therefore speaks of the others only.
- A lookup that has to pass more than 64 tasks gives up (`workflow-evidence.ts:72`), and the completion
  that needs it is refused. Every loop between two stages lengthens the way to the stages before them, so
  a project with dozens of returns can get there.
- Progress materials: the version of the task is checked before the stored result is looked for, so a
  retry after an upload that raised the version is refused though the first was carried out; and a crash
  between the reservation of an upload's key and its end leaves COMMAND_IN_PROGRESS for good.
- `eligibleTeamUserWhere` does not look at `teamAccessApproved`; binding from the host does not reassign
  tasks.

## 6. Proofs

Proved for every value of the constants. The only assumptions are the named ASSUMEs of the modules
(`BoundsAssumption`, `RecordBoundsAssumption`, `StorageAssumption`, `QueueAssumption`,
`AdmissionAssumption`, `TeamAssumption`, `TaskAssumption`); runs evaluate all of them.

**`ProjectWorkflow_proofs`.** `TypeCorrect`, `OneMainLineTask`, `OpenWorkIsCurrent`,
`NumberAndFeeOnce`, `PointersAgree`, `NeverRefused`, `HistoryStays`, for any number of rounds and
periods. None of the invariants is inductive alone: a new task is the only open one because the task
acted on was the only one; it is the latest round because closed tables hold nothing beyond the latest
round; a return does not leave superseded work open because every open task is the latest round and the
sweep takes all latest rounds. `WorkflowInv` is the conjunction of `Tables` (types, `OnePrimary`,
`Current`, `Unused`, `Once`), the pointers' types, `PointersFollowTasks`, the types of the rest, and what
`NeverRefused` needs: there is room ahead of the main line for the branches it opens, no branch is
open while the main line is at procurement or before, and no board detail is open beside a board; only
a return goes back before procurement, and it sweeps the branches. The lemmas about finishing actions
speak of **arbitrary** tables, not of the state, because two handlers apply them twice or to a table
just changed: registering the report makes two transitions in one step, confirming a sample records and
transitions. `Kept` (closed rows only gain a mark) is transitive (`KeptTwice`) and gives
`HistoryStays`. One lemma per handler shows `GoodStep`; `NextStep` puts them together.

**`ProjectProgress_proofs`.** `WorkAlwaysRemains`, `NothingSkipped`, `LookupReadsCurrentRound`,
`EngineRefinesLifecycle`, from `WorkflowInv` and three inductive invariants of its own. `ProgressInv` says
that everything before the open task stands (`Upstream`), that a running project without one stopped at a
rejected sample (`Alive`), and that the closing task exists exactly when every month is done
(`MonthsInOrder`); the last month ends the review and opens the closing in one step, so the months and
the main line are proved together. `LineMoves` is the lemma all
rest on: a finishing action on the main line leaves exactly its successor open, one beside it leaves the
line alone. `Chained` says that from the open task a chain of origins leads to the latest round of every
earlier stage, no task of that stage lying between, and every task on it once: so a chain is no longer than
the tasks behind, which is where `LineageIsCurrent` has its bound from. `WalkClimbs` shows that the lookup
reaches the end of a chain, by descent on the distance left; that a lookup of any length is defined at all
(`WalkExists`, `WalkUnfolds`) is proved too. The refinement takes initial states to initial states
and each handler to one step of `ProjectLifecycle` or a stutter, with the invariant `Reached`: a round that
was reached has a task, so number and fee can be read off their only one.

**`DomainRecords_proofs`.** `RecordsTyped`, `ProofAlways`, `NeverStarves`, `SeriesSound`,
`BoardUnique`: all four properties of the run, for any number of rounds, one or two records of each node
and any choice of ordinary completions. `StepKinds` first shows that there are only two kinds of steps:
those that work on the records of one open stage (`RecordStep`) and those that finish one
(`FinishStep`). The centre of `RecordsInv` is `Ahead`: while a stage is open that others rest on, those
others are idle, that is, not open, and invalid if they were completed. So whoever can still change a
record comes before whoever rests on it, and a stage opens only once everything behind it has been
swept or never was. Beside it `RecordsInv` keeps the rounds in step (a detail has no more rounds than
boards, the cabin has as many as trials, less the open one), which is why a reworked stage always finds
its predecessor reworked and bound to a record of its own; `NoFuture`, so that a new round starts empty;
and `Unconfirmed`, so that the sample a development was completed on is still to be signed.

**`AttachmentStorage_proofs`.** `StorageTyped`, `CleanBacked`, `PurgedEmpty`, `HistoryKept`,
`EndsFinal`, for any sets of uploads, legacy files and reconcilers, any quota and any number of
failures. The invariant, `StorageInv`, says what a request's place tells of its attachment
(`RequestsInStep`), that cleaners work only on files out of their request's hands and purge nothing of
the inventory (`CleanersInStep`), and that what a reconciler read of a claimed file cannot become a
reason to purge it (`BatchesInStep`). Its centre is `StaysAbandoned`: once a reservation has left
`RESERVED`, no step of anyone takes the file back into use, turns it into an inventoried one, or gives an
attached file bytes again once a key is empty. Every action is shown to respect it; that cleaners and
batches stay in step then follows from two lemmas. The order of the two purges is what makes
`PurgedEmpty` hold: with the quarantine key empty a rename can no longer fill the clean one.

`QuotaHolds` and `AdmittedFit` rest on `RoomInv`. Bytes alone say too little of room: an upload is admitted
before it has any. `RoomKept` therefore counts what may still come, one object for every upload whose
reservation is open (`Occupied`), and says of the admission under way that the space it has read, together
with the objects that stay whatever becomes of open reservations (`Kept`), is within the capacity. A
promotion or a purge between that reading and the sum of the reservations changes neither; a commit would
turn an open reservation into bytes that stay, and it waits for the quota lock the admission holds.
`BytesInPlace` puts the bytes of an upload under one key at a time, after its admission.

**`NotificationQueue_proofs`.** `QueueTyped`, `NoticesAccounted`, `CleanExit`, `RowsNeverGoBack`, for any
notices, capacities, batch, retries and failures. `NothingVanishes` needs the types (what is popped is a job, and
not one tried out); the clean exit needs `Quiet`: once the drain is complete no connection, handler,
worker or scan is active and memory is empty, so that only a refused request can still step. Three
lemmas say what a push at either end and a pop do to the notices of a queue, two what a full list or a
failing call makes of a push; with them each action is shown to keep every notice found. The leftover
jobs are all in the list at the start because the list is an injective enumeration of a finite set.
`NoticesInOrder` speaks of the rows alone and is not inductive: `Orderly` adds what is still on its way.
The rows, the job in hand and the Redis list from its end form one line, each notice admitted no later than
those behind it. A retry goes back to the end it was taken from, so it stays ahead of the list; a
delivery whose acknowledgement is lost leaves its notice both in the row and in the hand, which is why the
order is not strict.

**`TransferAdmission_proofs`.** `AdmissionTyped`, `CountersRight`, `LimitsHold`, `RateHolds`, for any
services, requests, limits, windows and trackers. The counters are cardinalities of the sets of leases
held, so each action adds or removes one element. `LimitsHold` needs that whoever uses the process
holds a lease: the stage, connection and stream of a request tell whether it does. `RateHolds` needs
that every recent admission is remembered (`RecentRemembered`): what a sweep forgets is out of every
window still to come, and no sweep or admission lies in the future.

**`TeamTasks_proofs`.** `TeamTyped`, `PasswordsFollowed`, `AdminAlways`, `OwnersTold`, `AnswersTrue`,
`RevokedRefused`, `RetriesSucceed`, for any people, roles, requests, commands and tasks. The invariant
says of a request what it has seen (`SeenInTime`: the account as it is, or an older version of it), that
two transactions share the authorization lock only on tasks of different projects (`LocksHeld`), and that
what a transaction decided on still stands when it commits (`GroundsStand`); of sessions, that one of the present version was opened with the present password
(`SessionsFollowPasswords`, with no version ahead of its account's, `SessionsInTime`); of tasks and answers, `TasksFollow` and `AnswersHold`. `AdminAlways` is the argument
that whoever takes rights away has counted another administrator under the exclusive lock, or is not
taking them from the last. `RetriesSucceed` rests on rights that are unchanged being rights that are
still sufficient.

**`TaskReminders_proofs`.** `ScansKeepLimits`, `ReminderInvariant`, `RepeatsAreFaults`, for any
scanners, tasks, users, pages, limits, changes and faults. That a pass repeats no more reminders than there
were faults is a matter of accounts, and `ReminderInv` keeps them: every fault pays for one reminder that
was repeated, one the stored cursor has not come past although it was sent (`Ahead`, less the one the
holder of the lease is about to store), one that a scan which has lost the lease may yet send
(`Overtaken`), or a lease that ran out and that nobody has taken (`RanOut`). The account balances only
because the holder of the lease is where the stored cursor says or one step further (`HolderInStep`).
`Limits` says how much of each limit a scan has used at every step. Pages are the first users of a finite
set; that such a set has a least element, which the paging rests on, is `Least`.

Model-checked only: the liveness properties `ReservationsSettle`, `EveryNoticeSettles`, `DrainCompletes`,
`LeaseReturns` and `EveryoneReminded`, since liveness under fairness is out of the proof system's reach.
Every invariant and every action property of the runs that pass is a theorem. Where a proof needs an
induction over numbers it does not cite the library's induction theorems, which take a formula as a
parameter: it takes the least element of a set of numbers, which exists because the finite subsets of
`Nat` are well founded (`Least`), or of the numbers a set lacks (`Climb`).

## 7. Plan

Done: the workflow engine with its abstract specification, the domain records, attachment storage, the
notification queue, transfer admission, accounts, assignment and reminders, each with its runs, and
proofs of every invariant and action property of theirs.

Left, in order of importance:

1. Progress materials and drafts (`r26-progress-material.service.ts`): a command that uploads, with its
   key reserved before and its result stored after. It would compose `AttachmentStorage` with the
   stored results of `TeamAccounts`.
2. Creation of projects as an idempotent command, and the import beside it.
3. The monthly review and its return in `DomainRecords`, and two records of every node at once.
4. Proofs: abstract specifications of the attachment pipeline (a ledger of admitted, retained and freed
   bytes) and of assignment (owners and epochs), with refinements like that of `ProjectLifecycle`; and for
   each liveness property the steps of its argument that need no fairness, such as that during a drain
   the work left never grows.

## 8. Not modelled, and why

- **Administration.** `RetiredConfigurationGuard` answers 410 to the routes that change users,
  departments, assignments, role permissions and batches, so most of
  `admin-control-center.service.ts`, the longest file of the API, cannot be reached. The rest, with
  catalogues, suppliers and standards, is row-by-row administration.
- **Queries.** Dashboards, analytics, exports, lists and the read models change nothing. They, the checks
  of fields and the mapping of rows to answers are most of the lines of every service, which is why the
  map covers a small share of the lines although it covers the handlers that change state.
- **Records beside the workflow.** Fees, colour exits, the colour register, retrospectives: no stage
  waits for them, and they are written one row at a time. Updates of fields, distributions of boards and
  issues of trials, for the same reason.
- **Progress materials, drafts and blockers, creation of projects:** see the plan.
- **Reminders:** a cursor that cannot be parsed, a candidate that is gone (nothing deletes tasks), an
  inactive plan, a task whose data make every reminder of it fail.
- **Accounts:** registration and the first administrator, password hashing and its queue, counting of
  failed logins, expiry of sessions, the Feishu login, limits of rate and size.
- **Storage:** replacing, deleting and binding attachments (logical: the bytes stay), downloads beyond
  their admission. The ClamAV protocol and its gate are reduced to the verdict.
- **Notices:** reading and marking them are queries and single updates.
- The web client and the deployment scripts hold no state the server relies on.
