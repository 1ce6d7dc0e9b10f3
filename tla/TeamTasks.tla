------------------------------ MODULE TeamTasks ------------------------------
(***************************************************************************)
(* Claims, transfers and completions of tasks, and what a change of        *)
(* personnel makes of the tasks of the people it touches.  An assignment   *)
(* is fenced by an epoch, and its notices by the same.                     *)
(*                                                                         *)
(* Monthly tasks stand for due periods of an open review.                  *)
(***************************************************************************)
EXTENDS TeamAccounts

CONSTANTS Tasks, Monthly,
          RoleOf,       \* NODE_BUSINESS_ROLES
          ProjectOf,
          TaskOf,       \* the task a command is about
          NextTasks,    \* the tasks that follow when one is completed
          OpenAtStart,
          MaxEpoch      \* bound: no claim is made beyond this epoch

ASSUME TaskAssumption ==
  /\ Monthly \subseteq Tasks /\ OpenAtStart \subseteq Tasks
  /\ RoleOf \in [Tasks -> Roles] /\ TaskOf \in [Commands -> Tasks]
  /\ \A c \in Commands : Kind[c] = "complete" => TaskOf[c] \notin Monthly
  /\ \A c \in Commands : Kind[c] = "claim" => Subject[c] = Actor[c]
  /\ NextTasks \in [Tasks -> SUBSET (Tasks \ OpenAtStart)]
  /\ \A s, t \in Tasks : s # t => NextTasks[s] \cap NextTasks[t] = {}
  /\ MaxEpoch \in Nat

VARIABLES task,      \* the tasks with their owners and epochs
          notices    \* the epochs each user has an ACTIVATE notice of

taskVars == <<task, notices>>
vars == <<accountVars, request, results, taskVars>>

TaskStates == [status : {"none", "open", "closed"}, owner : Users \cup {None}, epoch : Nat]
Open(t) == task[t].status = "open"

-----------------------------------------------------------------------------

Able(accounts, t) == {u \in Users : Eligible(accounts, u, RoleOf[t])}

(* The only eligible person is assigned at once.                           *)
Sole(accounts, t) ==
  IF Cardinality(Able(accounts, t)) = 1 THEN CHOOSE u \in Users : u \in Able(accounts, t)
  ELSE None

(* Mutant: a notice the person has already keeps its epoch.                *)
NotifiedOnce(told, accounts, t, owner, epoch) ==
  [u \in Users |->
     IF u \in Able(accounts, t) /\ owner \in {u, None} /\ told[t][u] = {}
     THEN {epoch} ELSE told[t][u]]

(* The owner is told, or everyone who may claim the task.                  *)
Notified(told, accounts, t, owner, epoch) ==
  [u \in Users |->
     IF u \in Able(accounts, t) /\ owner \in {u, None} THEN {epoch} ELSE told[t][u]]

(* Mutant: tasks change hands without a new epoch.                         *)
ReassignedSilently(accounts, t) ==
  [status |-> task[t].status, owner |-> Sole(accounts, t), epoch |-> task[t].epoch]

Reassigned(accounts, t) ==
  [status |-> task[t].status, owner |-> Sole(accounts, t), epoch |-> task[t].epoch + 1]

(* The tasks a change of u, who had or gets some of the roles, may move.   *)
Affected(u, roles) ==
  {t \in Tasks : Open(t) /\ (\/ task[t].owner = u
                             \/ task[t].owner = None /\ RoleOf[t] \in roles)}

(* A valid owner stays; otherwise the task goes to the only eligible       *)
(* person, or back to the queue.                                           *)
Moved(accounts, u, roles) ==
  {t \in Affected(u, roles) : /\ task[t].owner \notin Able(accounts, t)
                              /\ task[t].owner # Sole(accounts, t)}

Reconcile(accounts, u, roles) ==
  LET moved == Moved(accounts, u, roles)
      now   == [t \in Tasks |-> IF t \in moved THEN Reassigned(accounts, t) ELSE task[t]]
  IN
  /\ task' = now
  /\ notices' =
       [t \in Tasks |->
          IF t \in moved \ Monthly
          THEN Notified(notices, accounts, t, now[t].owner, now[t].epoch)
          ELSE notices[t]]

(* What a change of personnel does to the account, it does to the tasks.   *)
ChangePersonnel(r) ==
  LET u == SubjectOf(r) IN
  /\ CommitPersonnel(r)
  /\ IF account' = account THEN UNCHANGED taskVars
     ELSE Reconcile(account', u, account[u].roles \cup account'[u].roles)

-----------------------------------------------------------------------------
(* Writes of the team.  The form shows an epoch of the task that may be    *)
(* out of date; a completion looks for its result before it takes a lock.  *)

AdmitWrite(r, c) ==
  LET a == account[Actor[c]] t == TaskOf[c] IN
  /\ Kind[c] \in TaskKinds
  /\ task[t].epoch < MaxEpoch
  /\ LoggedIn(Actor[c]) /\ Approved(a)
  /\ Kind[c] = "transfer" => a.admin
  /\ Kind[c] = "complete" => results[c] = {}
  /\ \E form \in {e \in {task[t].epoch - 1, task[t].epoch} : e >= 0} : Admit(r, c, form)
  /\ UNCHANGED <<accountVars, results, taskVars>>

(* The actor is the one that was admitted, with every role it had.         *)
StillEntitled(r) ==
  LET a == account[ActorOf(r)] seen == request[r].seen IN
  /\ Current(r) /\ Approved(a)
  /\ a.admin = seen.admin /\ a.approved = seen.approved
  /\ seen.roles \subseteq a.roles

(* The shared authorization lock and the lock of the project can be had.   *)
Locks(r) ==
  /\ Admissible(r)
  /\ \A q \in Requests \ {r} :
       InTransaction(q) /\ KindOf(q) \in TaskKinds =>
         ProjectOf[TaskOf[request[q].command]] # ProjectOf[TaskOf[request[r].command]]

Receiver(r) == SubjectOf(r)

MayReceive(r) ==
  LET t == TaskOf[request[r].command] IN
  /\ Open(t) /\ task[t].epoch = request[r].form
  /\ KindOf(r) = "claim" => /\ RoleOf[t] \in request[r].seen.roles
                            /\ task[t].owner \in {None, ActorOf(r)}
  /\ Receiver(r) \in Able(account, t)

DecideClaim(r) ==
  /\ request[r].step = "admitted" /\ KindOf(r) \in {"claim", "transfer"} /\ Locks(r)
  /\ IF ~(StillEntitled(r) /\ (Answered(r) \/ MayReceive(r))) THEN Refuse(r)
     ELSE IF Answered(r) THEN End(r) ELSE Decide(r)
  /\ UNCHANGED <<accountVars, results, taskVars>>

(* A claim of what one owns already is granted and changes nothing but     *)
(* the reminder of a monthly task.                                         *)
Granted(r) ==
  LET s == task[TaskOf[request[r].command]] IN
  [status |-> s.status, owner |-> Receiver(r),
   epoch |-> IF s.owner = Receiver(r) THEN s.epoch ELSE s.epoch + 1]

CommitClaim(r) ==
  LET t == TaskOf[request[r].command] g == Granted(r) IN
  /\ \E kind \in {"claim", "transfer"} : Commit(r, kind)
  /\ task' = [task EXCEPT ![t] = g]
  /\ notices' =
       IF g = task[t] /\ t \notin Monthly THEN notices
       ELSE [notices EXCEPT ![t] = Notified(notices, account, t, g.owner, g.epoch)]
  /\ Store(r, g.owner, g.epoch)
  /\ UNCHANGED accountVars

(* Anyone approved may complete a task that is as the form showed it.  No  *)
(* result is looked up any more: of two copies sent together the second    *)
(* finds the task closed.                                                  *)
DecideCompletion(r) ==
  LET t == TaskOf[request[r].command] IN
  /\ request[r].step = "admitted" /\ KindOf(r) = "complete" /\ Locks(r)
  /\ IF StillEntitled(r) /\ Open(t) /\ task[t].epoch = request[r].form
     THEN Decide(r) ELSE Refuse(r)
  /\ UNCHANGED <<accountVars, results, taskVars>>

(* The tasks that follow are assigned and announced in the same            *)
(* transaction.                                                            *)
Created(t) == [status |-> "open", owner |-> Sole(account, t), epoch |-> 0]

CommitCompletion(r) ==
  LET t == TaskOf[request[r].command] IN
  /\ Commit(r, "complete")
  /\ task' = [n \in Tasks |->
       IF n = t THEN [status |-> "closed", owner |-> task[t].owner, epoch |-> task[t].epoch]
       ELSE IF n \in NextTasks[t] THEN Created(n) ELSE task[n]]
  /\ notices' = [n \in Tasks |->
       IF n \in NextTasks[t] \ (Monthly \cup {t})
       THEN Notified(notices, account, n, Created(n).owner, 0) ELSE notices[n]]
  /\ Store(r, None, 0)
  /\ UNCHANGED accountVars

-----------------------------------------------------------------------------

Unassigned == [status |-> "none", owner |-> None, epoch |-> 0]
LoggedInAs(u) == [user |-> u, version |-> account[u].version, password |-> account[u].password]
Untold     == [t \in Tasks |-> [u \in Users |-> {}]]

Init ==
  /\ account = Members
  /\ sessions = {LoggedInAs(u) : u \in {x \in Users : account[x].password # 0}}
  /\ request = [r \in Requests |-> Idle]
  /\ results = [c \in Commands |-> {}]
  /\ task = [t \in Tasks |-> IF t \in OpenAtStart THEN Created(t) ELSE Unassigned]
  /\ notices = [t \in Tasks |->
       IF t \in OpenAtStart \ Monthly
       THEN Notified(Untold, account, t, Created(t).owner, 0) ELSE Untold[t]]

Next ==
  \/ AccountStep /\ UNCHANGED taskVars
  \/ \E r \in Requests :
       \/ ChangePersonnel(r) \/ DecideClaim(r) \/ CommitClaim(r)
       \/ DecideCompletion(r) \/ CommitCompletion(r)
       \/ \E c \in Commands : AdmitWrite(r, c)

Spec == Init /\ [][Next]_vars

-----------------------------------------------------------------------------
(* Every reachable state is well typed, and an account with a recovery     *)
(* code has no password.                                                   *)
TypeOK ==
  /\ account \in [Users -> Accounts]
  /\ \A u \in Users : account[u].code # 0 => account[u].password = 0
  /\ sessions \subseteq Sessions
  /\ request \in [Requests -> RequestStates]
  /\ results \in [Commands -> SUBSET Result]
  /\ task \in [Tasks -> TaskStates]
  /\ notices \in [Tasks -> [Users -> SUBSET Nat]]

(* A session whose version still counts was opened with the password that  *)
(* still counts: a password changed, reset or recovered between the check  *)
(* of the old one and the writing of the session leaves it dead.           *)
(* (native-auth.service.ts:69-94 against 111-191.)                         *)
SessionsFollowPasswords ==
  \A s \in sessions : s.version = account[s.user].version =>
                        s.password = account[s.user].password

(* There is always an active administrator who can log in, however         *)
(* deactivations, recovery codes and passwords cross.                      *)
(* (personnel.service.ts:98-103, native-auth.service.ts:148-152.)          *)
AdminRemains ==
  \E u \in Users : /\ account[u].active /\ account[u].admin
                   /\ account[u].credential /\ account[u].password # 0

(* A transaction of an actor takes effect only while the account is the    *)
(* one that was admitted: no change of rights commits between the check    *)
(* under the lock and the commit.  (team-authorization.ts:9-49.)           *)
RevokedNeverAct ==
  [][\A r \in Requests :
       request[r].step = "decided" /\ KindOf(r) \notin HostKinds \cup {"login"}
       /\ <<account, task, results>>' # <<account, task, results>> /\ request'[r] # request[r]
       => /\ Current(r)
          /\ KindOf(r) \in TaskKinds => Approved(account[ActorOf(r)])
          /\ KindOf(r) = "claim" => ActorOf(r) \in Able(account, TaskOf[request[r].command])]_vars

(* Whoever owns an open task is entitled to it and has been told in its    *)
(* present epoch, so that the notice is shown; monthly tasks handed over   *)
(* by a change of personnel wait for the next scan of reminders.           *)
(* (team-assignment.ts:23-131, task-reminder.rules.ts:15-20.)              *)
OwnersAreTold ==
  \A t \in Tasks : Open(t) /\ task[t].owner # None =>
    /\ task[t].owner \in Able(account, t)
    /\ t \notin Monthly => notices[t][task[t].owner] = {task[t].epoch}

(* The answer given to a claim or transfer is true for as long as the      *)
(* epoch it names is the task's: two claims of one epoch are never both    *)
(* granted, and nothing moves a task without leaving that epoch.           *)
(* (team-tasks.service.ts:82-108, team-assignment.ts:101-102.)             *)
AnswersHold ==
  \A c \in Commands : Kind[c] \in {"claim", "transfer"} =>
    \A a \in results[c] : /\ a.epoch <= task[TaskOf[c]].epoch
                          /\ a.epoch = task[TaskOf[c]].epoch => a.owner = task[TaskOf[c]].owner

(* What has taken effect is never refused when it is sent again by an      *)
(* actor whose rights are the same, whatever has become of the task or     *)
(* the account since.                                                      *)
(* (team-tasks.service.ts:82-86, personnel.service.ts:88-92.)              *)
RetriesAnswered ==
  [][\A r \in Requests :
       /\ request[r].step = "admitted" /\ request'[r].step = "refused"
       /\ KindOf(r) \in {"claim", "transfer", "personnel"}
       /\ results[request[r].command] # {}
       => ~Current(r)]_vars

=============================================================================
