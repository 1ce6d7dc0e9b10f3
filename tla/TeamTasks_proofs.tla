--------------------------- MODULE TeamTasks_proofs ---------------------------
(***************************************************************************)
(* What the authorization lock, the versions of accounts and the epochs of *)
(* tasks give, for any people, roles, requests, commands and tasks.        *)
(***************************************************************************)
EXTENDS TeamTasks, FiniteSetTheorems, TLAPS

(* An account and a request are well formed.                               *)
WellFormed ==
  /\ \A u \in Users : account[u].version > 0
  /\ \A r \in Requests : ~Free(r) => request[r].command \in Commands

(* What a request has seen is the account as it is, or an older version.   *)
SeenInTime ==
  \A r \in Requests : ~Free(r) =>
    LET u == ActorOf(r) IN
    /\ request[r].seen.version <= account[u].version
    /\ request[r].seen.version = account[u].version => request[r].seen = account[u]

SessionsInTime ==
  \A s \in sessions : s.version <= account[s.user].version

(* Two transactions that are under way share the authorization lock and    *)
(* are about tasks of different projects.                                  *)
LocksHeld ==
  \A q, r \in Requests : q # r /\ InTransaction(q) /\ InTransaction(r) =>
    /\ KindOf(q) \notin ExclusiveKinds /\ KindOf(r) \notin ExclusiveKinds
    /\ ProjectOf[TaskOf[request[q].command]] # ProjectOf[TaskOf[request[r].command]]

(* What a transaction has decided on still stands when it commits.         *)
Grounds(r) ==
  /\ KindOf(r) \notin HostKinds => Current(r)
  /\ KindOf(r) \in TaskKinds =>
       /\ StillEntitled(r)
       /\ Open(TaskOf[request[r].command])
  /\ KindOf(r) \in {"claim", "transfer"} => MayReceive(r)
  /\ KindOf(r) = "issue" => MayIssue(r)
  /\ KindOf(r) = "personnel" => LeavesAdmin(r)

GroundsStand == \A r \in Requests : InTransaction(r) => Grounds(r)

(* A task that follows another is not there before that one is closed, and *)
(* nobody was given a task that is not there.                              *)
TasksFollow ==
  /\ \A t \in Tasks : \A n \in NextTasks[t] :
       task[t].status # "closed" => task[n].status = "none"
  /\ \A c \in Commands : Kind[c] \in {"claim", "transfer"} /\ results[c] # {} =>
       task[TaskOf[c]].status # "none"

AccountInv == TypeOK /\ WellFormed /\ SeenInTime /\ SessionsInTime /\ LocksHeld /\ GroundsStand

-----------------------------------------------------------------------------
(* The steps, by what they do to the requests.                             *)

dataVars == <<account, sessions, results, task, notices>>

(* The request is over, or refused, and has written nothing.  What has     *)
(* taken effect is refused only for want of rights.                        *)
Rightly(r) ==
  Answered(r) => /\ KindOf(r) \in {"claim", "transfer"} => ~StillEntitled(r)
                 /\ KindOf(r) = "personnel" => ~(Current(r) /\ account[ActorOf(r)].admin)

Quits(r) ==
  /\ \/ request' = [request EXCEPT ![r] = Idle]
     \/ request' = [request EXCEPT ![r] = Refused] /\ Rightly(r)
  /\ UNCHANGED dataVars

(* The rights a command asks for.                                          *)
Lets(c, a) ==
  /\ Kind[c] \in TaskKinds => Approved(a)
  /\ Kind[c] \in AdminKinds => a.admin

Admits(r, c, form) ==
  /\ Lets(c, account[Actor[c]])
  /\ request' = [request EXCEPT ![r] = [step |-> "admitted", command |-> c,
                                        seen |-> account[Actor[c]], form |-> form]]
  /\ UNCHANGED dataVars

(* The transaction has its locks and has decided.                          *)
Decides(r) ==
  /\ request[r].step = "admitted"
  /\ request' = [request EXCEPT ![r].step = "decided"]
  /\ KindOf(r) # "login" =>
       /\ Admissible(r) /\ Grounds(r)
       /\ KindOf(r) \in TaskKinds => Locks(r)
  /\ UNCHANGED dataVars

CommitsChange(r) ==
  CommitIssue(r) \/ CommitPassword(r) \/ CommitGrant(r) \/ CommitPersonnel(r)

(* A transaction that changes accounts or tasks.                           *)
Commits(r) ==
  \/ CommitsChange(r) /\ UNCHANGED taskVars /\ KindOf(r) # "personnel"
  \/ ChangePersonnel(r)
  \/ CommitClaim(r)
  \/ CommitCompletion(r)

Opens(r) == OpenSession(r) /\ UNCHANGED taskVars

Steps(r) ==
  \/ Quits(r)
  \/ \E c \in Commands, form \in Nat : Admits(r, c, form)
  \/ Decides(r)
  \/ Opens(r)
  \/ Commits(r)

LEMMA NextSteps ==
  ASSUME TypeOK, WellFormed, Next
  PROVE  \E r \in Requests : Steps(r)
<1>1. ASSUME NEW r \in Requests, Fail(r), UNCHANGED taskVars
      PROVE  Steps(r)
  BY <1>1 DEF Fail, End, Steps, Quits, dataVars, accountVars, taskVars
<1>2. ASSUME NEW r \in Requests, ConfirmLogin(r), UNCHANGED taskVars
      PROVE  Steps(r)
  <2>1. CASE Decide(r)
    BY <1>2, <2>1 DEF ConfirmLogin, Decide, Steps, Decides, dataVars, accountVars, taskVars
  <2>2. CASE Refuse(r)
    BY <1>2, <2>2 DEF ConfirmLogin, Refuse, Steps, Quits, Rightly, dataVars, accountVars, taskVars
  <2> QED
    BY <1>2, <2>1, <2>2 DEF ConfirmLogin
<1>3. ASSUME NEW r \in Requests, OpenSession(r), UNCHANGED taskVars
      PROVE  Steps(r)
  BY <1>3 DEF Steps, Opens
<1>4. ASSUME NEW r \in Requests, UNCHANGED <<accountVars, results, taskVars>>,
             (Refuse(r) /\ Rightly(r)) \/ End(r)
      PROVE  Steps(r)
  BY <1>4 DEF End, Refuse, Steps, Quits, dataVars, accountVars, taskVars
<1>5. ASSUME NEW r \in Requests, UNCHANGED <<accountVars, results, taskVars>>,
             request[r].step = "admitted", Decide(r), Admissible(r), Grounds(r),
             KindOf(r) \in TaskKinds => Locks(r)
      PROVE  Steps(r)
  BY <1>5 DEF Decide, Steps, Decides, dataVars, accountVars, taskVars
<1>6. ASSUME NEW r \in Requests, DecidePersonnel(r), UNCHANGED taskVars
      PROVE  Steps(r)
  <2>1. UNCHANGED <<accountVars, results, taskVars>> /\ request[r].step = "admitted"
        /\ Admissible(r) /\ KindOf(r) = "personnel"
    BY <1>6 DEF DecidePersonnel
  <2>2. CASE Refuse(r) /\ ~(Current(r) /\ account[ActorOf(r)].admin /\ MayChange(r))
    BY <1>4, <2>1, <2>2 DEF Rightly, MayChange
  <2>4. CASE End(r)
    BY <1>4, <2>1, <2>4
  <2>3. CASE Decide(r) /\ Current(r) /\ LeavesAdmin(r)
    <3>1. Grounds(r)
      BY <2>1, <2>3 DEF Grounds, TaskKinds
    <3> QED
      BY <1>5, <2>1, <2>3, <3>1 DEF TaskKinds
  <2> QED
    BY <1>6, <2>2, <2>3, <2>4 DEF DecidePersonnel, MayChange
<1>7. ASSUME NEW r \in Requests, DecideChange(r), UNCHANGED taskVars
      PROVE  Steps(r)
  <2>1. UNCHANGED <<accountVars, results, taskVars>> /\ request[r].step = "admitted"
        /\ Admissible(r) /\ KindOf(r) \in ExclusiveKinds \ {"personnel"}
    BY <1>7 DEF DecideChange
  <2>2. CASE Refuse(r) \/ End(r)
    BY <1>4, <2>1, <2>2 DEF Rightly, ExclusiveKinds, AdminKinds, OwnKinds, HostKinds
  <2>3. CASE Decide(r) /\ MayCommit(r)
    <3>1. Grounds(r)
      BY <2>1, <2>3 DEF Grounds, MayCommit, TaskKinds, ExclusiveKinds, AdminKinds, OwnKinds, HostKinds
    <3> QED
      BY <1>5, <2>1, <2>3, <3>1 DEF TaskKinds, ExclusiveKinds, AdminKinds, OwnKinds, HostKinds
  <2> QED
    BY <1>7, <2>2, <2>3 DEF DecideChange
<1>8. ASSUME NEW r \in Requests, CommitIssue(r) \/ CommitPassword(r) \/ CommitGrant(r),
             UNCHANGED taskVars
      PROVE  Steps(r)
  BY <1>8 DEF Steps, Commits, CommitsChange, CommitIssue, CommitPassword, CommitGrant, Commit,
              OwnKinds
<1>9. ASSUME NEW r \in Requests, NEW c \in Commands, VerifyPassword(r, c), UNCHANGED taskVars
      PROVE  Steps(r)
  BY <1>9 DEF VerifyPassword, Admit, Steps, Admits, Lets, TaskKinds, AdminKinds,
             dataVars, accountVars, taskVars
<1>10. ASSUME NEW r \in Requests, NEW c \in Commands, AdmitChange(r, c), UNCHANGED taskVars
       PROVE  Steps(r)
  <2>1. account[Subject[c]].version \in Nat /\ account[Subject[c]].version > 0
    BY TeamAssumption DEF TypeOK, WellFormed, Accounts
  <2>2. \A form \in {account[Subject[c]].version - 1, account[Subject[c]].version} : form \in Nat
    BY <2>1
  <2> QED
    BY <1>10, <2>2 DEF AdmitChange, Admit, Steps, Admits, MayAsk, Lets, TaskKinds, AdminKinds, OwnKinds, HostKinds,
              dataVars, accountVars, taskVars
<1>11. ASSUME NEW r \in Requests, NEW c \in Commands, AdmitWrite(r, c)
       PROVE  Steps(r)
  <2>1. task[TaskOf[c]].epoch \in Nat
    BY TaskAssumption DEF TypeOK, TaskStates
  <2>2. \A form \in {e \in {task[TaskOf[c]].epoch - 1, task[TaskOf[c]].epoch} : e >= 0} : form \in Nat
    BY <2>1
  <2> QED
    BY <1>11, <2>2 DEF AdmitWrite, Admit, Steps, Admits, Lets, TaskKinds, AdminKinds,
              dataVars, accountVars, taskVars
<1>12. ASSUME NEW r \in Requests, DecideClaim(r)
       PROVE  Steps(r)
  <2>1. UNCHANGED <<accountVars, results, taskVars>> /\ request[r].step = "admitted"
        /\ Locks(r) /\ Admissible(r) /\ KindOf(r) \in {"claim", "transfer"}
    BY <1>12 DEF DecideClaim, Locks
  <2>2. CASE Refuse(r) /\ ~(StillEntitled(r) /\ Answered(r))
    BY <1>4, <2>1, <2>2 DEF Rightly
  <2>4. CASE End(r)
    BY <1>4, <2>1, <2>4
  <2>3. CASE Decide(r) /\ StillEntitled(r) /\ MayReceive(r)
    <3>1. Grounds(r)
      BY <2>1, <2>3 DEF Grounds, StillEntitled, MayReceive, TaskKinds
    <3> QED
      BY <1>5, <2>1, <2>3, <3>1
  <2> QED
    BY <1>12, <2>2, <2>3, <2>4 DEF DecideClaim
<1>13. ASSUME NEW r \in Requests, DecideCompletion(r)
       PROVE  Steps(r)
  <2>1. UNCHANGED <<accountVars, results, taskVars>> /\ request[r].step = "admitted"
        /\ Locks(r) /\ Admissible(r) /\ KindOf(r) = "complete"
    BY <1>13 DEF DecideCompletion, Locks
  <2>2. CASE Refuse(r)
    BY <1>4, <2>1, <2>2 DEF Rightly
  <2>3. CASE Decide(r) /\ StillEntitled(r) /\ Open(TaskOf[request[r].command])
    <3>1. Grounds(r)
      BY <2>1, <2>3 DEF Grounds, StillEntitled, TaskKinds
    <3> QED
      BY <1>5, <2>1, <2>3, <3>1
  <2> QED
    BY <1>13, <2>2, <2>3 DEF DecideCompletion
<1>14. ASSUME NEW r \in Requests, ChangePersonnel(r) \/ CommitClaim(r) \/ CommitCompletion(r)
       PROVE  Steps(r)
  BY <1>14 DEF Steps, Commits
<1> QED
  BY <1>1, <1>2, <1>3, <1>6, <1>7, <1>8, <1>9, <1>10, <1>11, <1>12, <1>13, <1>14
     DEF Next, AccountStep

-----------------------------------------------------------------------------
(* What a commit makes of the accounts.                                    *)

LEMMA AccountFields ==
  ASSUME NEW a \in Accounts, NEW n \in Nat
  PROVE  /\ [a EXCEPT !.password = n] \in Accounts
         /\ [a EXCEPT !.code = n] \in Accounts
         /\ [a EXCEPT !.credential = TRUE] \in Accounts
         /\ [a EXCEPT !.admin = TRUE] \in Accounts
BY DEF Accounts

(* A code in place of the password, or a password in place of the code.    *)
LEMMA CredentialSet ==
  ASSUME NEW a \in Accounts
  PROVE  /\ Issued(a) \in Accounts /\ Issued(a).password = 0
         /\ LET b == [a EXCEPT !.credential = TRUE, !.code = 0, !.password = a.version + 1]
            IN b \in Accounts /\ b.code = 0
<1>1. a.version + 1 \in Nat
  BY DEF Accounts
<1>2. [a EXCEPT !.password = 0] \in Accounts
  BY AccountFields
<1>3. [[a EXCEPT !.password = 0] EXCEPT !.code = a.version + 1] \in Accounts
  BY <1>1, <1>2, AccountFields
<1>4. [a EXCEPT !.password = 0, !.code = a.version + 1].password = 0
  BY DEF Accounts
<1>5. [a EXCEPT !.credential = TRUE] \in Accounts
  BY AccountFields
<1>6. [[a EXCEPT !.credential = TRUE] EXCEPT !.code = 0] \in Accounts
  BY <1>5, AccountFields
<1>7. [[[a EXCEPT !.credential = TRUE] EXCEPT !.code = 0] EXCEPT !.password = a.version + 1] \in Accounts
  BY <1>1, <1>6, AccountFields
<1>8. [a EXCEPT !.credential = TRUE, !.code = 0, !.password = a.version + 1].code = 0
  BY DEF Accounts
<1> QED
  BY <1>3, <1>4, <1>7, <1>8 DEF Issued

LEMMA OneChanged ==
  ASSUME TypeOK, WellFormed, NEW u \in Users, NEW a \in Accounts,
         a.code # 0 => a.password = 0, account' = Changed(u, a)
  PROVE  /\ account' \in [Users -> Accounts]
         /\ \A v \in Users : /\ account'[v].version > 0
                             /\ account'[v].code # 0 => account'[v].password = 0
                             /\ v # u => account'[v] = account[v]
         /\ account'[u] = [a EXCEPT !.version = account[u].version + 1]
         /\ account'[u].version > account[u].version
<1>1. account[u] \in Accounts /\ account[u].version \in Nat
  BY DEF TypeOK, Accounts
<1>2. [a EXCEPT !.version = account[u].version + 1] \in Accounts
  BY <1>1 DEF Accounts
<1>3. /\ account'[u] = [a EXCEPT !.version = account[u].version + 1]
      /\ \A v \in Users : v # u => account'[v] = account[v]
  BY DEF Changed, TypeOK
<1>4. account' \in [Users -> Accounts]
  BY <1>2 DEF Changed, TypeOK
<1>5. /\ account'[u].version = account[u].version + 1
      /\ account'[u].code = a.code /\ account'[u].password = a.password
  BY <1>3 DEF Accounts
<1>6. ASSUME NEW v \in Users
      PROVE  /\ account'[v].version > 0
             /\ account'[v].code # 0 => account'[v].password = 0
             /\ v # u => account'[v] = account[v]
  <2>1. CASE v = u
    BY <1>1, <1>5, <2>1
  <2>2. CASE v # u
    BY <1>3, <2>2 DEF TypeOK, WellFormed
  <2> QED
    BY <2>1, <2>2
<1> QED
  BY <1>1, <1>3, <1>4, <1>5, <1>6

(* Accounts stay well formed, and each one that changes gets a new version.*)
AccountsMoveOn ==
  /\ account' \in [Users -> Accounts]
  /\ \A u \in Users : /\ account'[u].version > 0
                      /\ account'[u].code # 0 => account'[u].password = 0
                      /\ account'[u] = account[u] \/ account'[u].version > account[u].version

LEMMA CommitWrites ==
  ASSUME TypeOK, WellFormed, NEW r \in Requests, Commits(r)
  PROVE  /\ InTransaction(r) /\ ~Free(r) /\ request[r].command \in Commands
         /\ request' = [request EXCEPT ![r] = Idle]
         /\ sessions' = sessions
         /\ AccountsMoveOn
         /\ KindOf(r) \in TaskKinds => account' = account
         /\ KindOf(r) \notin TaskKinds \cup {"personnel"} => UNCHANGED taskVars
<1> DEFINE u == SubjectOf(r)
<1>0. /\ request[r].step = "decided" /\ request' = [request EXCEPT ![r] = Idle]
      /\ KindOf(r) # "login"
      /\ sessions' = sessions
  BY DEF Commits, CommitsChange, CommitIssue, CommitPassword, CommitGrant, CommitPersonnel,
         ChangePersonnel, CommitClaim, CommitCompletion, Commit, End, OwnKinds, accountVars
<1>1. InTransaction(r) /\ ~Free(r) /\ request[r].command \in Commands
  BY <1>0 DEF InTransaction, Free, WellFormed
<1>2. u \in Users /\ account[u] \in Accounts
      /\ (account[u].code # 0 => account[u].password = 0)
      /\ account[u].version \in Nat /\ account[u].version > 0
  BY <1>1, TeamAssumption DEF SubjectOf, TypeOK, WellFormed, Accounts
<1>3. ASSUME account' = account PROVE AccountsMoveOn
  BY <1>3 DEF AccountsMoveOn, TypeOK, WellFormed
<1>4. ASSUME NEW a \in Accounts, a.code # 0 => a.password = 0, account' = Changed(u, a)
      PROVE  AccountsMoveOn
  BY <1>2, <1>4, OneChanged DEF AccountsMoveOn
<1>5. CASE CommitIssue(r)
  <2>1. Issued(account[u]) \in Accounts /\ Issued(account[u]).password = 0
    BY <1>2, CredentialSet
  <2> QED
    BY <1>0, <1>1, <1>4, <1>5, <2>1
       DEF CommitIssue, Commits, CommitsChange, Commit, ChangePersonnel, CommitPersonnel, CommitPassword,
           CommitGrant, CommitClaim, CommitCompletion, OwnKinds, TaskKinds
<1>6. CASE CommitPassword(r)
  <2> DEFINE a == [account[u] EXCEPT !.credential = TRUE, !.code = 0,
                                     !.password = account[u].version + 1]
  <2>1. a \in Accounts /\ a.code = 0
    BY <1>2, CredentialSet
  <2>2. account' = Changed(u, a)
    BY <1>6 DEF CommitPassword
  <2>3. AccountsMoveOn
    BY <1>4, <2>1, <2>2
  <2> QED
    BY <1>0, <1>1, <1>6, <2>3
       DEF CommitIssue, Commits, CommitsChange, Commit, ChangePersonnel, CommitPersonnel, CommitPassword,
           CommitGrant, CommitClaim, CommitCompletion, OwnKinds, TaskKinds
<1>7. CASE CommitGrant(r)
  <2> DEFINE a == [account[u] EXCEPT !.admin = TRUE]
  <2>1. a \in Accounts /\ (a.code # 0 => a.password = 0)
    BY <1>2 DEF Accounts
  <2>2. account' = account \/ account' = Changed(u, a)
    BY <1>7 DEF CommitGrant
  <2>3. AccountsMoveOn
    BY <1>3, <1>4, <2>1, <2>2
  <2> QED
    BY <1>0, <1>1, <1>7, <2>3
       DEF CommitIssue, Commits, CommitsChange, Commit, ChangePersonnel, CommitPersonnel, CommitPassword,
           CommitGrant, CommitClaim, CommitCompletion, OwnKinds, TaskKinds
<1>8. CASE ChangePersonnel(r)
  <2> DEFINE c == request[r].command a == ChangedBy(c)
  <2>1. a \in Accounts /\ (a.code # 0 => a.password = 0)
    BY <1>1, <1>2, TeamAssumption DEF ChangedBy, Accounts, SubjectOf
  <2>2. account' = account \/ account' = Changed(u, a)
    BY <1>8 DEF ChangePersonnel, CommitPersonnel, SubjectOf
  <2>3. AccountsMoveOn
    BY <1>3, <1>4, <2>1, <2>2
  <2> QED
    BY <1>0, <1>1, <1>8, <2>3 DEF ChangePersonnel, CommitPersonnel, Commit, TaskKinds
<1>9. CASE CommitClaim(r) \/ CommitCompletion(r)
  <2>1. account' = account
    BY <1>9 DEF CommitClaim, CommitCompletion, accountVars
  <2>2. KindOf(r) \in TaskKinds
    BY <1>9 DEF CommitClaim, CommitCompletion, Commit, TaskKinds
  <2> QED
    BY <1>0, <1>1, <1>3, <2>1, <2>2
<1> QED
  BY <1>5, <1>6, <1>7, <1>8, <1>9 DEF Commits, CommitsChange, CommitPersonnel, Commit

-----------------------------------------------------------------------------
(* Types.                                                                  *)

LEMMA SoleIsAble ==
  ASSUME NEW accounts, NEW t \in Tasks
  PROVE  /\ Able(accounts, t) \subseteq Users
         /\ Sole(accounts, t) \in Able(accounts, t) \cup {None}
         /\ Sole(accounts, t) \in Users \cup {None}
<1>1. Able(accounts, t) \subseteq Users /\ IsFiniteSet(Users)
  BY TeamAssumption DEF Able
<1>2. IsFiniteSet(Able(accounts, t))
  BY <1>1, FS_Subset
<1>3. ASSUME Cardinality(Able(accounts, t)) = 1
      PROVE  \E u \in Users : u \in Able(accounts, t)
  BY <1>1, <1>2, <1>3, FS_Singleton
<1>4. Sole(accounts, t) \in Able(accounts, t) \cup {None}
  <2>1. CASE Cardinality(Able(accounts, t)) = 1
    BY <1>3, <2>1 DEF Sole
  <2>2. CASE Cardinality(Able(accounts, t)) # 1
    BY <2>2 DEF Sole
  <2> QED
    BY <2>1, <2>2
<1> QED
  BY <1>1, <1>4

LEMMA NoticesTyped ==
  ASSUME NEW told \in [Tasks -> [Users -> SUBSET Nat]], NEW accounts, NEW t \in Tasks,
         NEW owner, NEW epoch \in Nat
  PROVE  Notified(told, accounts, t, owner, epoch) \in [Users -> SUBSET Nat]
BY DEF Notified

LEMMA CommitTyped ==
  ASSUME TypeOK, WellFormed, NEW r \in Requests, Commits(r)
  PROVE  /\ task' \in [Tasks -> TaskStates]
         /\ notices' \in [Tasks -> [Users -> SUBSET Nat]]
         /\ results' \in [Commands -> SUBSET Result]
<1>0. /\ task \in [Tasks -> TaskStates]
      /\ notices \in [Tasks -> [Users -> SUBSET Nat]]
      /\ results \in [Commands -> SUBSET Result]
  BY DEF TypeOK
<1>1. request[r].command \in Commands
  BY CommitWrites
<1> DEFINE c == request[r].command t == TaskOf[c]
<1>2. t \in Tasks /\ Receiver(r) \in Users
  BY <1>1, TaskAssumption, TeamAssumption DEF Receiver, SubjectOf
<1>3. ASSUME NEW owner \in Users \cup {None}, NEW epoch \in Nat, Store(r, owner, epoch)
      PROVE  results' \in [Commands -> SUBSET Result]
  <2>1. {[owner |-> owner, epoch |-> epoch]} \in SUBSET Result
    BY <1>3 DEF Result
  <2>2. results' = [results EXCEPT ![c] = {[owner |-> owner, epoch |-> epoch]}]
    BY <1>3 DEF Store
  <2> QED
    BY <1>0, <2>1, <2>2
<1>4. CASE UNCHANGED taskVars /\ CommitsChange(r)
  <2>1. results' \in [Commands -> SUBSET Result]
    BY <1>0, <1>3, <1>4 DEF CommitsChange, CommitIssue, CommitPassword, CommitGrant, CommitPersonnel
  <2> QED
    BY <1>0, <1>4, <2>1 DEF taskVars
<1>5. CASE ChangePersonnel(r)
  <2>1. results' \in [Commands -> SUBSET Result]
    BY <1>3, <1>5 DEF ChangePersonnel, CommitPersonnel
  <2>2. CASE UNCHANGED taskVars
    BY <1>0, <2>1, <2>2 DEF taskVars
  <2>3. CASE \E u, roles : Reconcile(account', u, roles)
    <3>1. PICK u, roles : Reconcile(account', u, roles)
      BY <2>3
    <3> DEFINE now == [n \in Tasks |-> IF n \in Moved(account', u, roles)
                                       THEN Reassigned(account', n) ELSE task[n]]
    <3>2. \A n \in Tasks : Reassigned(account', n) \in TaskStates
      BY <1>0, SoleIsAble DEF Reassigned, TaskStates
    <3>3. now \in [Tasks -> TaskStates]
      BY <1>0, <3>2
    <3>4. task' = now
      BY <3>1 DEF Reconcile
    <3>5. \A n \in Tasks : now[n].epoch \in Nat
      BY <3>3 DEF TaskStates
    <3>6. \A n \in Tasks :
            Notified(notices, account', n, now[n].owner, now[n].epoch) \in [Users -> SUBSET Nat]
      BY <1>0, <3>5, NoticesTyped
    <3>7. notices' = [n \in Tasks |->
                        IF n \in Moved(account', u, roles) \ Monthly
                        THEN Notified(notices, account', n, now[n].owner, now[n].epoch)
                        ELSE notices[n]]
      BY <3>1 DEF Reconcile
    <3> HIDE DEF now
    <3>8. notices' \in [Tasks -> [Users -> SUBSET Nat]]
      BY <1>0, <3>6, <3>7
    <3> QED
      BY <2>1, <3>3, <3>4, <3>8
  <2> QED
    BY <1>5, <2>2, <2>3 DEF ChangePersonnel
<1>6. CASE CommitClaim(r)
  <2> DEFINE g == Granted(r)
  <2>1. g \in TaskStates /\ g.owner \in Users \cup {None} /\ g.epoch \in Nat
    BY <1>0, <1>2 DEF Granted, TaskStates
  <2>2. task' = [task EXCEPT ![t] = g] /\ Store(r, g.owner, g.epoch)
    BY <1>6 DEF CommitClaim
  <2>3. Notified(notices, account, t, g.owner, g.epoch) \in [Users -> SUBSET Nat]
    BY <1>0, <1>2, <2>1, NoticesTyped
  <2>4. notices' = IF g = task[t] /\ t \notin Monthly THEN notices
                   ELSE [notices EXCEPT ![t] = Notified(notices, account, t, g.owner, g.epoch)]
    BY <1>6 DEF CommitClaim
  <2> HIDE DEF g
  <2> QED
    BY <1>0, <1>2, <1>3, <2>1, <2>2, <2>3, <2>4
<1>7. CASE CommitCompletion(r)
  <2>1. \A n \in Tasks : Created(n) \in TaskStates
    BY SoleIsAble DEF Created, TaskStates
  <2>2. [status |-> "closed", owner |-> task[t].owner, epoch |-> task[t].epoch] \in TaskStates
    BY <1>0, <1>2 DEF TaskStates
  <2>3. task' \in [Tasks -> TaskStates]
    BY <1>0, <1>7, <2>1, <2>2 DEF CommitCompletion
  <2>4. \A n \in Tasks :
          Notified(notices, account, n, Created(n).owner, 0) \in [Users -> SUBSET Nat]
    BY <1>0, NoticesTyped
  <2>5. notices' \in [Tasks -> [Users -> SUBSET Nat]]
    BY <1>0, <1>7, <2>4 DEF CommitCompletion
  <2> QED
    BY <1>3, <1>7, <2>3, <2>5 DEF CommitCompletion
<1> QED
  BY <1>4, <1>5, <1>6, <1>7 DEF Commits

(* How the requests move.                                                  *)
Sits(q) == request'[q] = request[q]
Goes(r) == request'[r].step \in {"idle", "refused"}
Comes(r) ==
  /\ UNCHANGED dataVars
  /\ \E c \in Commands, form \in Nat :
       /\ Lets(c, account[Actor[c]])
       /\ request'[r] = [step |-> "admitted", command |-> c, seen |-> account[Actor[c]], form |-> form]

Rises(r) ==
  /\ request[r].step = "admitted" /\ request'[r].step = "decided"
  /\ request'[r].command = request[r].command
  /\ request'[r].seen = request[r].seen /\ request'[r].form = request[r].form
  /\ UNCHANGED dataVars
  /\ KindOf(r) # "login" =>
       /\ Admissible(r) /\ Grounds(r)
       /\ KindOf(r) \in TaskKinds => Locks(r)

LEMMA RequestMoves ==
  ASSUME TypeOK, WellFormed, NEW r \in Requests, Steps(r)
  PROVE  /\ request' \in [Requests -> RequestStates]
         /\ \A q \in Requests \ {r} : Sits(q)
         /\ Goes(r) \/ Comes(r) \/ Rises(r)
<1>0. request \in [Requests -> RequestStates] /\ account \in [Users -> Accounts]
  BY DEF TypeOK
<1>1. Idle \in RequestStates /\ Refused \in RequestStates
  BY DEF Idle, Refused, Unread, RequestStates, Accounts
<1>2. ASSUME NEW end \in {Idle, Refused}, request' = [request EXCEPT ![r] = end]
      PROVE  /\ request' \in [Requests -> RequestStates]
             /\ \A q \in Requests \ {r} : Sits(q)
             /\ Goes(r)
  BY <1>0, <1>1, <1>2 DEF Sits, Goes, Idle, Refused
<1>3. CASE Quits(r)
  BY <1>2, <1>3 DEF Quits
<1>4. CASE Opens(r)
  BY <1>2, <1>4 DEF Opens, OpenSession, End
<1>5. CASE Commits(r)
  BY <1>2, <1>5, CommitWrites
<1>6. CASE \E c \in Commands, form \in Nat : Admits(r, c, form)
  <2>1. PICK c \in Commands, form \in Nat : Admits(r, c, form)
    BY <1>6
  <2> DEFINE new == [step |-> "admitted", command |-> c, seen |-> account[Actor[c]], form |-> form]
  <2>2. new \in RequestStates
    BY <1>0, TeamAssumption DEF RequestStates
  <2>3. request' = [request EXCEPT ![r] = new]
    BY <2>1 DEF Admits
  <2>4. request'[r] = new
    BY <1>0, <2>3
  <2>5. Comes(r)
    BY <2>1, <2>4 DEF Comes, Admits
  <2> HIDE DEF new
  <2> QED
    BY <1>0, <2>2, <2>3, <2>5 DEF Sits
<1>7. CASE Decides(r)
  <2> DEFINE new == [request[r] EXCEPT !.step = "decided"]
  <2>1. /\ new \in RequestStates /\ new.step = "decided" /\ new.command = request[r].command
        /\ new.seen = request[r].seen /\ new.form = request[r].form
    BY <1>0 DEF RequestStates
  <2>2. request' = [request EXCEPT ![r] = new] /\ request[r].step = "admitted"
    BY <1>7 DEF Decides
  <2> HIDE DEF new
  <2>3. request'[r] = new
    BY <1>0, <2>2
  <2> QED
    BY <1>0, <1>7, <2>1, <2>2, <2>3 DEF Sits, Rises, Decides
<1> QED
  BY <1>3, <1>4, <1>5, <1>6, <1>7 DEF Steps

LEMMA StepTyped ==
  ASSUME TypeOK, WellFormed, NEW r \in Requests, Steps(r)
  PROVE  TypeOK' /\ WellFormed' /\ AccountsMoveOn
<1>0. /\ account \in [Users -> Accounts]
      /\ \A u \in Users : account[u].code # 0 => account[u].password = 0
      /\ sessions \subseteq Sessions /\ request \in [Requests -> RequestStates]
      /\ \A u \in Users : account[u].version > 0
  BY DEF TypeOK, WellFormed
<1>1. request' \in [Requests -> RequestStates]
  BY RequestMoves
<1>2. ASSUME NEW q \in Requests, ~Free(q)'
      PROVE  request'[q].command \in Commands
  <2>1. CASE Sits(q)
    BY <1>2, <2>1 DEF Sits, Free, WellFormed
  <2>2. CASE Comes(q)
    BY <2>2 DEF Comes
  <2>3. CASE Rises(q)
    BY <2>3 DEF Rises, Free, WellFormed
  <2>4. ~Goes(q)
    BY <1>2 DEF Goes, Free
  <2> QED
    BY <2>1, <2>2, <2>3, <2>4, RequestMoves
<1>3. CASE ~Commits(r)
  <2>1. UNCHANGED <<account, results, task, notices>>
    BY <1>3 DEF Steps, Quits, Admits, Decides, Opens, OpenSession, dataVars, taskVars
  <2>2. sessions' \subseteq Sessions
    <3>1. CASE Opens(r)
      <4>1. request[r].command \in Commands /\ request[r].seen \in Accounts
        BY <1>0, <3>1 DEF Opens, OpenSession, WellFormed, Free, RequestStates
      <4>2. Opened(r) \in Sessions
        BY <4>1, TeamAssumption DEF Opened, Sessions, ActorOf, Accounts
      <4> QED
        BY <1>0, <3>1, <4>2 DEF Opens, OpenSession
    <3>2. CASE ~Opens(r)
      BY <1>0, <1>3, <3>2 DEF Steps, Quits, Admits, Decides, dataVars
    <3> QED
      BY <3>1, <3>2
  <2> QED
    BY <1>0, <1>1, <1>2, <2>1, <2>2 DEF TypeOK, WellFormed, AccountsMoveOn
<1>4. CASE Commits(r)
  BY <1>0, <1>1, <1>2, <1>4, CommitWrites, CommitTyped DEF TypeOK, WellFormed, AccountsMoveOn
<1> QED
  BY <1>3, <1>4

-----------------------------------------------------------------------------
(* The account invariant.                                                  *)

LEMMA SeenStays ==
  ASSUME AccountInv, NEW r \in Requests, Steps(r)
  PROVE  SeenInTime'
<1> USE DEF AccountInv
<1>1. AccountsMoveOn /\ \A u \in Users : account[u].version \in Nat /\ account'[u].version \in Nat
  BY StepTyped DEF TypeOK, Accounts
<1>2. \A q \in Requests : request[q].seen.version \in Nat
  BY DEF TypeOK, RequestStates, Accounts
<1> SUFFICES ASSUME NEW q \in Requests, ~Free(q)'
             PROVE  LET u == ActorOf(q)' IN
                    /\ request'[q].seen.version <= account'[u].version
                    /\ request'[q].seen.version = account'[u].version => request'[q].seen = account'[u]
  BY DEF SeenInTime
<1>3. CASE (Sits(q) \/ Rises(q)) /\ ~Free(q)
  <2> DEFINE u == ActorOf(q)
  <2>1. u \in Users /\ ActorOf(q)' = u /\ request'[q].seen = request[q].seen
    BY <1>3, TeamAssumption DEF Sits, Rises, ActorOf, WellFormed
  <2>2. /\ request[q].seen.version <= account[u].version
        /\ request[q].seen.version = account[u].version => request[q].seen = account[u]
    BY <1>3 DEF SeenInTime
  <2>3. account'[u] = account[u] \/ account'[u].version > account[u].version
    BY <1>1, <2>1 DEF AccountsMoveOn
  <2> QED
    BY <1>1, <1>2, <2>1, <2>2, <2>3
<1>4. CASE Comes(q)
  <2>1. PICK c \in Commands, form \in Nat :
          request'[q] = [step |-> "admitted", command |-> c, seen |-> account[Actor[c]], form |-> form]
    BY <1>4 DEF Comes
  <2>2. ActorOf(q)' = Actor[c] /\ Actor[c] \in Users /\ account' = account
        /\ request'[q].seen = account[Actor[c]]
    BY <1>4, <2>1, TeamAssumption DEF Comes, ActorOf, dataVars
  <2> QED
    BY <1>1, <2>2
<1> QED
  BY <1>3, <1>4, RequestMoves DEF Goes, Sits, Rises, Free

LEMMA SessionsStay ==
  ASSUME AccountInv, NEW r \in Requests, Steps(r)
  PROVE  /\ SessionsInTime'
         /\ SessionsFollowPasswords => SessionsFollowPasswords'
<1> USE DEF AccountInv
<1>1. AccountsMoveOn /\ \A u \in Users : account[u].version \in Nat /\ account'[u].version \in Nat
  BY StepTyped DEF TypeOK, Accounts
<1>2. sessions \subseteq Sessions
  BY DEF TypeOK
<1>3. CASE sessions' = sessions
  <2> SUFFICES ASSUME NEW s \in sessions
               PROVE  /\ s.version <= account'[s.user].version
                      /\ SessionsFollowPasswords /\ s.version = account'[s.user].version =>
                           s.password = account'[s.user].password
    BY <1>3 DEF SessionsInTime, SessionsFollowPasswords
  <2>1. s.user \in Users /\ s.version \in Nat /\ s.version <= account[s.user].version
    BY <1>2 DEF Sessions, SessionsInTime
  <2>2. account'[s.user] = account[s.user] \/ account'[s.user].version > account[s.user].version
    BY <1>1, <2>1 DEF AccountsMoveOn
  <2> QED
    BY <1>1, <2>1, <2>2 DEF SessionsFollowPasswords
<1>4. CASE Opens(r)
  <2> DEFINE s == Opened(r) u == ActorOf(r)
  <2>1. ~Free(r) /\ sessions' = sessions \cup {s} /\ account' = account
    BY <1>4 DEF Opens, OpenSession, Free
  <2>2. s.user = u /\ s.version = request[r].seen.version /\ s.password = request[r].seen.password
    BY DEF Opened
  <2>3. /\ s.version <= account[u].version
        /\ s.version = account[u].version => s.password = account[u].password
    BY <2>1, <2>2 DEF SeenInTime
  <2> HIDE DEF s, u
  <2> QED
    BY <2>1, <2>2, <2>3 DEF SessionsInTime, SessionsFollowPasswords
<1>5. ASSUME Commits(r) PROVE sessions' = sessions
  BY <1>5, CommitWrites
<1>6. ASSUME ~Commits(r), ~Opens(r) PROVE sessions' = sessions
  BY <1>6 DEF Steps, Quits, Admits, Decides, dataVars
<1> QED
  BY <1>3, <1>4, <1>5, <1>6

(* A transaction under way after the step was so before, or was let in by  *)
(* those that are.                                                         *)
LEMMA TransactionsFrom ==
  ASSUME AccountInv, NEW r \in Requests, Steps(r), NEW q \in Requests, InTransaction(q)'
  PROVE  \/ InTransaction(q) /\ Sits(q)
         \/ q = r /\ Rises(r) /\ KindOf(r) # "login"
<1>1. request'[q].step = "decided" /\ KindOf(q)' # "login"
  BY DEF InTransaction
<1>2. CASE Sits(q)
  BY <1>1, <1>2 DEF Sits, InTransaction, KindOf
<1>3. CASE ~Sits(q)
  <2>1. TypeOK /\ WellFormed
    BY DEF AccountInv
  <2>2. q = r /\ (Goes(r) \/ Comes(r) \/ Rises(r))
    BY <1>3, <2>1, RequestMoves
  <2>3. ~Goes(r) /\ ~Comes(r)
    <3>1. ~Goes(r)
      BY <1>1, <2>2 DEF Goes
    <3>2. ASSUME Comes(r) PROVE request'[r].step = "admitted"
      BY <3>2 DEF Comes
    <3> QED
      BY <1>1, <2>2, <3>1, <3>2
  <2>4. KindOf(r)' = KindOf(r)
    BY <2>2, <2>3 DEF Rises, KindOf
  <2> QED
    BY <1>1, <2>2, <2>3, <2>4
<1> QED
  BY <1>2, <1>3

LEMMA LocksStay ==
  ASSUME AccountInv, NEW r \in Requests, Steps(r)
  PROVE  LocksHeld'
<1> SUFFICES ASSUME NEW p \in Requests, NEW q \in Requests, p # q,
                    InTransaction(p)', InTransaction(q)'
             PROVE  /\ KindOf(p)' \notin ExclusiveKinds /\ KindOf(q)' \notin ExclusiveKinds
                    /\ ProjectOf[TaskOf[request'[p].command]] # ProjectOf[TaskOf[request'[q].command]]
  BY DEF LocksHeld
<1>1. ASSUME NEW s \in Requests \ {r}, Rises(r), KindOf(r) # "login", InTransaction(s), Sits(s)
      PROVE  /\ KindOf(r)' \notin ExclusiveKinds /\ KindOf(s)' \notin ExclusiveKinds
             /\ ProjectOf[TaskOf[request'[r].command]] # ProjectOf[TaskOf[request'[s].command]]
  <2>1. KindOf(r)' = KindOf(r) /\ KindOf(s)' = KindOf(s)
        /\ request'[r].command = request[r].command /\ request'[s].command = request[s].command
    BY <1>1 DEF Rises, Sits, KindOf
  <2>2. Admissible(r)
    BY <1>1 DEF Rises
  <2>3. KindOf(s) \notin ExclusiveKinds /\ KindOf(r) \notin ExclusiveKinds
    BY <1>1, <2>2 DEF Admissible
  <2>4. KindOf(r) \in Kinds /\ KindOf(s) \in Kinds
    BY <1>1, TeamAssumption DEF AccountInv, WellFormed, Free, Rises, InTransaction, KindOf
  <2>5. KindOf(r) \in TaskKinds /\ KindOf(s) \in TaskKinds
    BY <1>1, <2>3, <2>4 DEF Kinds, InTransaction
  <2>6. ProjectOf[TaskOf[request[r].command]] # ProjectOf[TaskOf[request[s].command]]
    BY <1>1, <2>5 DEF Rises, Locks
  <2> QED
    BY <2>1, <2>3, <2>6
<1>2. CASE InTransaction(p) /\ Sits(p) /\ InTransaction(q) /\ Sits(q)
  BY <1>2 DEF AccountInv, LocksHeld, Sits, KindOf
<1>3. CASE q = r /\ Rises(r) /\ KindOf(r) # "login" /\ InTransaction(p) /\ Sits(p)
  BY <1>1, <1>3
<1>4. CASE p = r /\ Rises(r) /\ KindOf(r) # "login" /\ InTransaction(q) /\ Sits(q)
  BY <1>1, <1>4
<1> QED
  BY <1>2, <1>3, <1>4, TransactionsFrom

(* Its grounds rest on the accounts and on its task.                       *)
LEMMA GroundsKept ==
  ASSUME NEW q \in Requests, Grounds(q), account' = account,
         request'[q].command = request[q].command, request'[q].seen = request[q].seen,
         request'[q].form = request[q].form,
         KindOf(q) \in TaskKinds =>
           task'[TaskOf[request[q].command]] = task[TaskOf[request[q].command]]
  PROVE  Grounds(q)'
<1>1. /\ request'[q].command = request[q].command /\ request'[q].seen = request[q].seen
      /\ request'[q].form = request[q].form
  OBVIOUS
<1>2. /\ KindOf(q)' = KindOf(q) /\ ActorOf(q)' = ActorOf(q) /\ SubjectOf(q)' = SubjectOf(q)
      /\ Current(q)' = Current(q) /\ AvailableAdmins' = AvailableAdmins
  BY <1>1 DEF KindOf, ActorOf, SubjectOf, Current, AvailableAdmins
<1>3. StillEntitled(q)' = StillEntitled(q) /\ MayIssue(q)' = MayIssue(q)
      /\ LeavesAdmin(q)' = LeavesAdmin(q)
  BY <1>1, <1>2 DEF StillEntitled, MayIssue, LeavesAdmin
<1>4. ASSUME KindOf(q) \in TaskKinds
      PROVE  /\ Open(TaskOf[request[q].command])' = Open(TaskOf[request[q].command])
             /\ MayReceive(q)' = MayReceive(q)
  BY <1>1, <1>2, <1>4 DEF Open, MayReceive, Receiver, Able, Eligible
<1> QED
  BY <1>1, <1>2, <1>3, <1>4 DEF Grounds, TaskKinds

(* A task of another project is left alone by a claim and a completion.    *)
LEMMA OtherTasksStay ==
  ASSUME TypeOK, TasksFollow, NEW r \in Requests, NEW t \in Tasks, Open(t),
         ~Free(r), request[r].command \in Commands, t # TaskOf[request[r].command],
         CommitClaim(r) \/ (CommitCompletion(r) /\ Open(TaskOf[request[r].command]))
  PROVE  task'[t] = task[t]
<1> DEFINE m == TaskOf[request[r].command]
<1>1. m \in Tasks
  BY TaskAssumption
<1>2. CASE CommitClaim(r)
  BY <1>2 DEF CommitClaim, TypeOK
<1>3. CASE CommitCompletion(r) /\ Open(m)
  <2>1. t \notin NextTasks[m]
    BY <1>1, <1>3 DEF TasksFollow, Open
  <2> QED
    BY <1>3, <2>1 DEF CommitCompletion
<1> QED
  BY <1>2, <1>3

LEMMA GroundsStay ==
  ASSUME AccountInv, TasksFollow, NEW r \in Requests, Steps(r)
  PROVE  GroundsStand'
<1>0. TypeOK /\ WellFormed /\ LocksHeld /\ GroundsStand
  BY DEF AccountInv
<1> SUFFICES ASSUME NEW q \in Requests, InTransaction(q)'
             PROVE  Grounds(q)'
  BY DEF GroundsStand
<1>1. CASE q = r /\ Rises(r) /\ KindOf(r) # "login"
  BY <1>1, GroundsKept DEF Rises, dataVars
<1>2. CASE InTransaction(q) /\ Sits(q)
  <2>1. /\ Grounds(q)
        /\ request'[q].command = request[q].command /\ request'[q].seen = request[q].seen
        /\ request'[q].form = request[q].form
    BY <1>0, <1>2 DEF GroundsStand, Sits
  <2>2. CASE ~Commits(r)
    <3>1. account' = account /\ task' = task
      BY <2>2 DEF Steps, Quits, Admits, Decides, Opens, OpenSession, dataVars, taskVars
    <3> QED
      BY <2>1, <3>1, GroundsKept
  <2>3. CASE Commits(r)
    <3>1. /\ InTransaction(r) /\ ~Free(r) /\ request[r].command \in Commands
          /\ request' = [request EXCEPT ![r] = Idle]
          /\ KindOf(r) \in TaskKinds => account' = account
      BY <1>0, <2>3, CommitWrites
    <3>2. q # r
      BY <1>0, <1>2, <3>1 DEF TypeOK, Sits, Idle, InTransaction
    <3>3. /\ KindOf(q) \notin ExclusiveKinds /\ KindOf(r) \notin ExclusiveKinds
          /\ ProjectOf[TaskOf[request[q].command]] # ProjectOf[TaskOf[request[r].command]]
      BY <1>0, <1>2, <3>1, <3>2 DEF LocksHeld
    <3>4. request[q].command \in Commands
      BY <1>0, <1>2 DEF WellFormed, InTransaction, Free
    <3>5. KindOf(q) \in TaskKinds /\ KindOf(r) \in TaskKinds
      BY <1>2, <3>1, <3>3, <3>4, TeamAssumption DEF KindOf, Kinds, InTransaction
    <3>6. CommitClaim(r) \/ CommitCompletion(r)
      BY <2>3, <3>5 DEF Commits, CommitsChange, CommitIssue, CommitPassword, CommitGrant,
                        CommitPersonnel, ChangePersonnel, Commit, TaskKinds, OwnKinds
    <3>7. Open(TaskOf[request[q].command]) /\ Open(TaskOf[request[r].command])
      BY <1>0, <1>2, <3>1, <3>5 DEF GroundsStand, Grounds
    <3>8. task'[TaskOf[request[q].command]] = task[TaskOf[request[q].command]]
      BY <1>0, <3>1, <3>3, <3>4, <3>6, <3>7, OtherTasksStay, TaskAssumption
    <3> QED
      BY <2>1, <3>1, <3>5, <3>8, GroundsKept
  <2> QED
    BY <2>2, <2>3
<1> QED
  BY <1>1, <1>2, TransactionsFrom

-----------------------------------------------------------------------------
(* Tasks and epochs.                                                       *)

(* A task that is there stays, and either keeps its owner and epoch or     *)
(* enters the next epoch.                                                  *)
EpochsRise ==
  \A t \in Tasks : task[t].status # "none" =>
    /\ task'[t].status # "none"
    /\ \/ task'[t].owner = task[t].owner /\ task'[t].epoch = task[t].epoch
       \/ task'[t].epoch = task[t].epoch + 1

(* Only a completion opens and closes tasks.                               *)
StatusesStay == \A t \in Tasks : task'[t].status = task[t].status

LEMMA ReconcileMoves ==
  ASSUME TypeOK, NEW u, NEW roles, Reconcile(account', u, roles)
  PROVE  StatusesStay /\ EpochsRise
<1>1. \A t \in Tasks : task'[t] \in {task[t], Reassigned(account', t)}
  BY DEF Reconcile
<1> QED
  BY <1>1 DEF Reassigned, StatusesStay, EpochsRise

LEMMA ClaimMoves ==
  ASSUME TypeOK, NEW r \in Requests, request[r].command \in Commands, CommitClaim(r)
  PROVE  StatusesStay /\ EpochsRise
<1> DEFINE t == TaskOf[request[r].command]
<1>1. t \in Tasks /\ task' = [task EXCEPT ![t] = Granted(r)]
  BY TaskAssumption DEF CommitClaim
<1>2. /\ Granted(r).status = task[t].status
      /\ \/ Granted(r).owner = task[t].owner /\ Granted(r).epoch = task[t].epoch
         \/ Granted(r).epoch = task[t].epoch + 1
  BY DEF Granted
<1>3. \A n \in Tasks : task'[n] = IF n = t THEN Granted(r) ELSE task[n]
  BY <1>1 DEF TypeOK
<1> QED
  BY <1>2, <1>3 DEF StatusesStay, EpochsRise

LEMMA CompletionMoves ==
  ASSUME TypeOK, TasksFollow, NEW r \in Requests, request[r].command \in Commands,
         CommitCompletion(r), Open(TaskOf[request[r].command])
  PROVE  /\ EpochsRise
         /\ \A t \in Tasks : \A n \in NextTasks[t] :
              task'[t].status # "closed" => task'[n].status = "none"
<1> DEFINE m == TaskOf[request[r].command]
<1>1. m \in Tasks /\ task[m].status = "open"
  BY TaskAssumption DEF Open
<1>2. \A n \in NextTasks[m] : n \in Tasks /\ task[n].status = "none"
  BY <1>1, TaskAssumption DEF TasksFollow
<1>3. \A n \in Tasks : /\ n = m => /\ task'[n].status = "closed"
                                   /\ task'[n].owner = task[n].owner
                                   /\ task'[n].epoch = task[n].epoch
                       /\ n # m /\ n \notin NextTasks[m] => task'[n] = task[n]
  BY DEF CommitCompletion
<1>4. EpochsRise
  BY <1>1, <1>2, <1>3 DEF EpochsRise
<1>5. ASSUME NEW t \in Tasks, NEW n \in NextTasks[t], task'[t].status # "closed"
      PROVE  task'[n].status = "none"
  <2>1. n \in Tasks /\ t # m
    BY <1>3, <1>5, TaskAssumption
  <2>2. task[t].status # "closed"
    BY <1>2, <1>3, <1>5, <2>1
  <2>3. task[n].status = "none" /\ n # m
    BY <1>1, <1>5, <2>2 DEF TasksFollow
  <2>4. n \notin NextTasks[m]
    BY <1>1, <1>5, <2>1, TaskAssumption
  <2> QED
    BY <1>3, <2>1, <2>3, <2>4
<1> QED
  BY <1>4, <1>5

LEMMA ResultsGrow ==
  ASSUME AccountInv, NEW r \in Requests, Steps(r), NEW c \in Commands,
         Kind[c] \in {"claim", "transfer"}
  PROVE  \/ results'[c] = results[c]
         \/ /\ CommitClaim(r) /\ c = request[r].command
            /\ results'[c] = {[owner |-> Granted(r).owner, epoch |-> Granted(r).epoch]}
<1>0. TypeOK /\ WellFormed
  BY DEF AccountInv
<1>1. CASE ~Commits(r)
  BY <1>1 DEF Steps, Quits, Admits, Decides, Opens, OpenSession, dataVars, taskVars
<1>2. CASE CommitClaim(r)
  <2>1. Store(r, Granted(r).owner, Granted(r).epoch)
    BY <1>2 DEF CommitClaim
  <2> QED
    BY <1>0, <1>2, <2>1 DEF Store, TypeOK
<1>3. CASE Commits(r) /\ ~CommitClaim(r)
  <2>1. KindOf(r) \notin {"claim", "transfer"}
    BY <1>3 DEF Commits, CommitsChange, CommitIssue, CommitPassword, CommitGrant,
                CommitPersonnel, ChangePersonnel, CommitCompletion, Commit, OwnKinds
  <2>2. request[r].command # c
    BY <2>1 DEF KindOf
  <2>3. ASSUME NEW owner, NEW epoch, Store(r, owner, epoch) PROVE results'[c] = results[c]
    BY <1>0, <2>2, <2>3 DEF Store, TypeOK
  <2> QED
    BY <1>3, <2>3 DEF Commits, CommitsChange, CommitIssue, CommitPassword, CommitGrant,
                      CommitPersonnel, ChangePersonnel, CommitCompletion
<1> QED
  BY <1>1, <1>2, <1>3

LEMMA TasksMoveOn ==
  ASSUME AccountInv, TasksFollow, NEW r \in Requests, Steps(r)
  PROVE  /\ EpochsRise
         /\ \A t \in Tasks : \A n \in NextTasks[t] :
              task'[t].status # "closed" => task'[n].status = "none"
<1>0. TypeOK /\ WellFormed /\ GroundsStand
  BY DEF AccountInv
<1>1. ASSUME StatusesStay
      PROVE  \A t \in Tasks : \A n \in NextTasks[t] :
               task'[t].status # "closed" => task'[n].status = "none"
  <2>1. \A t \in Tasks : \A n \in NextTasks[t] : n \in Tasks
    BY TaskAssumption
  <2> QED
    BY <1>1, <2>1 DEF StatusesStay, TasksFollow
<1>2. ASSUME task' = task PROVE StatusesStay /\ EpochsRise
  BY <1>2 DEF StatusesStay, EpochsRise
<1>3. CASE ~Commits(r)
  <2>1. task' = task
    BY <1>3 DEF Steps, Quits, Admits, Decides, Opens, OpenSession, dataVars, taskVars
  <2> QED
    BY <1>1, <1>2, <2>1
<1>4. CASE UNCHANGED taskVars
  BY <1>1, <1>2, <1>4 DEF taskVars
<1>5. CASE ChangePersonnel(r)
  BY <1>0, <1>1, <1>4, <1>5, ReconcileMoves DEF ChangePersonnel
<1>6. CASE Commits(r) /\ (CommitClaim(r) \/ CommitCompletion(r))
  <2>1. InTransaction(r) /\ request[r].command \in Commands
    BY <1>0, <1>6, CommitWrites
  <2>2. CASE CommitClaim(r)
    BY <1>0, <1>1, <2>1, <2>2, ClaimMoves
  <2>3. CASE CommitCompletion(r)
    <3>1. KindOf(r) = "complete"
      BY <2>3 DEF CommitCompletion, Commit
    <3>2. Open(TaskOf[request[r].command])
      BY <1>0, <2>1, <3>1 DEF GroundsStand, Grounds, TaskKinds
    <3> QED
      BY <1>0, <2>1, <2>3, <3>2, CompletionMoves
  <2> QED
    BY <1>6, <2>2, <2>3
<1> QED
  BY <1>3, <1>4, <1>5, <1>6 DEF Commits

LEMMA AnswersStay ==
  ASSUME AccountInv, TasksFollow, AnswersHold, NEW r \in Requests, Steps(r)
  PROVE  TasksFollow' /\ AnswersHold'
<1>0. /\ TypeOK /\ WellFormed /\ GroundsStand /\ TypeOK'
      /\ task \in [Tasks -> TaskStates] /\ results \in [Commands -> SUBSET Result]
  BY StepTyped DEF AccountInv, TypeOK
<1>1. EpochsRise
  BY TasksMoveOn
<1>2. ASSUME NEW c \in Commands, Kind[c] \in {"claim", "transfer"}
      PROVE  /\ results'[c] # {} => task'[TaskOf[c]].status # "none"
             /\ \A a \in results'[c] :
                  /\ a.epoch <= task'[TaskOf[c]].epoch
                  /\ a.epoch = task'[TaskOf[c]].epoch => a.owner = task'[TaskOf[c]].owner
  <2> DEFINE t == TaskOf[c]
  <2>1. t \in Tasks /\ task[t].epoch \in Nat
    BY <1>0, TaskAssumption DEF TaskStates
  <2>2. CASE results'[c] = results[c]
    <3>1. \A a \in results[c] : a.epoch \in Nat /\ a.epoch <= task[t].epoch
                                /\ (a.epoch = task[t].epoch => a.owner = task[t].owner)
      BY <1>0, <1>2 DEF AnswersHold, Result
    <3>2. results[c] # {} => task[t].status # "none"
      BY <1>2 DEF TasksFollow
    <3>3. results[c] # {} =>
            /\ task'[t].status # "none"
            /\ \/ task'[t].owner = task[t].owner /\ task'[t].epoch = task[t].epoch
               \/ task'[t].epoch = task[t].epoch + 1
      BY <1>1, <2>1, <3>2 DEF EpochsRise
    <3> QED
      BY <2>1, <2>2, <3>1, <3>3
  <2>3. CASE /\ CommitClaim(r) /\ c = request[r].command
             /\ results'[c] = {[owner |-> Granted(r).owner, epoch |-> Granted(r).epoch]}
    <3>1. task'[t] = Granted(r)
      BY <1>0, <2>1, <2>3 DEF CommitClaim
    <3>2. Granted(r).epoch \in Nat
      BY <2>1, <2>3 DEF Granted
    <3>3. InTransaction(r)
      BY <1>0, <2>3, CommitWrites DEF Commits
    <3>4. Open(t)
      BY <1>0, <1>2, <2>3, <3>3 DEF GroundsStand, Grounds, MayReceive, KindOf
    <3>5. task'[t].status # "none"
      BY <1>1, <2>1, <3>4 DEF EpochsRise, Open
    <3> QED
      BY <2>3, <3>1, <3>2, <3>5
  <2> QED
    BY <1>2, <2>2, <2>3, ResultsGrow
<1> QED
  BY <1>2, TasksMoveOn DEF TasksFollow, AnswersHold

-----------------------------------------------------------------------------
(* Owners.                                                                 *)

LEMMA OwnerNotified ==
  ASSUME NEW told, NEW accounts, NEW t \in Tasks, NEW owner \in Able(accounts, t), NEW epoch
  PROVE  Notified(told, accounts, t, owner, epoch)[owner] = {epoch}
BY DEF Notified, Able

(* The account that a change of personnel or of credentials is about.      *)
LEMMA OthersStay ==
  ASSUME TypeOK, WellFormed, NEW r \in Requests, Commits(r), NEW u \in Users, u # SubjectOf(r)
  PROVE  account'[u] = account[u]
<1>1. account \in [Users -> Accounts]
  BY DEF TypeOK
<1>2. ASSUME NEW v, v # u, NEW a, account' = Changed(v, a) PROVE account'[u] = account[u]
  BY <1>1, <1>2 DEF Changed
<1>3. CASE CommitIssue(r)
  BY <1>2, <1>3 DEF CommitIssue
<1>4. CASE CommitPassword(r)
  BY <1>2, <1>4 DEF CommitPassword
<1>5. CASE CommitGrant(r)
  BY <1>2, <1>5 DEF CommitGrant
<1>6. CASE ChangePersonnel(r) \/ CommitPersonnel(r)
  BY <1>2, <1>6 DEF ChangePersonnel, CommitPersonnel, SubjectOf
<1>7. CASE CommitClaim(r) \/ CommitCompletion(r)
  BY <1>7 DEF CommitClaim, CommitCompletion, accountVars
<1> QED
  BY <1>3, <1>4, <1>5, <1>6, <1>7 DEF Commits, CommitsChange

LEMMA EligibleStay ==
  ASSUME TypeOK, WellFormed, NEW r \in Requests, Commits(r),
         CommitIssue(r) \/ CommitPassword(r) \/ CommitGrant(r), NEW t \in Tasks
  PROVE  Able(account, t) \subseteq Able(account', t)
<1> DEFINE u == SubjectOf(r) a == account[u]
<1>1. u \in Users /\ a \in Accounts /\ account \in [Users -> Accounts]
  BY CommitWrites, TeamAssumption DEF SubjectOf, TypeOK
<1>2. ASSUME NEW b, account' = Changed(u, b)
      PROVE  account'[u] = [b EXCEPT !.version = a.version + 1]
  BY <1>1, <1>2 DEF Changed
<1>3. /\ account'[u].active = a.active /\ account'[u].roles = a.roles
      /\ a.credential => account'[u].credential
  <2>1. CASE CommitIssue(r)
    <3>1. account' = Changed(u, Issued(a))
      BY <2>1 DEF CommitIssue
    <3>2. account'[u] = [Issued(a) EXCEPT !.version = a.version + 1]
      BY <1>2, <3>1
    <3> QED
      BY <1>1, <3>2 DEF Issued, Accounts
  <2>2. CASE CommitPassword(r)
    <3> DEFINE b == [a EXCEPT !.credential = TRUE, !.code = 0, !.password = a.version + 1]
    <3>1. account' = Changed(u, b)
      BY <2>2 DEF CommitPassword
    <3>2. account'[u] = [b EXCEPT !.version = a.version + 1]
      BY <1>2, <3>1
    <3> QED
      BY <1>1, <3>2 DEF Accounts
  <2>3. CASE CommitGrant(r)
    <3> DEFINE b == [a EXCEPT !.admin = TRUE]
    <3>1. account' = account \/ account' = Changed(u, b)
      BY <2>3 DEF CommitGrant
    <3>2. account'[u] = a \/ account'[u] = [b EXCEPT !.version = a.version + 1]
      BY <1>2, <3>1
    <3> QED
      BY <1>1, <3>2 DEF Accounts
  <2> QED
    BY <2>1, <2>2, <2>3
<1>4. \A v \in Users : v # u => account'[v] = account[v]
  BY OthersStay
<1> QED
  BY <1>3, <1>4 DEF Able, Eligible

LEMMA ReconcileTells ==
  ASSUME TypeOK, TypeOK', OwnersAreTold, NEW u \in Users, NEW roles,
         Reconcile(account', u, roles), \A v \in Users : v # u => account'[v] = account[v]
  PROVE  OwnersAreTold'
<1> DEFINE moved == Moved(account', u, roles)
<1> SUFFICES ASSUME NEW t \in Tasks, Open(t)', task'[t].owner # None
             PROVE  /\ task'[t].owner \in Able(account', t)
                    /\ t \notin Monthly => notices'[t][task'[t].owner] = {task'[t].epoch}
  BY DEF OwnersAreTold, Able
<1>1. CASE t \in moved
  <2>1. task'[t] = Reassigned(account', t)
    BY <1>1 DEF Reconcile
  <2>2. task'[t].owner \in Able(account', t)
    BY <2>1, SoleIsAble DEF Reassigned
  <2>3. t \notin Monthly =>
          notices'[t] = Notified(notices, account', t, task'[t].owner, task'[t].epoch)
    BY <1>1, <2>1 DEF Reconcile
  <2> QED
    BY <2>2, <2>3, OwnerNotified
<1>2. CASE t \notin moved
  <2>1. task'[t] = task[t] /\ notices'[t] = notices[t]
    BY <1>2 DEF Reconcile
  <2>2. /\ Open(t) /\ task[t].owner \in Able(account, t)
        /\ t \notin Monthly => notices[t][task[t].owner] = {task[t].epoch}
    BY <2>1 DEF OwnersAreTold, Open
  <2>3. task[t].owner \in Able(account', t)
    <3>1. CASE task[t].owner = u
      <4>1. t \in Affected(u, roles)
        BY <2>2, <3>1 DEF Affected
      <4>2. task[t].owner # None
        BY <2>1
      <4>3. CASE task[t].owner = Sole(account', t)
        BY <4>2, <4>3, SoleIsAble
      <4>4. CASE task[t].owner # Sole(account', t)
        BY <1>2, <4>1, <4>4 DEF Moved
      <4> QED
        BY <4>3, <4>4
    <3>2. CASE task[t].owner # u
      BY <2>2, <3>2 DEF Able, Eligible
    <3> QED
      BY <3>1, <3>2
  <2> QED
    BY <2>1, <2>2, <2>3
<1> QED
  BY <1>1, <1>2

LEMMA OwnersStay ==
  ASSUME AccountInv, TasksFollow, OwnersAreTold, NEW r \in Requests, Steps(r)
  PROVE  OwnersAreTold'
<1>0. /\ TypeOK /\ WellFormed /\ GroundsStand /\ TypeOK'
      /\ task \in [Tasks -> TaskStates]
      /\ notices \in [Tasks -> [Users -> SUBSET Nat]]
  BY StepTyped DEF AccountInv, TypeOK
<1>1. ASSUME UNCHANGED taskVars, \A t \in Tasks : Able(account, t) \subseteq Able(account', t)
      PROVE  OwnersAreTold'
  BY <1>1 DEF OwnersAreTold, taskVars, Open, Able
<1>2. CASE ~Commits(r)
  <2>1. account' = account /\ UNCHANGED taskVars
    BY <1>2 DEF Steps, Quits, Admits, Decides, Opens, OpenSession, dataVars, taskVars
  <2> QED
    BY <1>1, <2>1
<1>3. CASE Commits(r) /\ CommitsChange(r) /\ UNCHANGED taskVars /\ KindOf(r) # "personnel"
  <2>1. CommitIssue(r) \/ CommitPassword(r) \/ CommitGrant(r)
    BY <1>3 DEF CommitsChange, CommitPersonnel, Commit
  <2>2. \A t \in Tasks : Able(account, t) \subseteq Able(account', t)
    BY <1>0, <1>3, <2>1, EligibleStay
  <2> QED
    BY <1>1, <1>3, <2>2
<1>4. CASE Commits(r) /\ ChangePersonnel(r)
  <2>1. CASE account' = account
    BY <1>1, <1>4, <2>1 DEF ChangePersonnel
  <2>2. CASE account' # account
    <3>1. SubjectOf(r) \in Users
      BY <1>0, <1>4, CommitWrites, TeamAssumption DEF SubjectOf
    <3>2. \A v \in Users : v # SubjectOf(r) => account'[v] = account[v]
      BY <1>0, <1>4, OthersStay
    <3> QED
      BY <1>0, <1>4, <2>2, <3>1, <3>2, ReconcileTells DEF ChangePersonnel
  <2> QED
    BY <2>1, <2>2
<1>5. CASE Commits(r) /\ CommitClaim(r)
  <2> DEFINE c == request[r].command m == TaskOf[c] g == Granted(r)
  <2>1. InTransaction(r) /\ c \in Commands /\ m \in Tasks
    BY <1>0, <1>5, CommitWrites, TaskAssumption
  <2>2. KindOf(r) \in {"claim", "transfer"}
    BY <1>5 DEF CommitClaim, Commit
  <2>3. Open(m) /\ Receiver(r) \in Able(account, m)
    BY <1>0, <2>1, <2>2 DEF GroundsStand, Grounds, MayReceive
  <2>4. /\ task' = [task EXCEPT ![m] = g]
        /\ notices' = IF g = task[m] /\ m \notin Monthly THEN notices
                      ELSE [notices EXCEPT ![m] = Notified(notices, account, m, g.owner, g.epoch)]
        /\ account' = account
    BY <1>5 DEF CommitClaim, accountVars
  <2>5. g.owner = Receiver(r) /\ Receiver(r) # None
    BY <2>3, TeamAssumption DEF Granted, Able
  <2> HIDE DEF g
  <2> SUFFICES ASSUME NEW t \in Tasks, Open(t)', task'[t].owner # None
               PROVE  /\ task'[t].owner \in Able(account', t)
                      /\ t \notin Monthly => notices'[t][task'[t].owner] = {task'[t].epoch}
    BY DEF OwnersAreTold, Able
  <2>6. CASE t # m
    <3>1. task'[t] = task[t] /\ notices'[t] = notices[t]
      BY <1>0, <2>4, <2>6
    <3> QED
      BY <2>4, <3>1 DEF OwnersAreTold, Open
  <2>7. CASE t = m
    <3>1. task'[m] = g
      BY <1>0, <2>1, <2>4
    <3>2. CASE g = task[m] /\ m \notin Monthly
      BY <2>1, <2>3, <2>4, <2>5, <2>7, <3>1, <3>2 DEF OwnersAreTold
    <3>3. CASE ~(g = task[m] /\ m \notin Monthly)
      <4>1. notices'[m] = Notified(notices, account, m, g.owner, g.epoch)
        BY <1>0, <2>1, <2>4, <3>3
      <4> QED
        BY <2>1, <2>3, <2>4, <2>5, <2>7, <3>1, <4>1, OwnerNotified
    <3> QED
      BY <3>2, <3>3
  <2> QED
    BY <2>6, <2>7
<1>6. CASE Commits(r) /\ CommitCompletion(r)
  <2> DEFINE m == TaskOf[request[r].command]
  <2>1. InTransaction(r) /\ m \in Tasks
    BY <1>0, <1>6, CommitWrites, TaskAssumption
  <2>2. KindOf(r) = "complete" /\ account' = account
    BY <1>6 DEF CommitCompletion, Commit, accountVars
  <2> SUFFICES ASSUME NEW t \in Tasks, Open(t)', task'[t].owner # None
               PROVE  /\ task'[t].owner \in Able(account', t)
                      /\ t \notin Monthly => notices'[t][task'[t].owner] = {task'[t].epoch}
    BY DEF OwnersAreTold, Able
  <2>3. t # m
    BY <1>6 DEF CommitCompletion, Open
  <2>4. CASE t \in NextTasks[m]
    <3>1. task'[t] = Created(t)
      BY <1>6, <2>3, <2>4 DEF CommitCompletion
    <3>2. task'[t].owner \in Able(account, t) /\ task'[t].owner = Created(t).owner
          /\ task'[t].epoch = 0
      BY <3>1, SoleIsAble DEF Created
    <3>3. t \notin Monthly => notices'[t] = Notified(notices, account, t, Created(t).owner, 0)
      BY <1>6, <2>3, <2>4 DEF CommitCompletion
    <3> QED
      BY <2>2, <3>2, <3>3, OwnerNotified
  <2>5. CASE t \notin NextTasks[m]
    <3>1. task'[t] = task[t] /\ notices'[t] = notices[t]
      BY <1>6, <2>3, <2>5 DEF CommitCompletion
    <3> QED
      BY <2>2, <3>1 DEF OwnersAreTold, Open
  <2> QED
    BY <2>4, <2>5
<1> QED
  BY <1>2, <1>3, <1>4, <1>5, <1>6 DEF Commits

-----------------------------------------------------------------------------
(* The start.                                                              *)

LEMMA InitTyped == Init => TypeOK /\ WellFormed
<1> SUFFICES ASSUME Init PROVE TypeOK /\ WellFormed
  OBVIOUS
<1>1. /\ account \in [Users -> Accounts]
      /\ \A u \in Users : account[u].version > 0 /\ (account[u].code # 0 => account[u].password = 0)
  <2>1. account = Members /\ Members \in [Users -> Accounts]
    BY TeamAssumption DEF Init
  <2>2. \A u \in Users : Members[u].version > 0 /\ (Members[u].code # 0 => Members[u].password = 0)
    BY TeamAssumption
  <2> QED
    BY <2>1, <2>2
<1>2. sessions \subseteq Sessions
  <2>1. \A u \in Users : account[u].version \in Nat /\ account[u].password \in Nat
    BY <1>1 DEF Accounts
  <2>2. \A u \in Users : LoggedInAs(u) \in Sessions
    BY <2>1 DEF LoggedInAs, Sessions
  <2> QED
    BY <2>2 DEF Init
<1>3. Unread \in Accounts
  BY DEF Unread, Accounts
<1>4. Idle \in RequestStates
  BY <1>3 DEF Idle, RequestStates
<1>5. request \in [Requests -> RequestStates] /\ \A r \in Requests : Free(r)
  BY <1>4 DEF Init, Free, Idle
<1>6. results \in [Commands -> SUBSET Result]
  BY DEF Init
<1>7. \A t \in Tasks : Created(t) \in TaskStates /\ Unassigned \in TaskStates
  BY SoleIsAble DEF Created, Unassigned, TaskStates
<1>8. task \in [Tasks -> TaskStates]
  BY <1>7 DEF Init
<1>9. Untold \in [Tasks -> [Users -> SUBSET Nat]]
  BY DEF Untold
<1>10. \A t \in Tasks : Notified(Untold, account, t, Created(t).owner, 0) \in [Users -> SUBSET Nat]
  BY <1>9, NoticesTyped
<1>11. notices \in [Tasks -> [Users -> SUBSET Nat]]
  BY <1>9, <1>10 DEF Init
<1> QED
  BY <1>1, <1>2, <1>5, <1>6, <1>8, <1>11 DEF TypeOK, WellFormed

LEMMA InitInv ==
  Init => /\ AccountInv /\ TasksFollow
          /\ SessionsFollowPasswords /\ AnswersHold /\ OwnersAreTold /\ AdminRemains
<1> SUFFICES ASSUME Init
             PROVE  /\ AccountInv /\ TasksFollow
                    /\ SessionsFollowPasswords /\ AnswersHold /\ OwnersAreTold /\ AdminRemains
  OBVIOUS
<1>1. TypeOK /\ WellFormed
  BY InitTyped
<1>2. \A r \in Requests : Free(r) /\ ~InTransaction(r)
  BY DEF Init, Free, InTransaction, Idle
<1>3. SeenInTime /\ LocksHeld /\ GroundsStand
  BY <1>2 DEF SeenInTime, LocksHeld, GroundsStand
<1>4. \A s \in sessions : s.user \in Users /\ s.version = account[s.user].version
                          /\ s.password = account[s.user].password
  BY DEF Init, LoggedInAs
<1>5. SessionsInTime
  BY <1>1, <1>4 DEF SessionsInTime, TypeOK, Accounts
<1>6. SessionsFollowPasswords
  BY <1>4 DEF SessionsFollowPasswords
<1>7. \A c \in Commands : results[c] = {}
  BY DEF Init
<1>8. \A t \in Tasks : \A n \in NextTasks[t] : task[n].status = "none"
  BY TaskAssumption DEF Init, Unassigned
<1>9. TasksFollow /\ AnswersHold
  BY <1>7, <1>8 DEF TasksFollow, AnswersHold
<1>10. OwnersAreTold
  <2> SUFFICES ASSUME NEW t \in Tasks, Open(t), task[t].owner # None
               PROVE  /\ task[t].owner \in Able(account, t)
                      /\ t \notin Monthly => notices[t][task[t].owner] = {task[t].epoch}
    BY DEF OwnersAreTold
  <2>1. t \in OpenAtStart /\ task[t] = Created(t)
    BY DEF Init, Open, Unassigned
  <2>2. task[t].owner = Sole(account, t) /\ task[t].epoch = 0
    BY <2>1 DEF Created
  <2>3. task[t].owner \in Able(account, t)
    BY <2>2, SoleIsAble
  <2>4. t \notin Monthly => notices[t] = Notified(Untold, account, t, task[t].owner, 0)
    BY <2>1 DEF Init
  <2> QED
    BY <2>2, <2>3, <2>4, OwnerNotified
<1>11. AdminRemains
  BY TeamAssumption DEF Init, AdminRemains
<1> QED
  BY <1>1, <1>3, <1>5, <1>6, <1>9, <1>10, <1>11 DEF AccountInv

-----------------------------------------------------------------------------
(* The invariant.                                                          *)

LEMMA AccountStay ==
  ASSUME AccountInv, TasksFollow, NEW r \in Requests, Steps(r)
  PROVE  AccountInv'
<1>1. TypeOK /\ WellFormed
  BY DEF AccountInv
<1> QED
  BY <1>1, StepTyped, SeenStays, SessionsStay, LocksStay, GroundsStay DEF AccountInv

LEMMA StutterAccount ==
  ASSUME UNCHANGED vars
  PROVE  /\ AccountInv => AccountInv'
         /\ TasksFollow => TasksFollow'
         /\ SessionsFollowPasswords => SessionsFollowPasswords'
         /\ AnswersHold => AnswersHold'
         /\ OwnersAreTold => OwnersAreTold'
<1> USE DEF vars, accountVars, taskVars
<1>1. TypeOK => TypeOK'
  BY DEF TypeOK
<1>2. WellFormed => WellFormed'
  BY DEF WellFormed, Free
<1>3. SeenInTime => SeenInTime'
  BY DEF SeenInTime, Free, ActorOf
<1>4. (SessionsInTime => SessionsInTime') /\ (SessionsFollowPasswords => SessionsFollowPasswords')
  BY DEF SessionsInTime, SessionsFollowPasswords
<1>5. LocksHeld => LocksHeld'
  BY DEF LocksHeld, InTransaction, KindOf
<1>6. ASSUME GroundsStand
      PROVE  GroundsStand'
  <2> SUFFICES ASSUME NEW q \in Requests, InTransaction(q)'
               PROVE  Grounds(q)'
    BY DEF GroundsStand
  <2>1. InTransaction(q)
    BY DEF InTransaction, KindOf
  <2> QED
    BY <1>6, <2>1, GroundsKept DEF GroundsStand
<1>7. (TasksFollow => TasksFollow') /\ (AnswersHold => AnswersHold')
  BY DEF TasksFollow, AnswersHold
<1>8. OwnersAreTold => OwnersAreTold'
  BY DEF OwnersAreTold, Open, Able, Eligible
<1> QED
  BY <1>1, <1>2, <1>3, <1>4, <1>5, <1>6, <1>7, <1>8 DEF AccountInv

LEMMA TeamStep ==
  ASSUME AccountInv, TasksFollow, AnswersHold, [Next]_vars
  PROVE  AccountInv' /\ TasksFollow' /\ AnswersHold'
<1>1. CASE UNCHANGED vars
  BY <1>1, StutterAccount
<1>2. CASE Next
  <2>1. PICK r \in Requests : Steps(r)
    BY <1>2, NextSteps DEF AccountInv
  <2> QED
    BY <2>1, AccountStay, AnswersStay
<1> QED
  BY <1>1, <1>2

THEOREM TeamInvariant == Spec => [](AccountInv /\ TasksFollow /\ AnswersHold)
BY InitInv, TeamStep, PTL DEF Spec

(* Every reachable state is well typed, and an account with a recovery     *)
(* code has no password.                                                   *)
THEOREM TeamTyped == Spec => []TypeOK
<1>1. AccountInv => TypeOK
  BY DEF AccountInv
<1> QED
  BY <1>1, TeamInvariant, PTL

(* The answers to claims and transfers stay true while their epoch lasts.  *)
THEOREM AnswersTrue == Spec => []AnswersHold
BY TeamInvariant, PTL

LEMMA PasswordsStep ==
  ASSUME AccountInv, TasksFollow, SessionsFollowPasswords, [Next]_vars
  PROVE  SessionsFollowPasswords'
<1>1. CASE UNCHANGED vars
  BY <1>1, StutterAccount
<1>2. CASE Next
  <2>1. PICK r \in Requests : Steps(r)
    BY <1>2, NextSteps DEF AccountInv
  <2> QED
    BY <2>1, SessionsStay
<1> QED
  BY <1>1, <1>2

(* A session that still counts was opened with the password that counts.   *)
THEOREM PasswordsFollowed == Spec => []SessionsFollowPasswords
BY InitInv, PasswordsStep, TeamInvariant, PTL DEF Spec

LEMMA OwnersStep ==
  ASSUME AccountInv, TasksFollow, OwnersAreTold, [Next]_vars
  PROVE  OwnersAreTold'
<1>1. CASE UNCHANGED vars
  BY <1>1, StutterAccount
<1>2. CASE Next
  <2>1. PICK r \in Requests : Steps(r)
    BY <1>2, NextSteps DEF AccountInv
  <2> QED
    BY <2>1, OwnersStay
<1> QED
  BY <1>1, <1>2

(* Whoever owns an open task is entitled to it and has been told.          *)
THEOREM OwnersTold == Spec => []OwnersAreTold
BY InitInv, OwnersStep, TeamInvariant, PTL DEF Spec

-----------------------------------------------------------------------------
(* Who acts.                                                               *)

LEMMA OnlyCommitsWrite ==
  ASSUME AccountInv, TasksFollow, Next,
         <<account, task, results>>' # <<account, task, results>>
  PROVE  \E r \in Requests : /\ InTransaction(r) /\ Grounds(r)
                             /\ \A q \in Requests \ {r} : request'[q] = request[q]
<1>1. TypeOK /\ WellFormed
  BY DEF AccountInv
<1>2. PICK r \in Requests : Steps(r)
  BY <1>1, NextSteps
<1>3. Commits(r)
  BY <1>2 DEF Steps, Quits, Admits, Decides, Opens, OpenSession, dataVars, taskVars
<1>4. InTransaction(r) /\ request' = [request EXCEPT ![r] = Idle]
  BY <1>1, <1>3, CommitWrites
<1>5. Grounds(r)
  BY <1>4 DEF AccountInv, GroundsStand
<1>6. \A q \in Requests \ {r} : request'[q] = request[q]
  BY <1>1, <1>4 DEF TypeOK
<1> QED
  BY <1>4, <1>5, <1>6

LEMMA WriterStands ==
  ASSUME NEW r \in Requests, Grounds(r), KindOf(r) \notin HostKinds \cup {"login"}
  PROVE  /\ Current(r)
         /\ KindOf(r) \in TaskKinds => Approved(account[ActorOf(r)])
         /\ KindOf(r) = "claim" /\ request[r].command \in Commands =>
              ActorOf(r) \in Able(account, TaskOf[request[r].command])
<1>1. KindOf(r) = "claim" /\ request[r].command \in Commands => Receiver(r) = ActorOf(r)
  BY TaskAssumption DEF KindOf, Receiver, SubjectOf, ActorOf
<1> QED
  BY <1>1 DEF Grounds, StillEntitled, MayReceive, TaskKinds

(* No transaction of a person takes effect after the rights it was         *)
(* admitted with have changed.                                             *)
THEOREM RevokedRefused == Spec => RevokedNeverAct
<1>1. ASSUME AccountInv, TasksFollow, [Next]_vars,
             NEW r \in Requests, request[r].step = "decided",
             KindOf(r) \notin HostKinds \cup {"login"},
             <<account, task, results>>' # <<account, task, results>>,
             request'[r] # request[r]
      PROVE  /\ Current(r)
             /\ KindOf(r) \in TaskKinds => Approved(account[ActorOf(r)])
             /\ KindOf(r) = "claim" => ActorOf(r) \in Able(account, TaskOf[request[r].command])
  <2>1. Next
    BY <1>1 DEF vars, accountVars, taskVars
  <2>2. PICK q \in Requests : /\ InTransaction(q) /\ Grounds(q)
                              /\ \A p \in Requests \ {q} : request'[p] = request[p]
    BY <1>1, <2>1, OnlyCommitsWrite
  <2>3. r = q
    BY <1>1, <2>2
  <2>4. request[r].command \in Commands
    BY <1>1 DEF AccountInv, WellFormed, Free
  <2> QED
    BY <1>1, <2>2, <2>3, <2>4, WriterStands
<1>2. AccountInv /\ TasksFollow /\ [Next]_vars =>
        [\A r \in Requests :
           request[r].step = "decided" /\ KindOf(r) \notin HostKinds \cup {"login"}
           /\ <<account, task, results>>' # <<account, task, results>> /\ request'[r] # request[r]
           => /\ Current(r)
              /\ KindOf(r) \in TaskKinds => Approved(account[ActorOf(r)])
              /\ KindOf(r) = "claim" => ActorOf(r) \in Able(account, TaskOf[request[r].command])]_vars
  BY <1>1
<1> QED
  BY <1>2, TeamInvariant, PTL DEF Spec, RevokedNeverAct

-----------------------------------------------------------------------------
(* Someone can always administer.                                          *)

Administers(u) == account[u].active /\ account[u].admin
                  /\ account[u].credential /\ account[u].password # 0

LEMMA AnotherAdmin ==
  ASSUME NEW r \in Requests, SubjectOf(r) \in Users, Cardinality(AvailableAdmins) > 1
  PROVE  \E u \in Users \ {SubjectOf(r)} : Administers(u)
<1>1. AvailableAdmins \subseteq Users
  BY DEF AvailableAdmins
<1>2. SUFFICES ASSUME AvailableAdmins \subseteq {SubjectOf(r)} PROVE FALSE
  BY <1>1 DEF AvailableAdmins, Administers
<1>3. IsFiniteSet({SubjectOf(r)}) /\ Cardinality({SubjectOf(r)}) = 1
  BY FS_Singleton
<1>4. Cardinality(AvailableAdmins) <= 1 /\ Cardinality(AvailableAdmins) \in Nat
  BY <1>2, <1>3, FS_Subset, FS_CardinalityType
<1> QED
  BY <1>4

LEMMA AdminStays ==
  ASSUME AccountInv, TasksFollow, AdminRemains, NEW r \in Requests, Steps(r)
  PROVE  AdminRemains'
<1>1. TypeOK /\ WellFormed
  BY DEF AccountInv
<1>2. PICK admin \in Users : Administers(admin)
  BY DEF AdminRemains, Administers
<1>3. ASSUME NEW u \in Users, Administers(u), account'[u] = account[u]
      PROVE  AdminRemains'
  BY <1>3 DEF AdminRemains, Administers
<1>4. CASE account' = account
  BY <1>2, <1>3, <1>4
<1>5. CASE account' # account
  <2>1. Commits(r)
    BY <1>5 DEF Steps, Steps, Quits, Admits, Decides, Opens, OpenSession, dataVars
  <2> DEFINE u == SubjectOf(r)
  <2>2. /\ InTransaction(r) /\ Grounds(r) /\ request[r].command \in Commands
        /\ KindOf(r) \notin TaskKinds
    BY <1>1, <1>5, <2>1, CommitWrites DEF AccountInv, GroundsStand
  <2>3. u \in Users /\ account[u] \in Accounts
    BY <1>1, <2>2, TeamAssumption DEF SubjectOf, TypeOK
  <2>4. \A v \in Users \ {u} : account'[v] = account[v]
    BY <1>1, <2>1, OthersStay
  <2>5. ASSUME NEW v \in Users \ {u}, Administers(v)
        PROVE  AdminRemains'
    BY <1>3, <2>4, <2>5
  <2>6. CASE admin # u
    BY <1>2, <2>5, <2>6
  <2>7. CASE admin = u
    <3>1. CASE CommitIssue(r)
      <4>1. Cardinality(AvailableAdmins) > 1
        BY <1>2, <2>2, <2>7, <3>1 DEF CommitIssue, Commit, Grounds, MayIssue, Administers
      <4> QED
        BY <2>3, <2>5, <4>1, AnotherAdmin
    <3>2. CASE CommitPassword(r)
      <4> DEFINE a == [account[u] EXCEPT !.credential = TRUE, !.code = 0,
                                         !.password = account[u].version + 1]
      <4>1. account' = Changed(u, a)
        BY <3>2 DEF CommitPassword
      <4>2. a \in Accounts /\ a.code = 0
        BY <2>3, CredentialSet
      <4>3. a.password = account[u].version + 1 /\ a.active = account[u].active
            /\ a.admin = account[u].admin /\ a.credential
        BY <2>3 DEF Accounts
      <4>4. a.password # 0
        BY <2>3, <4>3 DEF Accounts
      <4> HIDE DEF a
      <4>5. account'[u] = [a EXCEPT !.version = account[u].version + 1]
        BY <1>1, <2>3, <4>1, <4>2, OneChanged
      <4>6. /\ account'[u].active = a.active /\ account'[u].admin = a.admin
            /\ account'[u].credential = a.credential /\ account'[u].password = a.password
        BY <4>2, <4>5 DEF Accounts
      <4> QED
        BY <1>2, <2>3, <2>7, <4>3, <4>4, <4>6 DEF AdminRemains, Administers
    <3>3. CASE CommitGrant(r)
      BY <1>2, <1>5, <2>7, <3>3 DEF CommitGrant, Administers
    <3>4. CASE ChangePersonnel(r)
      <4>1. LeavesAdmin(r) /\ CommitPersonnel(r)
        BY <2>2, <3>4 DEF ChangePersonnel, CommitPersonnel, Commit, Grounds
      <4>2. CASE Change[request[r].command].active
        <5> DEFINE c == request[r].command
                   a == ChangedBy(c)
        <5>1. Subject[c] = u /\ Change[c] \in [active : BOOLEAN, approved : BOOLEAN, roles : SUBSET Roles]
          BY <2>2, TeamAssumption DEF SubjectOf
        <5>2. account' = Changed(u, a)
          BY <1>5, <4>1, <5>1 DEF CommitPersonnel
        <5>3. /\ a \in Accounts /\ a.active /\ a.admin = account[u].admin
              /\ a.credential = account[u].credential /\ a.password = account[u].password
              /\ a.code = account[u].code
          BY <2>3, <4>2, <5>1 DEF ChangedBy, Accounts
        <5>4. a.code # 0 => a.password = 0
          BY <1>1, <2>3, <5>3 DEF TypeOK
        <5> HIDE DEF a
        <5>5. account'[u] = [a EXCEPT !.version = account[u].version + 1]
          BY <1>1, <2>3, <5>2, <5>3, <5>4, OneChanged
        <5>6. /\ account'[u].active = a.active /\ account'[u].admin = a.admin
              /\ account'[u].credential = a.credential /\ account'[u].password = a.password
          BY <5>3, <5>5 DEF Accounts
        <5> QED
          BY <1>2, <2>3, <2>7, <5>3, <5>6 DEF AdminRemains, Administers
      <4>3. CASE ~(AvailableAdmins \subseteq {SubjectOf(r)})
        BY <2>5, <4>3 DEF AvailableAdmins, Administers
      <4> QED
        BY <1>2, <2>7, <4>1, <4>2, <4>3 DEF LeavesAdmin, Administers
    <3> QED
      BY <1>1, <2>1, <2>2, <3>1, <3>2, <3>3, <3>4
         DEF Commits, CommitsChange, CommitClaim, CommitCompletion, Commit, TaskKinds, CommitPersonnel
  <2> QED
    BY <2>6, <2>7
<1> QED
  BY <1>4, <1>5

LEMMA AdminStep ==
  ASSUME AccountInv, TasksFollow, AdminRemains, [Next]_vars
  PROVE  AdminRemains'
<1>1. CASE UNCHANGED vars
  BY <1>1 DEF AdminRemains, vars, accountVars
<1>2. CASE Next
  <2>1. PICK r \in Requests : Steps(r)
    BY <1>2, NextSteps DEF AccountInv
  <2> QED
    BY <2>1, AdminStays
<1> QED
  BY <1>1, <1>2

(* There is always an active administrator who can log in.                 *)
THEOREM AdminAlways == Spec => []AdminRemains
BY InitInv, AdminStep, TeamInvariant, PTL DEF Spec

-----------------------------------------------------------------------------
(* What has taken effect is answered.                                      *)

(* Who was admitted had the rights its command asks for.                   *)
SeenEntitled ==
  \A r \in Requests : ~Free(r) => Lets(request[r].command, request[r].seen)

LEMMA EntitledStays ==
  ASSUME AccountInv, SeenEntitled, [Next]_vars
  PROVE  SeenEntitled'
<1>1. CASE UNCHANGED vars
  BY <1>1 DEF SeenEntitled, Free, vars
<1>2. CASE Next
  <2>1. TypeOK /\ WellFormed
    BY DEF AccountInv
  <2>2. PICK r \in Requests : Steps(r)
    BY <1>2, <2>1, NextSteps
  <2> SUFFICES ASSUME NEW q \in Requests, ~Free(q)'
               PROVE  Lets(request'[q].command, request'[q].seen)
    BY DEF SeenEntitled
  <2>3. CASE Sits(q)
    BY <2>3 DEF Sits, Free, SeenEntitled
  <2>4. CASE Comes(q)
    BY <2>4 DEF Comes
  <2>5. CASE Rises(q)
    BY <2>5 DEF Rises, Free, SeenEntitled
  <2>6. ~Goes(q)
    BY DEF Goes, Free
  <2> QED
    BY <2>1, <2>2, <2>3, <2>4, <2>5, <2>6, RequestMoves
<1> QED
  BY <1>1, <1>2

LEMMA CurrentIsEntitled ==
  ASSUME AccountInv, SeenEntitled, NEW r \in Requests, ~Free(r), Current(r)
  PROVE  /\ KindOf(r) \in {"claim", "transfer"} => StillEntitled(r)
         /\ KindOf(r) = "personnel" => account[ActorOf(r)].admin
<1>1. account[ActorOf(r)] = request[r].seen
  BY DEF AccountInv, SeenInTime, Current
<1>2. Lets(request[r].command, request[r].seen)
  BY DEF SeenEntitled
<1> QED
  BY <1>1, <1>2 DEF Lets, StillEntitled, TaskKinds, AdminKinds, KindOf

LEMMA RefusedRightly ==
  ASSUME TypeOK, WellFormed, Next, NEW r \in Requests,
         request[r].step = "admitted", request'[r].step = "refused"
  PROVE  Rightly(r)
<1>1. PICK q \in Requests : Steps(q)
  BY NextSteps
<1>2. q = r
  BY <1>1, RequestMoves DEF Sits
<1>3. request \in [Requests -> RequestStates]
  BY DEF TypeOK
<1>4. request' # [request EXCEPT ![r] = Idle]
  BY <1>3 DEF Idle
<1>5. ~Commits(r)
  BY <1>4, CommitWrites
<1>6. ~Opens(r)
  BY <1>4 DEF Opens, OpenSession, End
<1>7. ~Decides(r)
  <2>1. ASSUME request' = [request EXCEPT ![r].step = "decided"]
        PROVE  request'[r].step = "decided"
    BY <1>3, <2>1 DEF RequestStates
  <2> QED
    BY <2>1 DEF Decides
<1>8. ASSUME NEW c \in Commands, NEW form \in Nat
      PROVE  ~Admits(r, c, form)
  BY <1>3 DEF Admits
<1> QED
  BY <1>1, <1>2, <1>4, <1>5, <1>6, <1>7, <1>8 DEF Steps, Quits

(* A command that has taken effect is not refused when it is sent again by *)
(* an actor whose rights are the same.                                     *)
THEOREM RetriesSucceed == Spec => RetriesAnswered
<1>1. ASSUME AccountInv, SeenEntitled, [Next]_vars,
             NEW r \in Requests, request[r].step = "admitted", request'[r].step = "refused",
             KindOf(r) \in {"claim", "transfer", "personnel"},
             results[request[r].command] # {}
      PROVE  ~Current(r)
  <2>1. TypeOK /\ WellFormed
    BY <1>1 DEF AccountInv
  <2>2. Next
    BY <1>1 DEF vars
  <2>3. Rightly(r) /\ Answered(r) /\ ~Free(r)
    BY <1>1, <2>1, <2>2, RefusedRightly DEF Answered, Free
  <2> QED
    BY <1>1, <2>3, CurrentIsEntitled DEF Rightly
<1>2. AccountInv /\ SeenEntitled /\ [Next]_vars =>
        [\A r \in Requests :
           /\ request[r].step = "admitted" /\ request'[r].step = "refused"
           /\ KindOf(r) \in {"claim", "transfer", "personnel"}
           /\ results[request[r].command] # {}
           => ~Current(r)]_vars
  BY <1>1
<1>3. Init => SeenEntitled
  BY DEF Init, SeenEntitled, Free, Idle
<1> QED
  BY <1>2, <1>3, EntitledStays, TeamInvariant, PTL DEF Spec, RetriesAnswered

=============================================================================
