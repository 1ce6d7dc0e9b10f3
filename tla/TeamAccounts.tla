---------------------------- MODULE TeamAccounts ----------------------------
(***************************************************************************)
(* Accounts, sessions and the authorization lock.  A request is admitted   *)
(* with the account its session leads to, then runs a transaction: writes  *)
(* of the team share the authorization lock and read their actor again     *)
(* under it; whatever changes the rights or the password of an account     *)
(* holds the lock alone.  Each such change raises the account's version,   *)
(* and what was opened or admitted under an older one is dead.             *)
(*                                                                         *)
(* A transaction takes its locks and decides in one step, and writes in    *)
(* another.  Row locks beside the authorization lock, rate limits, the     *)
(* expiry of sessions and logging out only forbid behaviours and are left  *)
(* out.                                                                    *)
(***************************************************************************)
EXTENDS Naturals, FiniteSets

CONSTANTS Users, Roles,
          Requests,    \* how many may be under way together
          Commands,    \* each with its idempotency key, where it has one
          Kind,        \* what a command asks for
          Actor,       \* who sends it, or whom the host names
          Subject,     \* the account it is about
          Change,      \* what a change of personnel makes of the subject
          Members,     \* the accounts at the start
          MaxVersion,  \* bound: no change is asked for beyond this version
          None

TaskKinds      == {"claim", "transfer", "complete"}
AdminKinds     == {"personnel", "issue"}
OwnKinds       == {"password", "recover"}
HostKinds      == {"bind", "grant"}
ExclusiveKinds == AdminKinds \cup OwnKinds \cup HostKinds
Kinds          == TaskKinds \cup ExclusiveKinds \cup {"login"}

(* A password is named by the version that set it, a recovery code by the  *)
(* version that issued it; 0 is none.                                      *)
Accounts == [active : BOOLEAN, approved : BOOLEAN, admin : BOOLEAN,
             roles : SUBSET Roles, credential : BOOLEAN,
             password : Nat, code : Nat, version : Nat]

ASSUME TeamAssumption ==
  /\ IsFiniteSet(Users) /\ None \notin Users \cup Commands
  /\ Kind \in [Commands -> Kinds]
  /\ Actor \in [Commands -> Users] /\ Subject \in [Commands -> Users]
  /\ \A c \in Commands : Kind[c] \in OwnKinds \cup HostKinds => Subject[c] = Actor[c]
  /\ Change \in [Commands -> [active : BOOLEAN, approved : BOOLEAN, roles : SUBSET Roles]]
  /\ Members \in [Users -> Accounts]
  /\ \A u \in Users : /\ Members[u].version > 0
                      /\ Members[u].password \in {0, Members[u].version}
                      /\ Members[u].code \in {0, Members[u].version}
                      /\ Members[u].code # 0 => Members[u].password = 0
  /\ \E u \in Users : /\ Members[u].active /\ Members[u].admin
                      /\ Members[u].credential /\ Members[u].password # 0
  /\ MaxVersion \in [Users -> Nat]

VARIABLES account,    \* the users with their roles and credentials
          sessions,   \* the sessions in Redis
          request,    \* the requests under way
          results     \* the stored result of each command, if any

accountVars == <<account, sessions>>

-----------------------------------------------------------------------------

Sessions == [user : Users, version : Nat, password : Nat]
Unread   == [active |-> FALSE, approved |-> FALSE, admin |-> FALSE, roles |-> {},
             credential |-> FALSE, password |-> 0, code |-> 0, version |-> 0]
Idle     == [step |-> "idle", command |-> None, seen |-> Unread, form |-> 0]
Refused  == [step |-> "refused", command |-> None, seen |-> Unread, form |-> 0]
RequestStates == [step : {"idle", "refused", "admitted", "decided"},
                  command : Commands \cup {None}, seen : Accounts, form : Nat]
Result   == [owner : Users \cup {None}, epoch : Nat]

KindOf(r)    == Kind[request[r].command]
ActorOf(r)   == Actor[request[r].command]
SubjectOf(r) == Subject[request[r].command]

Approved(a) == a.admin \/ a.approved

(* Whom a task of the role can be given to.                                *)
Eligible(accounts, u, role) ==
  accounts[u].active /\ accounts[u].credential /\ role \in accounts[u].roles

(* Mutant: any administrator counts, with or without a password.           *)
AvailableAnyAdmin == {u \in Users : account[u].active /\ account[u].admin}

AvailableAdmins ==
  {u \in Users : account[u].active /\ account[u].admin
                 /\ account[u].credential /\ account[u].password # 0}

-----------------------------------------------------------------------------
(* Requests.                                                               *)

Free(r)   == request[r].step \in {"idle", "refused"}
End(r)    == request' = [request EXCEPT ![r] = Idle]
Refuse(r) == request' = [request EXCEPT ![r] = Refused]
Decide(r) == request' = [request EXCEPT ![r].step = "decided"]

(* The guard finds the account of a session; the form of the command was   *)
(* filled in from a page that may be out of date.                          *)
Admit(r, c, form) ==
  /\ Free(r)
  /\ request' = [request EXCEPT ![r] = [step |-> "admitted", command |-> c,
                                        seen |-> account[Actor[c]], form |-> form]]

LoggedIn(u) ==
  account[u].active /\ \E s \in sessions : s.user = u /\ s.version = account[u].version

(* A crash, a timeout or an expired code; what is under way is rolled back.*)
Fail(r) ==
  /\ ~Free(r) /\ End(r)
  /\ UNCHANGED <<accountVars, results>>

InTransaction(r) == request[r].step = "decided" /\ KindOf(r) # "login"

(* Mutant: an exclusive holder does not wait for shared ones.              *)
AdmissibleAmongAdmins(r) ==
  \A q \in Requests \ {r} : InTransaction(q) => KindOf(q) \notin ExclusiveKinds

(* The authorization lock can be had, shared or exclusive.                 *)
Admissible(r) ==
  \A q \in Requests \ {r} :
    InTransaction(q) => KindOf(q) \notin ExclusiveKinds /\ KindOf(r) \notin ExclusiveKinds

(* Under the lock the actor is read again.                                 *)
Current(r) ==
  account[ActorOf(r)].active /\ account[ActorOf(r)].version = request[r].seen.version

(* Mutant: no result is looked up under the lock.                          *)
AnsweredBefore(r) == FALSE

Answered(r) == results[request[r].command] # {}

Store(r, owner, epoch) ==
  results' = [results EXCEPT ![request[r].command] = {[owner |-> owner, epoch |-> epoch]}]

-----------------------------------------------------------------------------
(* Login: the password is verified against the credential as read; a       *)
(* transaction confirms that nothing has changed; the session is written   *)
(* after it.                                                               *)

VerifyPassword(r, c) ==
  LET a == account[Actor[c]] IN
  /\ Kind[c] = "login" /\ a.active /\ a.password # 0
  /\ Admit(r, c, 0)
  /\ UNCHANGED <<accountVars, results>>

ConfirmLogin(r) ==
  /\ request[r].step = "admitted" /\ KindOf(r) = "login"
  /\ IF Current(r) /\ account[ActorOf(r)].password = request[r].seen.password
     THEN Decide(r) ELSE Refuse(r)
  /\ UNCHANGED <<accountVars, results>>

(* Mutant: the session takes the version the account has by then.          *)
OpenedNow(r) == [user |-> ActorOf(r), version |-> account[ActorOf(r)].version,
                 password |-> request[r].seen.password]

Opened(r) == [user |-> ActorOf(r), version |-> request[r].seen.version,
              password |-> request[r].seen.password]

OpenSession(r) ==
  /\ request[r].step = "decided" /\ KindOf(r) = "login"
  /\ sessions' = sessions \cup {Opened(r)}
  /\ End(r)
  /\ UNCHANGED <<account, results>>

-----------------------------------------------------------------------------
(* Changes of accounts: admission.  Who is to change a password or recover *)
(* an account need not be approved; the host states its plan from the      *)
(* account it has read.                                                    *)

MayAsk(c) ==
  LET a == account[Actor[c]] IN
  \/ Kind[c] \in AdminKinds /\ LoggedIn(Actor[c]) /\ a.admin
  \/ Kind[c] = "password" /\ LoggedIn(Actor[c]) /\ a.password # 0
  \/ Kind[c] = "recover" /\ a.active /\ a.code # 0 /\ a.code = a.version
  \/ Kind[c] \in HostKinds

AdmitChange(r, c) ==
  /\ account[Subject[c]].version < MaxVersion[Subject[c]]
  /\ MayAsk(c)
  /\ \E form \in {account[Subject[c]].version - 1, account[Subject[c]].version} :
       Admit(r, c, form)
  /\ UNCHANGED <<accountVars, results>>

(* A change of personnel looks for the result of its command first, then   *)
(* compares the version of the form, and leaves an administrator who can   *)
(* log in.                                                                 *)
LeavesAdmin(r) ==
  \/ Change[request[r].command].active
  \/ ~account[SubjectOf(r)].admin
  \/ SubjectOf(r) # ActorOf(r) /\ ~(AvailableAdmins \subseteq {SubjectOf(r)})

MayChange(r) ==
  Answered(r) \/ (request[r].form = account[SubjectOf(r)].version /\ LeavesAdmin(r))

DecidePersonnel(r) ==
  /\ request[r].step = "admitted" /\ KindOf(r) = "personnel" /\ Admissible(r)
  /\ IF ~(Current(r) /\ account[ActorOf(r)].admin /\ MayChange(r)) THEN Refuse(r)
     ELSE IF Answered(r) THEN End(r) ELSE Decide(r)
  /\ UNCHANGED <<accountVars, results>>

(* A recovery code is not issued for the last administrator.               *)
MayIssue(r) ==
  LET a == account[SubjectOf(r)] IN
  /\ account[ActorOf(r)].admin /\ a.active /\ a.credential
  /\ a.admin /\ a.password # 0 => Cardinality(AvailableAdmins) > 1

(* A password is changed and an account recovered only if the credential   *)
(* is the one that was read; the host binds a credential whatever there    *)
(* was, but grants its plan only as it was read, and once.                 *)
MayCommit(r) ==
  LET a == account[SubjectOf(r)] seen == request[r].seen IN
  \/ KindOf(r) = "issue" /\ Current(r) /\ MayIssue(r)
  \/ KindOf(r) = "password" /\ Current(r) /\ a.password = seen.password
  \/ KindOf(r) = "recover" /\ Current(r) /\ a.code = seen.code
  \/ KindOf(r) = "bind" /\ a.active
  \/ KindOf(r) = "grant" /\ Current(r) /\ a.credential /\ a.password # 0

DecideChange(r) ==
  /\ request[r].step = "admitted" /\ KindOf(r) \in ExclusiveKinds \ {"personnel"}
  /\ Admissible(r)
  /\ IF KindOf(r) = "grant" /\ Answered(r) THEN End(r)
     ELSE IF MayCommit(r) THEN Decide(r) ELSE Refuse(r)
  /\ UNCHANGED <<accountVars, results>>

-----------------------------------------------------------------------------
(* Changes of accounts: what the transactions write.                       *)

Commit(r, kind) == request[r].step = "decided" /\ KindOf(r) = kind /\ End(r)

Changed(u, a) == [account EXCEPT ![u] = [a EXCEPT !.version = account[u].version + 1]]

ChangedBy(c) ==
  [account[Subject[c]] EXCEPT !.active = Change[c].active,
                              !.approved = Change[c].approved, !.roles = Change[c].roles]

(* A change that changes nothing only stores its result.                   *)
CommitPersonnel(r) ==
  LET c == request[r].command IN
  /\ Commit(r, "personnel")
  /\ account' = IF ChangedBy(c) = account[Subject[c]] THEN account
                ELSE Changed(Subject[c], ChangedBy(c))
  /\ Store(r, None, 0)
  /\ UNCHANGED sessions

(* The code takes the place of the password.                               *)
Issued(a) == [a EXCEPT !.password = 0, !.code = a.version + 1]

CommitIssue(r) ==
  /\ Commit(r, "issue")
  /\ account' = Changed(SubjectOf(r), Issued(account[SubjectOf(r)]))
  /\ UNCHANGED <<sessions, results>>

CommitPassword(r) ==
  LET a == account[SubjectOf(r)] IN
  /\ \E kind \in OwnKinds \cup {"bind"} : Commit(r, kind)
  /\ account' = Changed(SubjectOf(r), [a EXCEPT !.credential = TRUE, !.code = 0,
                                                !.password = a.version + 1])
  /\ UNCHANGED <<sessions, results>>

(* The role of administrators goes with the flag.                          *)
CommitGrant(r) ==
  /\ Commit(r, "grant")
  /\ account' = IF account[SubjectOf(r)].admin THEN account
                ELSE Changed(SubjectOf(r), [account[SubjectOf(r)] EXCEPT !.admin = TRUE])
  /\ Store(r, None, 0)
  /\ UNCHANGED sessions

AccountStep ==
  \E r \in Requests :
    \/ Fail(r) \/ ConfirmLogin(r) \/ OpenSession(r)
    \/ DecidePersonnel(r) \/ DecideChange(r)
    \/ CommitIssue(r) \/ CommitPassword(r) \/ CommitGrant(r)
    \/ \E c \in Commands : VerifyPassword(r, c) \/ AdmitChange(r, c)

=============================================================================
