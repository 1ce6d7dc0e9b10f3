SPECIFICATION Spec
CONSTANTS
  a1 = a1
  u1 = u1
  u2 = u2
  r1 = r1
  r2 = r2
  None = None
  Users = {a1, u1, u2}
  Roles = {"review"}
  Requests = {r1, r2}
  Commands <- MCCommands
  Kind <- MCKind
  Actor <- MCActor
  Subject <- MCSubject
  Change <- MCChange
  Members <- MCMembers
  MaxVersion <- MCMaxVersion
  Tasks = {"t", "m"}
  Monthly = {"m"}
  RoleOf <- MCRoleOf
  ProjectOf <- MCProject
  TaskOf <- MCTaskOf
  NextTasks <- MCNext
  OpenAtStart = {"t"}
  MaxEpoch = 2
SYMMETRY Alike
INVARIANTS SessionsFollowPasswords AdminRemains OwnersAreTold AnswersHold
PROPERTIES RevokedNeverAct RetriesAnswered
CHECK_DEADLOCK FALSE
