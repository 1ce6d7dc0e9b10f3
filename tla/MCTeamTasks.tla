---------------------------- MODULE MCTeamTasks ----------------------------
EXTENDS TeamTasks, TLC

CONSTANTS a1, u1, u2, r1, r2

(* An administrator and a member who share a role, and an administrator of *)
(* old without a credential.                                               *)
Person(admin, credential) ==
  [active |-> TRUE, approved |-> ~admin, admin |-> admin, roles |-> {"review"},
   credential |-> credential, password |-> IF credential THEN 1 ELSE 0,
   code |-> 0, version |-> 1]
MCMembers ==
  a1 :> Person(TRUE, TRUE) @@ u1 :> Person(FALSE, TRUE) @@ u2 :> Person(TRUE, FALSE)
MCMaxVersion == a1 :> 2 @@ u1 :> 3 @@ u2 :> 2

Row(kind, actor, subject, t) == [kind |-> kind, actor |-> actor, subject |-> subject, t |-> t]
Table ==
  [login     |-> Row("login", u1, u1, "t"),
   password  |-> Row("password", u1, u1, "t"), recover   |-> Row("recover", u1, u1, "t"),
   issue_a   |-> Row("issue", a1, a1, "t"),    issue_u   |-> Row("issue", a1, u1, "t"),
   bind      |-> Row("bind", u2, u2, "t"),     grant     |-> Row("grant", u1, u1, "t"),
   leave     |-> Row("personnel", a1, u1, "t"),
   claim_a   |-> Row("claim", a1, a1, "t"),    claim_u   |-> Row("claim", u1, u1, "t"),
   transfer  |-> Row("transfer", a1, u1, "t"), complete  |-> Row("complete", u1, u1, "t"),
   month     |-> Row("claim", u1, u1, "m")]

MCCommands == DOMAIN Table
MCKind     == [c \in MCCommands |-> Table[c].kind]
MCActor    == [c \in MCCommands |-> Table[c].actor]
MCSubject  == [c \in MCCommands |-> Table[c].subject]
MCTaskOf   == [c \in MCCommands |-> Table[c].t]
MCChange   == [c \in MCCommands |-> [active |-> c # "leave", approved |-> TRUE, roles |-> {"review"}]]
MCRoleOf   == [t \in {"t", "m"} |-> "review"]
MCProject  == [t \in {"t", "m"} |-> "p"]
MCNext     == [t \in {"t", "m"} |-> IF t = "t" THEN {"m"} ELSE {}]
Alike      == Permutations(Requests)
=============================================================================
