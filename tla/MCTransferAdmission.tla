------------------------- MODULE MCTransferAdmission -------------------------
(***************************************************************************)
(* TransferAdmission with three uploads and two downloads of two actors.   *)
(* u1 and u2 meet the limit of an actor, u1 and u3 the limit of a target,   *)
(* the downloads the limit of their service.  u2 names no target.          *)
(***************************************************************************)
EXTENDS TransferAdmission

CONSTANTS u1, u2, u3, d1, d2, Ann, Bob

MCServiceOf == [r \in Requests |-> IF r \in {d1, d2} THEN "download" ELSE "upload"]
MCActorOf   == [r \in Requests |-> IF r \in {u3, d2} THEN Bob ELSE Ann]
MCTargetOf  == [r \in Requests |-> CASE r \in {u1, u3} -> "project"
                                      [] r = u2 -> "none"
                                      [] r = d1 -> "x"
                                      [] r = d2 -> "y"]
MCGlobalLimit    == [s \in Services |-> IF s = "upload" THEN 2 ELSE 1]
MCPerActorLimit  == [s \in Services |-> 1]
MCPerTargetLimit == [s \in Services |-> 1]
MCRateMax        == [s \in Services |-> 1]

=============================================================================
