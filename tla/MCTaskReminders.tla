--------------------------- MODULE MCTaskReminders ---------------------------
(***************************************************************************)
(* TaskReminders with two months, two users and two scanners.              *)
(***************************************************************************)
EXTENDS TaskReminders

CONSTANTS s1, s2

MCPlannedAt == [t \in Tasks |-> IF t = 1 THEN 1 ELSE 0]
MCDueAt     == [t \in Tasks |-> IF t = 1 THEN 1 ELSE 0]

=============================================================================
