------------------------- MODULE MCProjectWorkflow -------------------------
(* Small instances of ProjectWorkflow for TLC.                             *)
EXTENDS ProjectWorkflow
=============================================================================
