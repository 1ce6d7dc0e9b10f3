-------------------------- MODULE MCDomainRecords --------------------------
(* The record services on two rounds of every stage.                       *)
EXTENDS DomainRecords

(* The paint development has no other completion; elsewhere one round is   *)
(* completed the ordinary way and the other by the service of the stage.   *)
MCOrdinaryTasks ==
  ({"PAINT_DEVELOPMENT"} \X {1, 2})
  \cup {<<"SAMPLE_COLOR_CONFIRMATION", 2>>, <<"TRIAL_PRODUCTION", 1>>, <<"PERFORMANCE_TEST", 2>>}

=============================================================================
