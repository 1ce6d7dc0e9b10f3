\* Two rounds of every stage, one record a round, with and without a colour.
CONSTANTS
  MaxRound = 2
  DoubledNodes = {}
  OrdinaryTasks <- MCOrdinaryTasks
SPECIFICATION Spec
INVARIANTS
  ProofStands
  NoStageStarves
  SeriesRestsOnRound
  OneCurrentBoard
CHECK_DEADLOCK FALSE
