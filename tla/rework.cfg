\* Two rounds of every node, every review returning and rejecting, the cabin
\* review started and reassigned, two monthly periods.
CONSTANTS
  MaxRound = 2
  MonthCount = 2
  ChainLimit = 20
  StartedNodes = {"CAB_REVIEW"}
  ReturningNodes = {"SAMPLE_COLOR_CONFIRMATION", "CAB_REVIEW", "COLOR_CONSISTENCY_REVIEW", "VISUAL_COLOR_DIFFERENCE_REVIEW"}
  RecordingNodes = {"PAINT_DEVELOPMENT", "PAINT_PROCUREMENT", "STANDARD_BOARD_PRODUCTION", "FIRST_UNIT_PRODUCTION_PLAN", "TRIAL_PRODUCTION"}
SPECIFICATION Spec
INVARIANTS
  SinglePrimary
  LiveWorkIsCurrent
  OneNumberOneFee
  PointersFollowTasks
  WorkRemains
  UpstreamStands
  LineageIsCurrent
  ReworkNeverRefused
PROPERTIES
  SettledTasksStay
  ImplementsLifecycle
CHECK_DEADLOCK FALSE
