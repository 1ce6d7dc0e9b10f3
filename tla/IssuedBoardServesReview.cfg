CONSTANTS
  MaxRound = 1
  MonthCount = 1
  ChainLimit = 64
  StartedNodes = {}
  ReturningNodes = {"SAMPLE_COLOR_CONFIRMATION"}
  RecordingNodes = {"PAINT_DEVELOPMENT", "STANDARD_BOARD_PRODUCTION", "FIRST_UNIT_PRODUCTION_PLAN", "TRIAL_PRODUCTION"}
SPECIFICATION Spec
INVARIANT IssuedBoardServesReview
CHECK_DEADLOCK FALSE
