SPECIFICATION RunSpec
CONSTANTS
  N = 1
  Kinds = {"content"}
  MaxSteps = 1
  Candidates = {}
  StopReasons = {"scroll_exhausted"}
  Threshold = 2
  Failures = {"wake_screen_failed"}
  CoverageProbe = FALSE
  MaxRestarts = 0
INVARIANT RecoveredMeansResumed
CHECK_DEADLOCK FALSE
