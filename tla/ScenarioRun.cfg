SPECIFICATION RunSpec
CONSTANTS
  N = 2
  Kinds = {"content", "global_nav", "disabled"}
  MaxSteps = 2
  Candidates = {"c1"}
  StopReasons = {"scroll_exhausted"}
  Threshold = 2
  Failures = {"wake_screen_failed", "helper_not_ready"}
  CoverageProbe = TRUE
  MaxRestarts = 1
INVARIANTS
  RunTypeOK
  OutcomeOnDisk
  AbortWhenDue
  ContinuousRows
  
  EndRowIsLast
PROPERTIES
  ImplementsCrashLedger
  RunEnds
CHECK_DEADLOCK FALSE
