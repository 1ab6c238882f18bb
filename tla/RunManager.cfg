SPECIFICATION FairSpec
CONSTANTS
  Run = {r1, r2}
  WithShadow = {r1}
  None = None
  Setting = {off, awake}
  Awake = awake
  MaxFault = 1
  MaxOutside = 1
  ThreadsFail = TRUE
INVARIANTS
  TypeOK
  SleepBalanced
  RunningIsOwned
  OneChild
  RestoredUnlessOvertaken
PROPERTIES
  ImplementsRunService
  RunSettles
CHECK_DEADLOCK FALSE
