SPECIFICATION FairSpec
CONSTANTS
  Batch = {b1, b2}
  N = 1
  Full = {b1}
  Qualified = {1}
  None = None
  MaxOverlap = 1
  MaxFault = 1
  Unwritable = {b2}
  Dies = TRUE
INVARIANTS
  SummaryIsCurrent
  ChildrenBounded
  RunningHasWorker
PROPERTIES
  WorkersEnd
CHECK_DEADLOCK FALSE
