SPECIFICATION Spec
CONSTANTS
  Batch = {b1, b2}
  N = 3
  Full = {b1}
  Qualified = {2, 3}
  None = None
  MaxOverlap = 0
  MaxFault = 2
  Unwritable = {}
  Dies = TRUE
INVARIANTS
  TypeOK
  FinishedRanAll
PROPERTIES
  ImplementsBatchService
CHECK_DEADLOCK FALSE
