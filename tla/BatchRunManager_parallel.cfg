SPECIFICATION Spec
CONSTANTS
  Batch = {b1, b2}
  N = 2
  Full = {}
  Qualified = {}
  None = None
  MaxOverlap = 1
  MaxFault = 0
  Unwritable = {}
  Dies = FALSE
INVARIANTS
  OneChild
CHECK_DEADLOCK FALSE
