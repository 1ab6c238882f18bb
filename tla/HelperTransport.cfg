SPECIFICATION Spec
CONSTANTS
  Req = {n1, n2, f1}
  Smart = {n1, n2}
  Chunks = 2
  MaxFault = 1
  MaxStart = 1
  None = None
INVARIANTS
  TypeOK
  NothingLost
PROPERTY ImplementsFocusRequest
SYMMETRY IdSymmetry
CHECK_DEADLOCK FALSE
