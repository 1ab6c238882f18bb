SPECIFICATION FairSpec
CONSTANTS
  p1 = p1
  p2 = p2
  c1 = c1
  c2 = c2
  c3 = c3
  k1 = k1
  k2 = k2
  a1 = a1
  a2 = a2
  None = None
  Stale = Stale
  Proc = {p1, p2}
  Cand = {c1}
  Key = {k1}
  Artifact = {a1}
  KeyOf <- OneKey
  Required <- NeedNone
  MaxLog = 3
  MaxFault = 1
PROPERTY
  OperationsEnd
