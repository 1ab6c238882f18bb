SPECIFICATION Spec
CONSTANTS
  p1 = p1
  p2 = p2
  c1 = c1
  c2 = c2
  c3 = c3
  k1 = k1
  k2 = k2
  a1 = a1
  a2 = a2
  None = None
  Stale = Stale
  Proc = {p1, p2}
  Cand = {c1, c2, c3}
  Key = {k1, k2}
  Artifact = {}
  KeyOf <- TwoKeys
  Required <- NeedNone
  MaxLog = 4
  MaxFault = 0
INVARIANTS
  OneActivePerKey
  QuiescentConsistent
  SupersessionGoesForward
SYMMETRY OpsSymmetric
