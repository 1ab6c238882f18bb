SPECIFICATION Spec
CONSTANTS
  p1 = p1
  p2 = p2
  c1 = c1
  c2 = c2
  c3 = c3
  k1 = k1
  k2 = k2
  a1 = a1
  a2 = a2
  None = None
  Stale = Stale
  Proc = {p1, p2}
  Cand = {c1, c2}
  Key = {k1}
  Artifact = {a1}
  KeyOf <- OneKey
  Required <- NeedA1
  MaxLog = 4
  MaxFault = 1
INVARIANTS
  TypeOK
  MutualExclusion
  ApprovalIsBacked
  PackagesDistinct
PROPERTIES
  ImplementsLifecycle
  CatalogNeverRegresses
SYMMETRY Symmetric
