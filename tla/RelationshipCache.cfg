SPECIFICATION CacheSpec
CONSTANTS
  Parents = {p1, p2}
  Children = {c1, c2}
  None = None
  MaxChange = 4
  MaxEvent = 4
PROPERTIES
  ImplementsFreshLookup
SYMMETRY NodeSymmetry
