SPECIFICATION ContentSpec
CONSTANTS
  Items = 4
  Rows = 3
  Looks = {"a", "b", "c"}
  Layouts <- TwinList
  Actionable = {"a", "b"}
  OddCaps = {}
  MinCohort = 2
  NoProgressLimit = 1
  NoFocusLimit = 2
  MaxPlan = 1
  NoKey = NoKey
INVARIANTS
  ContentTypeOK
  CompletedMeansReached
  RowsStayActive
PROPERTIES
  AliasSound
CHECK_DEADLOCK FALSE
