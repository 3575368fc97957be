SPECIFICATION Spec
CONSTANTS
  ColName = {"a", "b", "c"}
  ConstraintName = {"k"}
  IndexName = {"i"}
  None = "none"
  Start <- TwoColumns
  OnSearchPath = TRUE
  Careless = {}
  MaxColumns = 3
  MaxEdits = 4
INVARIANTS TypeOK RecordIsLive PlanRuns RowsAreKept
PROPERTY AppliedOnce
