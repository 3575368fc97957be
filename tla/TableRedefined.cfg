SPECIFICATION Spec
CONSTANTS
  ColName = {"a", "b", "c"}
  ConstraintName = {"k"}
  IndexName = {"i"}
  None = "none"
  Start <- TwoColumns
  OnSearchPath = TRUE
  Careless = {"redefine"}
  MaxColumns = 3
  MaxEdits = 4
INVARIANT RecordIsLive
