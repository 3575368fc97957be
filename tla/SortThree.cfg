SPECIFICATION FairSpec
CONSTANTS
  N = 3
  Inputs <- ThreeObjects
CHECK_DEADLOCK FALSE
INVARIANTS TypeOK SortIsTopological ErrorsAreCycles
PROPERTIES Returns
