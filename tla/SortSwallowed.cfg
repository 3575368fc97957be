SPECIFICATION Spec
CONSTANTS
  N = 4
  Inputs <- TwoCycles
CHECK_DEADLOCK FALSE
INVARIANTS CyclesAreReported
