SPECIFICATION Spec
CONSTANTS
  Schemas = {"public", "s"}
  Names = {"a", "b"}
  Bodies = {1, 2}
  Sources <- ReusedNames
PROPERTIES Applied
