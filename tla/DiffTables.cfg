SPECIFICATION Spec
CONSTANTS
  Schemas = {"public", "r", "s"}
  Names = {"a", "b"}
  Bodies = {1, 2}
  Sources <- DisciplinedTables
INVARIANTS TypeOK MovesFindTheirSchema
PROPERTIES Applied AppliedTwice RenameKeepsContents ProtectedIsKept OnlyDropsFail
