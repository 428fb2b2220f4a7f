\* The new space has another dimension: the rollback is refused.
CONSTANTS
  UserColumns <- UserTable
  LaterColumns = {"language"}
  Old = "embedding"
  OldType = "vector(768)"
  NewType = "vector(1536)"
  Operators = {"o1"}
  MaxChanges = 1
  None = None
SPECIFICATION Spec
INVARIANTS
  RollbackAccepted
