\* decommission of a prepared migration.
CONSTANTS
  UserColumns <- UserTable
  LaterColumns = {"language"}
  Old = "embedding"
  OldType = "vector(768)"
  NewType = "vector(768)"
  Operators = {"o1"}
  MaxChanges = 1
  None = None
SPECIFICATION Spec
INVARIANTS
  DecommissionLeaves
