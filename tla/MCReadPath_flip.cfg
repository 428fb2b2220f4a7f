\* Two operators flip while the owner changes the table; both spaces have one type.
CONSTANTS
  UserColumns <- UserTable
  LaterColumns = {"language", "source", "owner"}
  Old = "embedding"
  OldType = "vector(768)"
  NewType = "vector(768)"
  Operators = {"o1", "o2"}
  MaxChanges = 6
  None = None
SPECIFICATION Spec
INVARIANTS
  TypeOK
  ServesActiveSpace
  CurrentListAccepted
  NothingSkipped
