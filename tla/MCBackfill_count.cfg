\* A pending_count whose query fails in the server.
CONSTANTS
  a = a
  b = b
  c = c
  n = n
  Null = Null
  Absent = Absent
  NoWrite = NoWrite
  TokenCount <- MCTokenCount
  TextOf <- MCTextOf
  Docs = {1, 2}
  Texts <- TwoTexts
  Contents <- TwoTexts
  BatchSize = 2
  MappingOnly = FALSE
  MaxWrites = 1
  Price = 2
  Workers = {w1}
  Limits <- WideLimit
  MaxErrors = 2
  PoisonTexts = {}
  CountsDead = TRUE
  QueryErrors = TRUE
  OperatorStates = {"PREPARED"}
  MaxCrashes = 0
SPECIFICATION Spec
INVARIANTS
  CompletionIsCounted
