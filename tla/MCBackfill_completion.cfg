\* An application write in the completion section.
CONSTANTS
  a = a
  b = b
  c = c
  n = n
  Null = Null
  Absent = Absent
  NoWrite = NoWrite
  TokenCount <- MCTokenCount
  TextOf <- MCTextOf
  Docs = {1, 2}
  Texts <- TwoTexts
  Contents <- TwoTexts
  BatchSize = 2
  MappingOnly = FALSE
  MaxWrites = 1
  Price = 2
  Workers = {w1}
  Limits <- WideLimit
  MaxErrors = 2
  PoisonTexts = {}
  CountsDead = TRUE
  QueryErrors = FALSE
  OperatorStates = {"PREPARED"}
  MaxCrashes = 0
SPECIFICATION Spec
PROPERTIES
  CompletionIsAtomic
