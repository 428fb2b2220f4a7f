\* mapping_only mode with the count of the store protocol, a poison text, and an operator
\* that re-runs the command after every pause, failure and crash.
CONSTANTS
  a = a
  b = b
  c = c
  n = n
  Null = Null
  Absent = Absent
  NoWrite = NoWrite
  TokenCount <- SwappedTokenCount
  TextOf <- MCTextOf
  Docs = {1, 2}
  Texts <- TextsAndTitle
  Contents <- TitleAndNull
  BatchSize = 2
  MappingOnly = TRUE
  MaxWrites = 1
  Price = 2
  Workers = {w1}
  Limits <- WideLimit
  MaxErrors = 2
  PoisonTexts = {b}
  CountsDead = FALSE
  QueryErrors = FALSE
  OperatorStates = {"PREPARED"}
  MaxCrashes = 1
SPECIFICATION ResumeSpec
INVARIANTS
  WorkIsBounded
PROPERTIES
  VectorsAreStable
  WorkerReturns
  ResumeConverges
