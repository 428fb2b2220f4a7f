\* A provider that rejects text b with a 400, and an operator that keeps re-running the command.
CONSTANTS
  a = a
  b = b
  n = n
  Null = Null
  Absent = Absent
  NoWrite = NoWrite
  TokenCount <- MCTokenCount
  TextOf <- MCTextOf
  Docs = {1, 2}
  Texts <- TwoTexts
  Contents <- TwoTexts
  BatchSize = 2
  MappingOnly = FALSE
  MaxWrites = 0
  Price = 2
  Workers = {w1}
  Limits <- WideLimit
  MaxErrors = 2
  PoisonTexts = {b}
  CountsDead = TRUE
  QueryErrors = FALSE
  OperatorStates = {"PREPARED"}
  MaxCrashes = 0
  MaxAttempts = 6
  MaxConsecutiveFailures = 5
SPECIFICATION HttpResumeSpec
PROPERTIES
  ResumeConverges
