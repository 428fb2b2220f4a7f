\* pgvector's pending_count and a provider that rejects text b.
CONSTANTS
  a = a
  b = b
  c = c
  n = n
  Null = Null
  Absent = Absent
  NoWrite = NoWrite
  TokenCount <- MCTokenCount
  TextOf <- MCTextOf
  Docs = {1, 2}
  Texts <- TwoTexts
  Contents <- TwoTexts
  BatchSize = 2
  MappingOnly = FALSE
  MaxWrites = 0
  Price = 2
  Workers = {w1}
  Limits <- WideLimit
  MaxErrors = 2
  PoisonTexts = {b}
  CountsDead = TRUE
  QueryErrors = FALSE
  OperatorStates = {"PREPARED"}
  MaxCrashes = 0
SPECIFICATION FairSpec
PROPERTIES
  WorkerReturns
