\* A breaker wider than one call: both breakers are needed.
CONSTANTS
  a = a
  b = b
  n = n
  Null = Null
  Absent = Absent
  NoWrite = NoWrite
  TokenCount <- MCTokenCount
  TextOf <- MCTextOf
  Docs = {1, 2}
  Texts <- TextsAndNoText
  Contents <- AnyContent
  BatchSize = 2
  MappingOnly = FALSE
  MaxWrites = 1
  Price = 2
  Workers = {w1}
  Limits <- TwoLimits
  MaxErrors = 2
  PoisonTexts = {b}
  CountsDead = TRUE
  QueryErrors = FALSE
  OperatorStates = {"PREPARED"}
  MaxCrashes = 1
  MaxAttempts = 3
  MaxConsecutiveFailures = 5
SPECIFICATION HttpFairSpec
INVARIANTS
  BreakersAgree
  LostWorkIsBounded
  PausesExactlyWhenDown
PROPERTIES
  WorkerReturns
