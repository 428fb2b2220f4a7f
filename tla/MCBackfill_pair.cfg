\* Two workers on one migration: what still holds.
CONSTANTS
  a = a
  b = b
  c = c
  n = n
  Null = Null
  Absent = Absent
  NoWrite = NoWrite
  TokenCount <- MCTokenCount
  TextOf <- MCTextOf
  Docs = {1, 2}
  Texts <- TwoTexts
  Contents <- TwoTexts
  BatchSize = 2
  MappingOnly = FALSE
  MaxWrites = 1
  Price = 2
  Workers = {w1, w2}
  Limits <- PairLimit
  MaxErrors = 1
  PoisonTexts = {a}
  CountsDead = TRUE
  QueryErrors = FALSE
  OperatorStates = {"PREPARED"}
  MaxCrashes = 1
SPECIFICATION Spec
INVARIANTS
  NoStaleVector
  SearchMissesNothing
  DurableBeforeLedger
  LedgerWithinOneBatchPerCrash
  SpendWithinOneCeilingPerWorker
  DeadLetteredOncePerWorker
PROPERTIES
  VectorsAreStable
  KeepsPromise
