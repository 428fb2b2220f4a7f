\* One worker on pgvector, a provider that rejects text b, and every fault.
CONSTANTS
  a = a
  b = b
  c = c
  n = n
  Null = Null
  Absent = Absent
  NoWrite = NoWrite
  TokenCount <- MCTokenCount
  TextOf <- MCTextOf
  Docs = {1, 2}
  Texts <- AnyContent
  Contents <- AnyContent
  BatchSize = 2
  MappingOnly = FALSE
  MaxWrites = 2
  Price = 2
  Workers = {w1}
  Limits <- TightLimits
  MaxErrors = 1
  PoisonTexts = {b}
  CountsDead = TRUE
  QueryErrors = TRUE
  OperatorStates = {"PREPARED", "VERIFIED"}
  MaxCrashes = 1
SPECIFICATION Spec
INVARIANTS
  TypeOK
  NoStaleVector
  CompletionSound
  DurableBeforeLedger
  LedgerWithinOneBatchPerCrash
  MirrorInSync
  CeilingRespected
  RunningMeansBackfilling
  BatchIsWork
  DeadLetteredOnce
PROPERTIES
  DeletesWin
