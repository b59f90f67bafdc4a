SPECIFICATION FairSpec
CONSTANTS
  ka = ka
  kb = kb
  k1 = k1
  k2 = k2
  l1 = l1
  p = p
  q = q
  r = r
  NoBatch = NoBatch
  NoItem = NoItem
  Keys <- MCKeys
  Items <- MCItems
  KeyOf <- MCKeyOf
  Batches <- MCBatches
  MaxSize = 2
INVARIANTS
  TypeOK
  Accounting
  NoInternalError
  TimersMatchGroups
  BatchesWellFormed
  NobodyForgotten
  AnswersOwnRequest
  QuietAfterShutdown
PROPERTIES
  EveryCallEnds
  ShutdownEnds
