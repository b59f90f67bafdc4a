\* Two backends, one of which fails or recovers, a stream, two callers of close.
CONSTANTS
  N = 2
  gen1 = gen1
  stream1 = stream1
  batch1 = batch1
  NoSlot = NoSlot
  Kind <- MCKind
  Weight <- MCWeight
  Ops = {stream1}
  Closers = {c1, c2}
  MaxFlips = 1
SPECIFICATION FairSpec
CHECK_DEADLOCK FALSE
PROPERTIES
  HealthConverges
  CloseTerminates
