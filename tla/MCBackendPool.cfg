\* Two backends that stay as they are, a stream and a batch, two callers of close.
CONSTANTS
  N = 2
  gen1 = gen1
  stream1 = stream1
  batch1 = batch1
  NoSlot = NoSlot
  Kind <- MCKind
  Weight <- MCWeight
  Ops = {stream1, batch1}
  Closers = {c1, c2}
  MaxFlips = 0
SPECIFICATION Spec
SYMMETRY Symmetry
CHECK_DEADLOCK FALSE
INVARIANTS
  TypeOK
  InflightIsAssignedWork
  ObservedExactlyOnce
  CloseLeavesNothing
  GaugesMirrorState
PROPERTIES
  RotationReachesCandidates
