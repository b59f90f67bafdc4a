\* A stream whose close is cancelled.
CONSTANTS
  stream1 = stream1
  stream2 = stream2
  direct1 = direct1
  batch1 = batch1
  BatchingEnabled = TRUE
  Ask <- MCAsk
  Reqs = {stream1, stream2}
  GlobalMaxInflight = 1
SPECIFICATION Spec
CHECK_DEADLOCK FALSE
INVARIANT
  EveryStreamIsAccounted
