\* Any two of two streams, a direct and a batchable request, on one slot.
CONSTANTS
  stream1 = stream1
  stream2 = stream2
  direct1 = direct1
  batch1 = batch1
  BatchingEnabled = TRUE
  Ask <- MCAsk
  Reqs = {stream1, stream2, direct1, batch1}
  GlobalMaxInflight = 1
SPECIFICATION FairSpec
CONSTRAINT TwoAreMade
CHECK_DEADLOCK FALSE
INVARIANTS
  TypeOK
  BackendWorkIsAdmitted
  RecordedExactlyOnce
  RecordsAgree
  CoverageRecordedOnce
PROPERTIES
  ShutdownDrains
