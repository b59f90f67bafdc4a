\* Batches of three, streams of six symbols, events of four.
CONSTANTS
  f1 = f1
  f2 = f2
  none = none
  MaxEvent = 4
  MaxStream = 6
  Texts = {"comment", "content", "usage", "null usage"}
  MaxBatch = 3
  Statuses <- MCStatuses
  Shared = {f1, f2}
  NotAnIndex = none
SPECIFICATION Spec
CHECK_DEADLOCK FALSE
INVARIANTS
  ChunkingIsInvisible
  StreamCountedOnce
  AnswersByIndex
  ResponsesOwned
