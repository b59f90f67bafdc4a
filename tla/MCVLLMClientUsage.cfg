\* Streams with usages only, long enough for two events.
CONSTANTS
  f1 = f1
  f2 = f2
  none = none
  MaxEvent = 4
  MaxStream = 6
  Texts = {"usage", "null usage"}
  MaxBatch = 1
  Statuses <- MCStatuses
  Shared = {f1}
  NotAnIndex = none
SPECIFICATION Spec
CHECK_DEADLOCK FALSE
INVARIANT
  FinalUsageIsAuthoritative
