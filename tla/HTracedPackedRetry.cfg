SPECIFICATION Spec
CONSTANTS
  s1 = s1
  s2 = s2
  s3 = s3
  s4 = s4
  big = big
  Threads = {t1}
  Spans = {s1}
  Len <- SmallLen
  BufferSize = 4
  TriggerSize = 2
  FlushRetryDelays = 2
  Packed = TRUE
  MayDie = FALSE
  NoThread = NoThread
  NoSpan = NoSpan
INVARIANTS
  FlushedSpansAreIngested
CHECK_DEADLOCK FALSE
