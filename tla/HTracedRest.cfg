SPECIFICATION Spec
CONSTANTS
  s1 = s1
  s2 = s2
  s3 = s3
  s4 = s4
  big = big
  Threads = {t1, t2}
  Spans = {s1, s2, s3, s4}
  Len <- SmallLen
  BufferSize = 4
  TriggerSize = 2
  FlushRetryDelays = 1
  Packed = FALSE
  MayDie = TRUE
  NoThread = NoThread
  NoSpan = NoSpan
INVARIANTS
  TypeOK
  AcceptedSpansAreBuffered
  NumSpansMatchesContent
  FlushedSpansAreIngested
  GracefulExitDrains
PROPERTIES
  FlushedBufferIsStable
  ImplementsDelivery
CHECK_DEADLOCK FALSE
