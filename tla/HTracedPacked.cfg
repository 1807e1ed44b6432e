SPECIFICATION FairSpec
CONSTANTS
  s1 = s1
  s2 = s2
  s3 = s3
  s4 = s4
  big = big
  Threads = {t1, t2}
  Spans = {s1, s2, big}
  Len <- SmallLen
  BufferSize = 4
  TriggerSize = 3
  FlushRetryDelays = 1
  Packed = TRUE
  MayDie = FALSE
  NoThread = NoThread
  NoSpan = NoSpan
PROPERTIES
  AcceptedSpansAreSettled
  ReceiveSpanReturns
  CloseEndsThread
CHECK_DEADLOCK FALSE
