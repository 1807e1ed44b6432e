SPECIFICATION FairSpec
CONSTANTS
  r1 = r1
  r2 = r2
  None = None
  NumShards = 2
  HashOf <- IdHash
  MidId = 2
  SpanBufferSize = 1
  Ids = {1, 3}
  Requests = {r1, r2}
  SpansOf <- Rewriting
  MayBreakOff = {}
  WRITESPANS_BATCH_SIZE = 2
  MaxDate = 4
  LdbMayFail = FALSE
PROPERTY ExpiredSpansAreReaped
CHECK_DEADLOCK FALSE
