SPECIFICATION Spec
CONSTANTS
  r1 = r1
  r2 = r2
  None = None
  NumShards = 2
  HashOf <- IdHash
  MidId = 2
  SpanBufferSize = 1
  Ids = {1, 2, 3, 5}
  Requests = {r1, r2}
  SpansOf <- Overlapping
  MayBreakOff = {r2}
  WRITESPANS_BATCH_SIZE = 3
  MaxDate = 4
  LdbMayFail = TRUE
INVARIANT TypeOK
INVARIANT IndexIsExact
INVARIANT IndexCoversStored
INVARIANT AnsweredSpansAreStored
INVARIANT StatisticsAddUp
PROPERTY ReaperSparesUnexpired
PROPERTY ReapsOldestFirst
CHECK_DEADLOCK FALSE
