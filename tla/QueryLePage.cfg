SPECIFICATION Spec
CONSTANTS
  Parts = {"query"}
  None = None
  Ids = {1, 2, 3, 4}
  MaxId = 6
  NumShards = 2
  HashOf <- PairHash
  ValueOf <- SharedTimes
  Matching = {1, 2, 3, 4}
  Searches <- UpTo2
  MayWrite = {}
  MayReap <- NoReap
  QrSpans = {1, 2}
  QrWorkers = {"w", "x"}
  QrCapacity = 2
  QrBatchSize = 1
  QrMaxErrors = 2
  QrFailures = 1
  CrSpans = {1, 2, 3}
  CrLen = 1
  CrBufLen = 2
  CrThreshold = 1
  CrInterval = 1
  CrLastCall = 1
  CrMaxTime = 3
  MaxSendTries = 2
INVARIANT SearchIsComplete
CHECK_DEADLOCK FALSE
