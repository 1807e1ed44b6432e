SPECIFICATION Spec
CONSTANTS
  Parts <- AllParts
  None = None
  Ids = {1, 2, 3, 4}
  MaxId = 6
  NumShards = 2
  HashOf <- PairHash
  ValueOf <- OwnTimes
  Matching = {1, 3, 4}
  Searches <- AllSearches
  MayWrite = {2, 3}
  MayReap <- ReapSome
  QrSpans = {1, 2}
  QrWorkers = {"w", "x"}
  QrCapacity = 2
  QrBatchSize = 1
  QrMaxErrors = 2
  QrFailures = 1
  CrSpans = {1, 2, 3}
  CrLen = 1
  CrBufLen = 2
  CrThreshold = 1
  CrInterval = 1
  CrLastCall = 1
  CrMaxTime = 3
  MaxSendTries = 2
INVARIANT SearchesAreRight
INVARIANT ReceiversKeepSpans
PROPERTY WorkIsFinished
CHECK_DEADLOCK FALSE
