CONSTANTS
  f1 = f1  f2 = f2  w1 = w1  w2 = w2  d1 = d1  d2 = d2  unknown = unknown
  NoFeed = NoFeed  NoWorker = NoWorker  NoUrl = NoUrl
  Feed <- MCFeed
  Worker <- MCWorker
  Url <- MCUrl
  Admin1 <- MCAdmin1
  UnknownAdmin1 = {unknown}
  Tags <- MCTags
  Doc <- MCDoc
  FeedUrls <- MCFeedUrls
  InfoLife = 1
  RecordLife = 1
  MaxTime = 2
  ChunkSize = 2
  MaxFaults = 1
SPECIFICATION Spec
INVARIANTS OneIngester  CancelIsFinal IngestedIsLocated
PROPERTIES NeverUnexpired
CHECK_DEADLOCK FALSE
