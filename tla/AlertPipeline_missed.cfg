CONSTANTS
  f1 = f1  w1 = w1  d1 = d1  d2 = d2  c1 = c1  t1 = t1  t2 = t2
  s1 = s1  s2 = s2
  NoFeed = NoFeed  NoWorker = NoWorker  NoUrl = NoUrl  NoTagger = NoTagger
  Feed = {f1}
  Worker = {w1}
  Url <- MCUrl
  Admin1 <- MCAdmin1
  UnknownAdmin1 = {}
  Tags <- MCTags
  Doc <- MCDoc
  FeedUrls <- MCFeedUrls
  InfoLife = 1
  RecordLife = 1
  MaxTime = 1
  ChunkSize = 2
  MaxFaults = 0
  Tagger = {t1}
  Subscription = {s2}
  Country = {c1}
  CountryOf <- MCCountryOf
  Field <- MCField
  Value <- MCValue
  Filter <- MCFilter
  LockOutlived = FALSE
  MaxTagFaults = 0
SPECIFICATION FairPipelineSpec
PROPERTY WantedIsTagged
CHECK_DEADLOCK FALSE
