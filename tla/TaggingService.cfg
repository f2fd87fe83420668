CONSTANTS
  f1 = f1  f2 = f2  c1 = c1  c2 = c2  d1 = d1  d2 = d2
  t1 = t1  t2 = t2  s1 = s1  s2 = s2  s3 = s3
  NoFeed = NoFeed  NoTagger = NoTagger
  Feed <- MCFeed
  Url <- MCUrl
  Admin1 <- MCAdmin1
  UnknownAdmin1 = {}
  Tags <- MCTags
  Doc <- MCDoc
  InfoLife = 1
  RecordLife = 1
  MaxTime = 1
  Tagger <- MCTagger
  Subscription <- MCSubscription
  Country = {c1, c2}
  CountryOf <- MCCountryOf
  Field <- MCField
  Value <- MCValue
  Filter <- MCFilter
  Arrival <- MCArrival
  LockOutlived = FALSE
  MaxTagFaults = 1
SPECIFICATION FairServiceSpec
PROPERTIES DeliversOnce WantedIsTagged
CHECK_DEADLOCK FALSE
