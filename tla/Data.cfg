CONSTANTS
  f1 = f1  a1 = a1  a2 = a2
  Feed = {f1}
  Admin = {a1, a2}
  Interval = {5, 600}
  I_10m = 600
  WithShell = TRUE
  NoFeed = NoFeed
  NoRow = NoRow
  NoTask = NoTask
  Untouched = Untouched
  c1 = c1  o1 = o1  i1 = i1  i2 = i2  n1 = n1  n2 = n2  n3 = n3  g1 = g1
  Iso = {c1}
  GeoRegion = {o1}
  DivisionId = {i1, i2}
  DivisionName = {n1, n2, n3}
  Pk = {1, 2, 3, 4}
  NoGeoRow = NoGeoRow  NoId = NoId  NoPage = NoPage
  FlagRun = {g1}
  UpdateChunk = 2
  MaxEdits = 1
  h1 = h1  h2 = h2  d1 = d1
  LastPk = 3
  MatchingInfos <- MCMatchingInfos
  FeedOfAlert <- MCFeedOfAlert
  PlacesOfAlert <- MCPlacesOfAlert
  SomeLimits <- MCSomeLimits
  DEFAULT_PAGINATION_LIMIT = 1
  MAX_PAGINATION_LIMIT = 2
  x1 = x1  x2 = x2
  AlertDoc = {x1, x2}
  Document <- MCDocument
  Selection <- MCSelection
  chunk_size = 2
  e1 = e1  b1 = b1  b2 = b2  p1 = p1  p2 = p2
  Email = {e1}
  Browser = {b1, b2}
  Password = {p1, p2}
  NoAccount = NoAccount
  MaxChanges = 3
  t1 = t1  t2 = t2  t3 = t3  w1 = w1  y1 = y1  y2 = y2  v1 = v1  v2 = v2  z1 = z1
  OwnerOf <- MCOwnerOf
  CountryOf <- MCCountryOf
  StoredIds <- MCStoredIds
  TaggedAlert = {z1}
  AdminDivision = {v1, v2}
  FieldSets <- MCFieldSets
  PageLimit = 3
  MaxCopies <- MCMaxCopies
SPECIFICATION DataSpec
SYMMETRY AccountsSymmetry
INVARIANTS DataTypeOK CountryDataSettles WalksAreWhole NumbersAgree  AnswersComplete
    LinksHold
PROPERTIES SessionsFollowPassword FlagsFollowRun LoneSaveRepairs LoneSaveKeepsFit
  LoneRegenerationRestores
CHECK_DEADLOCK FALSE
