CONSTANTS
  r1 = r1  r2 = r2  r3 = r3
  Run = {r1, r2, r3}
  NoRun = NoRun
  TTL = 5
  Margin = 1
  HardLimit = 12
  DeleteTime = 1
  a1 = a1  a2 = a2  p1 = p1  p2 = p2
  AlertId = {a1, a2}
  Place = {p1, p2}
  PlaceOf <- MCPlaceOf
  MaxKills = 1
  g1 = g1  g2 = g2  k1 = k1  k2 = k2
  CheckedFeed = {g1, g2}
  FormatOf <- MCFormatOf
  PolledFeed = {g1}
  Options <- MCOptions
  Response <- MCResponse
  LogKey = {k1, k2}
  NoLog = NoLog  NoAnswer = NoAnswer
  concurrency = 0
  Retention = 0
  LastTime = 1
  l1 = l1  l2 = l2
  PolledOf <- MCPolledOf
  ListingsOf <- MCListingsOf
  NoEntry = NoEntry
  MaxRemovals = 1
SPECIFICATION TasksSpec
INVARIANTS TasksTypeOK ReportIsTrue 
PROPERTIES TaskLockKept DeletesOwnLock LockIsFreed  CommandReports
CHECK_DEADLOCK FALSE
