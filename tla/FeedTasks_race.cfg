CONSTANTS
  f1 = f1  a1 = a1  a2 = a2
  Feed = {f1}
  Admin = {a1, a2}
  Interval = {5, 600}
  I_10m = 600
  WithShell = FALSE
  NoFeed = NoFeed
  NoRow = NoRow
  NoTask = NoTask
  Untouched = Untouched
SPECIFICATION Spec
SYMMETRY Symmetry
INVARIANTS ActiveFeedHasTask
CHECK_DEADLOCK FALSE
