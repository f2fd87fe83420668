CONSTANTS
  r1 = r1  r2 = r2  r3 = r3
  Run = {r1, r2}
  NoRun = NoRun
  TTL = 5
  Margin = 1
  HardLimit = 12
  DeleteTime = 1
SPECIFICATION Spec
INVARIANT MutualExclusion
CHECK_DEADLOCK FALSE
