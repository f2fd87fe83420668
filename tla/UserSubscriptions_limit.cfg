CONSTANTS
  u1 = u1  u2 = u2  s1 = s1  s2 = s2  s3 = s3  q1 = q1  q2 = q2  q3 = q3
  Users = {u1}
  Subscription = {s1, s2}
  Request = {q1, q2}
  LIMIT_PER_USER = 1
  NoRow = NoRow
  Unset = Unset
SPECIFICATION Spec
SYMMETRY Symmetry
INVARIANTS WithinLimit
CHECK_DEADLOCK FALSE
