CONSTANTS
  u1 = u1  u2 = u2  s1 = s1  s2 = s2  s3 = s3  q1 = q1  q2 = q2  q3 = q3
  Users = {u1}
  Subscription = {s1, s2, s3}
  Request = {q1, q2}
  LIMIT_PER_USER = 1
  NoRow = NoRow
  Unset = Unset
  m1 = m1  m2 = m2  v1 = v1  v2 = v2  a1 = a1  a2 = a2
  MailSubscription = {m1, m2}
  Url = {a1, a2}
  User = {v1, v2}
  Asked <- MCAsked
  Owner <- MCOwner
  Period = 2
  Delay = 1
  LatestLimit = 1
  LastTime = 4
  MaxMailFaults = 1
SPECIFICATION UsersSpec
SYMMETRY Symmetry
INVARIANTS UsersTypeOK ActiveBounded MailedAtMostTwice
PROPERTIES NoGhostRow 
CHECK_DEADLOCK FALSE
