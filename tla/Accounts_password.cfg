CONSTANTS
  e1 = e1  b1 = b1  b2 = b2  p1 = p1  p2 = p2
  Email = {e1}
  Browser = {b1, b2}
  Password = {p1, p2}
  NoAccount = NoAccount
  MaxChanges = 3
SPECIFICATION AccountsSpec
INVARIANTS PasswordIsLastSet
CHECK_DEADLOCK FALSE
