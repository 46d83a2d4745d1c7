SPECIFICATION Spec
CONSTANTS
  r1 = r1
  r2 = r2
  u1 = u1
  u2 = u2
  u3 = u3
  x1 = x1
  x2 = x2
  c1 = c1
  Request = {r1, r2}
  Account = {u1, u2}
  Subject = {x1}
  Passkey = {c1}
  Operation = {"signUp", "oauth", "assert", "link", "register", "remove", "resetPassword", "changeName"}
  Standing = {{Password, x1, c1}}
  Limit = 1
  MaxCalls = 2
  MaxDeletions = 1
  Password = Password
  Nobody = Nobody
SYMMETRY Symmetry
CHECK_DEADLOCK FALSE
INVARIANTS
  SealCoversTheWaysIn
PROPERTIES
  LastWayInStays
  SignsInByAHeldWay
  EverySignUpIsTold
  LinksJoinConfirmedAddresses
