SPECIFICATION Spec
CONSTANTS
  s1 = s1
  s2 = s2
  s3 = s3
  s4 = s4
  p1 = p1
  p2 = p2
  Request = {p1, p2}
  Session = {s1, s2, s3, s4}
  Standing = {s1, s2}
  Operation = {"signIn", "secondFactor", "revoke", "revokeEvery", "revokeOthers", "changePassword", "resetPassword", "link", "setDisabled", "rehash"}
  RebindAttempts = 2
  MaximumSealNumber = 4
  MaxIdle = 0
  MaxKey = 1
  Nobody = Nobody
  NoSession = NoSession
SYMMETRY Symmetry
CHECK_DEADLOCK FALSE
INVARIANTS
  TypeOK
  NoSessionOutlivesItsCheck
PROPERTIES
  SignInIssuesOnItsCheck
  ImplementsRegister
