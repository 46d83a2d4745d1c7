SPECIFICATION Spec
CONSTANTS
  s1 = s1
  s2 = s2
  p1 = p1
  p2 = p2
  Request = {p1, p2}
  Session = {s1, s2}
  Standing = {s1, s2}
  Operation = {"revokeOthers", "resolve"}
  RebindAttempts = 3
  MaximumSealNumber = 2
  MaxIdle = 1
  MaxKey = 1
  Nobody = Nobody
  NoSession = NoSession

CHECK_DEADLOCK FALSE
PROPERTIES
  KeptSessionSurvives
