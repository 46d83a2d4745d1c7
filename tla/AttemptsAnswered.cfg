SPECIFICATION FairSpec
CONSTANTS
  r1 = r1
  r2 = r2
  k1 = k1
  t1 = t1
  c1 = c1
  Request = {r1, r2}
  Pending = {k1}
  TimeStep = {t1}
  Code = {c1}
  Change = {"setDisabled", "cancel", "expire"}
  MaximumPendingAttempts = 3
  MaximumSealNumber = 3
  MaxKey = 2
  Nobody = Nobody
  NoPending = NoPending
CHECK_DEADLOCK FALSE
INVARIANTS
  AttemptsAreCounted
PROPERTIES
  EveryAttemptIsAnswered
