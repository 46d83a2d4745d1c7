SPECIFICATION Spec
CONSTANTS
  r1 = r1
  r2 = r2
  k1 = k1
  k2 = k2
  t1 = t1
  c1 = c1
  Request = {r1, r2}
  Pending = {k1, k2}
  TimeStep = {t1}
  Code = {c1}
  Change = {"revokeEvery", "totp", "recovery"}
  MaximumPendingAttempts = 2
  MaximumSealNumber = 5
  MaxKey = 1
  Nobody = Nobody
  NoPending = NoPending
SYMMETRY Symmetry
CHECK_DEADLOCK FALSE
INVARIANTS
  OneSessionPerProof
PROPERTIES
  OnlyRacingDeletionsAreBlamed
  CompletionStandsOnBothFactors
