SPECIFICATION Spec
CONSTANTS
  Request = {r1, r2}
  Token = {t1, t2, t3}
  Purpose = {"password_reset", "email_change"}
  Address = {"old", "new"}
  FirstAddress = "old"
  MaximumSealNumber = 4
  Nobody = Nobody
  NoToken = NoToken
SYMMETRY Symmetry
CHECK_DEADLOCK FALSE
INVARIANTS
  OneLinkPerPurpose
  LinksAreCurrent
  ChangeWithdrawsEveryLink
  NoLinkIsBlamed
  NobodyWaitsInACircle
