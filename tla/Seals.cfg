SPECIFICATION FairSpec
CONSTANTS
  r1 = r1
  r2 = r2
  a1 = a1
  Request = {r1, r2}
  Anchor = {a1}
  MaximumSealNumber = 3
  MaxOutages = 1
  MaxRestarts = 1
  NoSeal = NoSeal
  Unasked = Unasked
  Malformed = Malformed
CHECK_DEADLOCK FALSE
INVARIANTS
  NoRequestIsBlamed
PROPERTIES
  SealsRiseAboveEveryFloor
  OnlyAResealRevives
  AnchorsCatchUp
