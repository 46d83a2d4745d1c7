SPECIFICATION Spec
CONSTANTS
  r1 = r1
  r2 = r2
  r3 = r3
  c1 = c1
  i1 = i1
  i2 = i2
  Request = {r1, r2, r3}
  Client = {c1}
  Identifier = {i1, i2}
  Proxy = Proxy
  Forged = Forged
  Password = {"right", "wrong", "unusable"}
  Standings <- MCStandings
  Limit = 1
  WaitLimit = 1
  Capacity = 1
  Refill = 1
  ShortestLifetime = 2
  LongestLifetime = 3
  Window = 2
  DeliveriesPerWindow = 1
  KeysHeld = 1
  MaxTime = 2
  MaxBehind = 1
  PutBackAt = 1
  MaxHops = 1
  NoRow = NoRow
  Nothing = Nothing
SYMMETRY Symmetry
CHECK_DEADLOCK FALSE
INVARIANTS
  AlarmsAreAccounted
PROPERTIES
  BucketsKeepTheirTerms
  PlacesAreHandedOn
  RefusalsCostAlike
