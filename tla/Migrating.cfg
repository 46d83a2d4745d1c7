SPECIFICATION FairSpec
CONSTANTS
  r1 = r1
  r2 = r2
  Runner = {r1, r2}
  Plugin = {"p", "p_q", "s"}
  Name = {"user", "session", "p_a", "p_b", "p_c", "p_q_a", "s_a"}
  Migration = {"initial", "email", "username", "first", "second", "sibling", "neighbour"}
  Facts <- MCFacts
  Build = {"plugins", "older", "other"}
  Plan <- MCPlan
  Order <- MCOrder
  Script <- MCScript
  CarriesPrefix <- MCCarriesPrefix
  Absent = Absent
  Nobody = Nobody
  NoBuild = NoBuild
CHECK_DEADLOCK FALSE
INVARIANTS
  LedgerTellsTheSchema
  OwnersAlone
  DoneIsUpToDate
  NoMigrationFailsOnAnother
PROPERTIES
  EveryRunEnds
