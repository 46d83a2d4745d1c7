SPECIFICATION Spec
CONSTANTS
  r1 = r1
  r2 = r2
  c1 = c1
  c2 = c2
  Request = {r1, r2}
  Conn = {c1, c2}
  Course = {"password", "passkey", "factor", "signUp", "bareSignUp", "cover", "magicLink", "reset", "change", "oauth", "link", "revoke"}
  CoreTables <- MCCoreTables
  CoreCodes <- MCCoreCodes
  CoreRoutes <- MCCoreRoutes
  CoreNamespaces <- MCCoreNamespaces
  Schema = Schema
  Nothing = Nothing
  Over = Over
  Applications <- MCOneConnection
  Statements <- MCStatements
  Recheck = 2
  MaxTime = 2
  MaxDepth = 3
CHECK_DEADLOCK FALSE
PROPERTIES
  HookedRequestsEnd
