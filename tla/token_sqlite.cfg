SPECIFICATION Spec
CONSTANTS
  Visit = {v1, v2, v3}
  Ip = {ip}
  None = None
  Spelling <- MCSpelling
  NormalForm <- MCNormalForm
  LastUserId = 6
  Dialect = "sqlite"
  MaxRequests <- MCMaxRequests
  Window = 1
  AdminEmail = "admin"
  LoadTestEmail <- MCLoadTest
  Traffic <- MCTraffic
  Typed = {"A@X", "admin"}
  MaxClock = 2
  InitialUsers <- MCInitialUsers
SYMMETRY Symmetry
PROPERTIES
  TokensOpenTheirAccount
CHECK_DEADLOCK FALSE
