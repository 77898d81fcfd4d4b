SPECIFICATION Spec
CONSTANTS
  Keys <- LimitedKeys
  Rule <- Rules
  MaxTime = 3
  Handlers = {h1, h2}
  Operations = {"register", "login", "logout", "forgot", "reset", "change"}
  Sessions = {1, 2, 3}
  ResetTokens = {1, 2, 3}
  SessionTTL = 3
  ResetTTL = 2
  MaxRequests = 4
  Reporters = {r1, r2}
  Atms = {"a1"}
  AtmStatuses = {"UNKNOWN", "OPERATIONAL"}
  Freshness = 1
  MaxReports = 3
INVARIANTS WithinLimit SessionsProvePassword ShownWasSaid
SYMMETRY Symmetry
CHECK_DEADLOCK FALSE
