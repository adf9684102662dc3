CONSTANTS
  t1 = t1
  w1 = w1
  Tenants = {t1}
  Workspaces = {w1}
  Specs <- ListOne
  Edits = {"delete"}
  MaxFaults = 1
  MaxOps = 1
  Concurrency = 1
SPECIFICATION Spec
PROPERTIES WsCleanupBeforeFinalizer
CHECK_DEADLOCK FALSE
