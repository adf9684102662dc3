CONSTANTS
  t1 = t1
  w1 = w1
  Tenants = {t1}
  Workspaces = {w1}
  Specs <- ListNoneOrTwice
  Edits = {"create", "subscribe", "relabel", "delete"}
  MaxFaults = 0
  MaxOps = 2
  Concurrency = 1
SPECIFICATION Spec
INVARIANTS TypeOK FreshCopies SettledTenantIsConsistent ReadyWorkspaceHasRoles
PROPERTIES NoLostSubscription
CHECK_DEADLOCK FALSE
