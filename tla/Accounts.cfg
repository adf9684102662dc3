SPECIFICATION AccountsSpec
CONSTANTS
  Tenants = {"ann", "joann", "anna", "bea"}
  Inside <- MCInside
  WsRoles = {"r1"}
  MaxOps = 3
  MaxFaults = 1
  Names = {"ada", "bob"}
  NcOps = 3
  NcFaults = 2
CHECK_DEADLOCK FALSE
INVARIANT AccountFollows
PROPERTY OwnAccountFirst
PROPERTY KeepsPassword
PROPERTY CredentialsConverge
