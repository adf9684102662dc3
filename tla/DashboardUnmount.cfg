SPECIFICATION Spec
CONSTANTS
  w1 = w1
  w2 = w2
  a = a
  b = b
  v1 = v1
  v2 = v2
  i1 = i1
  i2 = i2
  Workspaces = {w1, w2}
  MaxLab = 3
  Images = {a, b}
  Versions = {v1, v2}
  None = None
  NoVersion = NoVersion
  MaxFetch = 2
  Names = {i1, i2}
  Persistent <- MCPersistent
  Containers <- MCContainers
  Gui <- MCGui
  Scenarios <- MCScenarios
CHECK_DEADLOCK FALSE
INVARIANT NoReferenceLeft
