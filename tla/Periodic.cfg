SPECIFICATION PeriodicSpec
CONSTANTS
  Interval = 4
  Limit = 10
  Lifetime = 40
  Latency = 5
  None = None
  n1 = n1
  n2 = n2
  j1 = j1
  j2 = j2
  Names = {n1, n2}
  Jobs = {j1, j2}
  Unit <- MCUnit
  Spans <- MCSpans
  MaxAge = 3
  MaxOps = 3
  MaxFaults = 1
  NoList = NoList
  Repos = {"r1", "r2"}
  Tags = {"v1", "latest"}
  ListOps = 2
  ListFaults = 2
INVARIANT TokenValid
PROPERTIES OnlyExpiredDeleted StaleInstancesGo ListConverges
