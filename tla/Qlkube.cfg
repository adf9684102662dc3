SPECIFICATION QlkubeFairSpec
CONSTANTS
  Any = Any
  None = None
  Subs <- MCSubs
  Tokens = {"ann"}
  Names = {"n1", "n2"}
  Limit = 2
  Period = 5
  Latency = 1
  MaxEvents = 2
  MaxOps = 2
  MaxFaults = 1
  Endpoints = {"openapi", "swagger"}
  Offers <- MCOffers
  Kinds = {"Instance", "Template", "Tenant", "Workspace", "Pod"}
  Grouped = {"Instance", "Template", "Tenant", "Workspace"}
  Machinery = {"ObjectMeta"}
  Wrappers <- MCWrappers
  Configs <- MCConfigs
INVARIANTS QlkubeTypeOK ServesAllItWatches
PROPERTIES StaleBound EventsArrive ServesAgain
