CONSTANTS
  Scenarios <- MCScenarios
  MaxPollers = 2
SPECIFICATION FairSpec
INVARIANTS ReadyWasReached MachineFollowsSpec
PROPERTIES BecomesReady NothingOutlives
CHECK_DEADLOCK FALSE
