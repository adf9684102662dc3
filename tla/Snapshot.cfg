CONSTANTS
  MaxUid = 2
  MaxOps = 2
  MaxFaults = 2
SPECIFICATION FairSpec
INVARIANT SettledPhase
PROPERTIES KeepsPromise SnapshotEnds
CHECK_DEADLOCK FALSE
