SPECIFICATION Spec
CONSTANTS
  Ttl = 1
  OwnTtl = 2
  Stale = 2
  MaxBuilds = 5
CHECK_DEADLOCK FALSE
INVARIANTS
  JoinedBuildRuns
