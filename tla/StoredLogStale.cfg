SPECIFICATION Spec
CONSTANTS
  MaxTerm = 3
  MaxNextEnts = 2
  LeaderLogs <- ShortSnapshot
INVARIANTS AcksAreDurable
CHECK_DEADLOCK FALSE
