SPECIFICATION Spec
CONSTANTS
  MaxTerm = 3
  MaxNextEnts = 2
  LeaderLogs <- Histories
INVARIANTS NoPanic AcksAreDurable
PROPERTIES RefinesIdealLog
