SPECIFICATION Spec
CONSTANTS
  MaxUint64 = 99
  Node = {1, 2, 3, 4}
  MaxChanges = 2
  MaxIndex = 2
INVARIANTS ChangesAreSound ProgressIsExact RestoreIsFaithful TallyIsExact CommitIsExact
PROPERTIES QuorumsMeet DemotionIsOrderly
CHECK_DEADLOCK FALSE
