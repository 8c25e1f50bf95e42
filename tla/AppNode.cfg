SPECIFICATION FairSpec
CONSTANTS
  Log <- MCLog
  v1 = v1
  AddPeer = AddPeer
  RemoveSelf = RemoveSelf
  Absent = Absent
  Boot = 1
  MaxTerm = 1
  MaxStarts = 2
  MaxMsgs = 1
INVARIANTS TypeOK AckIsEarned OneLoop StoreCatchesUp ConfIsApplied
PROPERTIES StopTakesEffect ReadyIsHandled TermCatchesUp ApiEnds
CHECK_DEADLOCK FALSE
