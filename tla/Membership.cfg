SPECIFICATION MCConfSpec
CONSTANTS
  Server = {1, 2, 3}
  None = 0
  Value = {v1}
  ReadCtx = {}
  NoCtx = NoCtx
  PreVote = FALSE
  CheckQuorum = FALSE
  DisableProposalForwarding = FALSE
  MaxUint64 = 1000
  MaxInflightMsgs = 1
  MaxSizePerMsg = 2
  Change <- MCChange
  Boot <- MCBoot
  MaxUncommittedSize = 1
  Scenarios = {"single", "handover", "joint", "leave", "quota", "rejoin", "transfer", "restart",
    "diverged"}
INVARIANTS ElectionSafety LeaderCompleteness LogMatching
  OnePendingChange AutoLeaveIsOnItsWay CommitIsUpToDate TransfereeIsVoter QuotaIsHonest
PROPERTIES CommittedIsForever
CHECK_DEADLOCK FALSE
