SPECIFICATION MCSpec
CONSTANTS
  n1 = n1
  n2 = n2
  n3 = n3
  Server = {n1, n2}
  None = None
  Value = {"x"}
  ReadCtx = {}
  NoCtx = NoCtx
  PreVote = FALSE
  CheckQuorum = FALSE
  DisableProposalForwarding = FALSE
  MaxUint64 = 1000
  MaxInflightMsgs = 2
  MaxSizePerMsg = 1
  MaxTerm = 2
  MaxLog = 6
  Timers <- TimerOfOne
  Carried <- All
  Silent = {}
  Calls = {"Unreachable"}
INVARIANTS WindowIsExact MatchIsReplicated
CHECK_DEADLOCK FALSE
