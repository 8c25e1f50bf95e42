SPECIFICATION MCSpecTicks
CONSTANTS
  n1 = n1
  n2 = n2
  n3 = n3
  Server = {n1, n2}
  None = None
  Value = {}
  ReadCtx = {}
  NoCtx = NoCtx
  PreVote = FALSE
  CheckQuorum = TRUE
  DisableProposalForwarding = FALSE
  MaxUint64 = 1000
  MaxInflightMsgs = 2
  MaxSizePerMsg = 1
  MaxTerm = 3
  MaxLog = 5
  Timers <- NoTimer
  Carried <- All
  Silent = {}
  Calls = {"Transfer", "Tick"}
INVARIANTS NoPanic
PROPERTIES CutOffLeaderStepsDown 
CHECK_DEADLOCK FALSE
