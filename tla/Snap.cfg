SPECIFICATION MCSpecLagging
CONSTANTS
  n1 = n1
  n2 = n2
  n3 = n3
  Server = {n1, n2, n3}
  None = None
  Value = {"x"}
  ReadCtx = {}
  NoCtx = NoCtx
  PreVote = FALSE
  CheckQuorum = FALSE
  DisableProposalForwarding = TRUE
  MaxUint64 = 1000
  MaxInflightMsgs = 2
  MaxSizePerMsg = 1
  MaxTerm = 3
  MaxLog = 5
  Timers <- NoTimer
  Carried <- All
  Silent = {n2}
  Calls = {"Tick", "Compact", "Snapshot"}
INVARIANTS StateMachineSafety
PROPERTIES CommittedIsForever
CHECK_DEADLOCK FALSE
