SPECIFICATION MCAppSpec
CONSTANTS
  n1 = n1
  n2 = n2
  n3 = n3
  Server = {n1, n2, n3}
  None = None
  Value = {}
  ReadCtx = {}
  NoCtx = NoCtx
  PreVote = FALSE
  CheckQuorum = FALSE
  DisableProposalForwarding = FALSE
  MaxUint64 = 1000
  MaxInflightMsgs = 2
  MaxSizePerMsg = 1
  MaxTerm = 3
  MaxLog = 5
  Timers <- TwiceAndOnce
  Carried <- Votes
  Silent = {}
  Calls = {}
INVARIANTS VotesAreDurable
CHECK_DEADLOCK FALSE
