SPECIFICATION FairSpec
CONSTANTS
  Games = {g1}
  NumPorts = 2
  FirstQueue = 1
  QueueLimit = 2
  RunAhead = FALSE
  MaxPolls = 3
  MaxChanges = 1
PROPERTY LoadReturns
CHECK_DEADLOCK FALSE
