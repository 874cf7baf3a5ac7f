SPECIFICATION FairSpec
CONSTANTS
  MAX_PROCESS = 3
  ExitCodes = {1}
  NoPCB = NoPCB
  JoinAny = FALSE
  LeaveChildren = FALSE
  MaxNumWait = 2
INVARIANTS NoCrash NoWaiterLost TableExact JoinReadsOwnChild
PROPERTIES JoinReturns ResourcesGivenBack
CHECK_DEADLOCK FALSE
