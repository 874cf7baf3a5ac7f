SPECIFICATION Spec
CONSTANTS
  MAX_PROCESS = 3
  ExitCodes = {1}
  NoPCB = NoPCB
  JoinAny = FALSE
  LeaveChildren = TRUE
  MaxNumWait = 2
INVARIANT NoCrash
CHECK_DEADLOCK FALSE
