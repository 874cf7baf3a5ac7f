SPECIFICATION Spec
CONSTANTS
  ByteBits = 2
  PageSize = 4
  NumPhysPages = 3
  TargetBits = 4
  PageTable <- MCPageTable
  Program <- MCProgram
  Start <- MCStart
  Counters <- MCCounters
  Loading <- MCLoading
  Results = {0, 255}
  MaxSteps = 2
INVARIANTS Restartable DelaysKept ArithmeticExact UnalignedPairs PagesKept
CHECK_DEADLOCK FALSE
