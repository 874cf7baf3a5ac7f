SPECIFICATION FairSpec
CONSTANTS
  main = main
  t1 = t1
  t2 = t2
  t3 = t3
  mutex = mutex
  dev = dev
  NULL = NULL
  Threads = {main, t1, t2, t3}
  MainThread = main
  Sems = {mutex, dev}
  DeviceSems = {dev}
  InitValue <- MCInitValue
  MaxValue = 2
INVARIANTS TypeOK ListsExact NobodyLost CarcassCollected NoLostWakeup
PROPERTIES WakeInOrder ReadyRuns ImplementsSemaphores
