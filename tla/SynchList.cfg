SPECIFICATION FairSpec
CONSTANTS
  t1 = t1
  t2 = t2
  t3 = t3
  a = a
  b = b
  c = c
  NULL = NULL
  Threads = {t1, t2, t3}
  Items = {a, b, c}
INVARIANTS LockExclusive NoMissedSignal
PROPERTIES ImplementsQueue
CHECK_DEADLOCK FALSE
