SPECIFICATION Spec
CONSTANTS
  p1 = p1
  p2 = p2
  p3 = p3
  s1 = s1
  s2 = s2
  s3 = s3
  NULL = NULL
  NoSem = NoSem
  Procs = {p1, p2, p3}
  Callers = {p1, p2, p3}
  Starts <- MCStarts
  NumPhysPages = 6
  StorePages = {1}
  SemNames = {s1}
  MAX_SEMAPHORE = 2
  Values = {0}
  MaxValue = 1
PROPERTY StartedAsAsked
CHECK_DEADLOCK FALSE
