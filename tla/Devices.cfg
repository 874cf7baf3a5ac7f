SPECIFICATION Spec
CONSTANTS
  t1 = t1
  t2 = t2
  Threads = {t1, t2}
  NULL = NULL
  UserTick = 1
  SystemTick = 2
  RotationTime = 3
  SeekTime = 2
  ConsoleTime = 3
  TimerTicks = 4
  SectorsPerTrack = 4
  NumTracks = 2
  RandomTimer = FALSE
INVARIANTS HandlersOnTime DeviceAsserts OneWakeup DiskOnTime
