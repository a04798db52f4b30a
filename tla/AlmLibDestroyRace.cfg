SPECIFICATION Spec
CONSTANTS
  Alarm = {a1, a2}
  Thread = {t1, t2}
  NULL = NULL
  Delay = {0, 3}
  MAX_DELAY = 4
  MAX_WAIT = 3
  MIN_WAIT = 1
  TimerMax = 2
  DestroyRaces = TRUE
  LastStart = 1
  Horizon = 3
INVARIANT
  NoFreedInQueue
