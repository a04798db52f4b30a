SPECIFICATION FairSpec
CONSTANTS
  Alarm = {a1, a2}
  Thread = {t1, t2}
  NULL = NULL
  Delay = {0, 2}
  MAX_DELAY = 3
  MAX_WAIT = 2
  MIN_WAIT = 1
  TimerMax = 1
  DestroyRaces = FALSE
  LastStart = 0
  Horizon = 2
PROPERTY
  KeepsRinging
