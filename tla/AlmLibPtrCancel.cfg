SPECIFICATION Spec
CONSTANTS
  Alarm = {a1, a2}
  Thread = {t1, t2}
  NULL = NULL
  Delay = {0, 1}
  MAX_DELAY = 3
  MAX_WAIT = 2
  MIN_WAIT = 1
  TimerMax = 2
  DestroyRaces = FALSE
  LastStart = 1
  Horizon = 1
  HandlerIsThread = TRUE
  Calls = {"cancel"}
SYMMETRY Symmetry
INVARIANT
  HandlerAsserts
