SPECIFICATION Spec
CONSTANTS
  Alarm = {a1, a2}
  Thread = {t1, t2}
  NULL = NULL
  Delay = {1, 2}
  MAX_DELAY = 2
  MAX_WAIT = 2
  MIN_WAIT = 1
  TimerMax = 2
  DestroyRaces = FALSE
  LastStart = 1
  Horizon = 1
  HandlerIsThread = FALSE
  Calls = {"restart", "cancel", "destroy", "dump"}
SYMMETRY Symmetry
INVARIANT
  TypeOK
  ListInductive
PROPERTY
  ImplementsAlmLib
