SPECIFICATION Spec
CONSTANTS
  Alarm = {a1, a2, a3}
  Thread = {t1}
  NULL = NULL
  Delay = {0, 1}
  MAX_DELAY = 2
  MAX_WAIT = 2
  MIN_WAIT = 1
  TimerMax = 1
  DestroyRaces = FALSE
  LastStart = 0
  Horizon = 1
  HandlerIsThread = FALSE
  Calls = {"restart", "cancel", "destroy"}
SYMMETRY Symmetry
INVARIANTS
  ListSound
  HandlerAsserts
PROPERTY
  ImplementsAlmLib
  ListKeepsPromise
