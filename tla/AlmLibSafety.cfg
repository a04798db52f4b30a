SPECIFICATION Spec
CONSTANTS
  Alarm = {a1, a2}
  Thread = {t1, t2}
  NULL = NULL
  Delay = {0, 2, 3}
  MAX_DELAY = 3
  MAX_WAIT = 3
  MIN_WAIT = 1
  TimerMax = 2
  DestroyRaces = FALSE
  LastStart = 1
  Horizon = 2
SYMMETRY Symmetry
INVARIANTS
  TypeOK
  EnqueuedIffQueued
  QueueSorted
  ActiveCovered
  AssertionsHold
  NoFreedInQueue
  Inductive
PROPERTY
  KeepsPromise
