SPECIFICATION FairTestSpec
CONSTANTS
  t1 = t1
  t2 = t2
  t3 = t3
  Alarm = {a1, a2, a3}
  Thread = {t1, t2, t3}
  NULL = NULL
  Delay = {0}
  MAX_DELAY = 3
  MAX_WAIT = 2
  MIN_WAIT = 1
  TimerMax = 2
  DestroyRaces = FALSE
  LastStart = 0
  Horizon = 0
  Num <- ThreeTests
  Counting = {t1, t2}
  OneAtATime = TRUE
  Overlap = FALSE
INVARIANTS
  CounterExact
  EmptyAfterTests
PROPERTY
  TestsEnd
