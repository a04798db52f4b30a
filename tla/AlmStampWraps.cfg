SPECIFICATION Spec
CONSTANTS
  Thread = {t1, t2}
  ISR = ISR
  NULL = NULL
  WRAP = 5
  MAX_WAIT = 3
  MIN_WAIT = 1
  Latency = 1
  Horizon = 12
INVARIANTS
  TypeOK
  StampExact
  PolledInTime
  Inductive
PROPERTY
  StampsAscend
