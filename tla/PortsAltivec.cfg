SPECIFICATION MCFairSpec
CONSTANTS
  Parts = {"mv64260"}
  Altivec = TRUE
  Bits = 5
  TmrTicks = 2
  BusTicks = 2
  MccBits = 4
  int_inhibit = 4
  SetupTicks = 3
  BspBits = 4
  BspUsecs = 5
  TimerRate = 16
  BaseRate = 8
  LinuxUsecs = 4
  NSECS_PER_USEC = 3
  Half = 3
  Laps = 3
  W = 5
  Thread = {"thread"}
  WRAP = 3
  StampWait = 1
  Latency = 1
  StampHorizon = 6
  MIN_WAIT = 1
  MAX_WAIT = 8
  Slack = 4
  Response = 11
  Horizon = 40
  LastInit = 2
PROPERTY
  Mv64260Keeps
CHECK_DEADLOCK FALSE
