SPECIFICATION FairSpec
CONSTANTS
  Timers = {t1, t2, t3, t4}
  Periods = {1, 2}
  MaxDepth = 2
  None = None
INVARIANT PausedTimerStopped
CHECK_DEADLOCK FALSE
