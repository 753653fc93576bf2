\* ticks at any time; it stops at an interrupt on an empty list
CONSTANTS
  Timers = {t1, t2}
  NULL = NULL
  scheduler_dummy = scheduler_dummy
  TOP = 1
  ABS = 8
  Timeouts = {1, 4}
  MaxOps = 3
SPECIFICATION FairSpec
INVARIANTS ListsWellFormed NeverEarly IsrFindsTimer
PROPERTIES EveryTimerRuns
CHECK_DEADLOCK FALSE
