CONSTANTS
  b1 = b1
  b2 = b2
  BarrierThreads = {b1, b2}
  Thresholds = {2}
  Rounds = 1
CHECK_DEADLOCK FALSE
SPECIFICATION BarrierSpec
INVARIANT DestroyedIsUnused
