CONSTANTS
  t0 = t0
  t1 = t1
  r1 = r1
  r2 = r2
  r3 = r3
  r4 = r4
  Threads = {r1, r2, r3, r4}
  NoThread = NoThread
  BarrierThreads = {r1, r2, r3, r4}
  Thresholds = {2, 4}
  Rounds = 3
  TlsThreads = {t0, t1}
  Initial = t0
  NoHolder = NoHolder
  KeysMax = 2
  Iterations = 2
  MaxCreates = 3
  MaxData = 3
SPECIFICATION MCSpec
INVARIANTS LeftOversAreLate WriterIsAlone
INVARIANTS NobodyPassesAlone GenerationsAreComplete DestroyWaitsForLeavers
PROPERTIES ExitEnds
CHECK_DEADLOCK FALSE
