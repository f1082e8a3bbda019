CONSTANTS
  t1 = t1
  t2 = t2
  t3 = t3
  Threads = {t1, t2, t3}
  NoThread = NoThread
  Types = {"recursive"}
  MaxCount = 1
SYMMETRY ThreadSymmetry
SPECIFICATION Spec
INVARIANT NobodyLeftAsleep
CHECK_DEADLOCK FALSE
