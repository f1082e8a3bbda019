CONSTANTS
  p1 = p1
  p2 = p2
  c1 = c1
  c2 = c2
  Thr = {p1, p2}
  Callers = {c1, c2}
  NoThr = NoThr
SPECIFICATION FairSpec
INVARIANTS FreedOnce
PROPERTIES JoinReturns JoinedIsFreed
