CONSTANTS
  t1 = t1
  t2 = t2
  t3 = t3
  Threads = {t1, t2, t3}
  NoThread = NoThread
  Initial = 0
  MaxValue = 2
SPECIFICATION FairSpec
INVARIANTS NoWakeupLost
PROPERTIES ImplementsCountingSem TokenIsTaken
CHECK_DEADLOCK FALSE
