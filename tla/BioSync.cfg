CONSTANTS
  t1 = t1
  t2 = t2
  t3 = t3
  Threads = {t1, t2, t3}
  NoThread = NoThread
SPECIFICATION FairSpec
INVARIANTS MutualExclusion WaitersAnnounced OwnerIsAwake
PROPERTIES ImplementsMonitor QueuedThreadGetsMutex
