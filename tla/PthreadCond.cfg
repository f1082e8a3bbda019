CONSTANTS
  t1 = t1
  t2 = t2
  t3 = t3
  Threads = {t1, t2, t3}
  NoThread = NoThread
  Types = {"normal", "errorcheck", "recursive", "strict"}
  MaxCount = 1
  Clients <- AllClients
SPECIFICATION CondSpec
CHECK_DEADLOCK FALSE
SYMMETRY ThreadSymmetry
INVARIANTS NoOrphanLock CountIsOwners
INVARIANTS WaitIsAtomic ReturnsWithMutex
