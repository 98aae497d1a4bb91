SPECIFICATION FairSpec
CONSTANTS
  NoThread = NoThread
  Threads = {t1, t2, t3}
  Pollers = {t2, t3}
INVARIANTS
  DeadlockDetectionExact
PROPERTIES
  ImplementsLock
  LockIsTakenOver
