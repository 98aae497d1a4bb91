SPECIFICATION FairSpec
CONSTANTS
  t1 = t1
  t2 = t2
  t3 = t3
  NoThread = NoThread
  Threads <- MCThreads
  CallsOf <- WorkersAndClock
  Spurious = TRUE
INVARIANTS
  WaitingExact
PROPERTIES
  PulseIsOneTurn
  BlockAndWaitIsAtomic
  OpeningReturns
  NoLostWakeup
