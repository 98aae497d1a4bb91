SPECIFICATION Spec
CONSTANTS
  NoThread = NoThread
  Threads = {t1, t2, t3}
  Pollers = {t2, t3}
  MaxDepth = 2
INVARIANTS
  RefCountExact
  OwnerIsKnown
PROPERTIES
  ImplementsReentrantLock
