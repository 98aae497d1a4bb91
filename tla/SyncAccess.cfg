SPECIFICATION Spec
CONSTANTS
  NoThread = NoThread
  Threads = {t1, t2, t3}
  Slots = {1, 2}
  AccessTypes = {"strict_access", "thread_write"}
  Known = {t1, t2, t3}
INVARIANTS
  CountsExact
  StrictIsExclusive
  StrictWaiterHasNothing
PROPERTIES
  ImplementsReadersWriter
