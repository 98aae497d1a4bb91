SPECIFICATION Spec
CONSTANTS
  NoThread = NoThread
  NoGuard = NoGuard
  Threads = {t1, t2}
  Fns = {f1, f2}
  Guards = {g1, g2}
  Blocks = {b1, b2}
  Prios = {1, 255}
  MaxId = 2
  DefaultPrio = 255
INVARIANTS
  NoCallbackWithoutGuard
CHECK_DEADLOCK FALSE
