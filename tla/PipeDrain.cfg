SPECIFICATION Spec
CHECK_DEADLOCK FALSE
CONSTANTS
  NoThread = NoThread
  NoData = NoData
  Worker = w
  Controller = c
  Producers = {c}
  Data = {d1}
  ControlOps = {"end_process"}
  Spurious = FALSE
INVARIANTS
  AllProcessedAtJoin
