SPECIFICATION FairSpec
CHECK_DEADLOCK FALSE
CONSTANTS
  NoThread = NoThread
  NoData = NoData
  Worker = w
  Controller = c
  Producers = {p}
  Data = {d1, d2}
  ControlOps = {"set_processing", "set_processing_blocked", "end_process", "end_terminate", "destroy"}
  Spurious = TRUE
INVARIANTS
  FifoOrder
  PipeConsistent
PROPERTIES
  EverythingProcessed
  JoinReturns
