SPECIFICATION Spec
CHECK_DEADLOCK FALSE
CONSTANTS
  CacheThreads = {t1, t2}
  Values = {v1, v2}
  CacheKeys = {1, 2}
  Duration = 1
  EndOfTime = 3
  ItemKeys = {k1, k2}
  ItemValues = {v1, v2}
  ItemDuration = 1
  ItemEnd = 3
  NoValue = NoValue
  DeleteThreads = {t1, t2}
  Things = {x1, x2, x3}
  Delays = {0, 1, 2}
  DeleteEnd = 3
  FindKeys = {k1, k2}
  MaxEntries = 4
  MaxPrio = 3
  MaxData = 5
  Clients = {c1, c2}
  MaxCalls = 2
  Handlers = {h1, h2, h3}
  NoHandle = NoHandle
  Groups = {g1, g2, g3}
  Actions = {a1, a2, a3}
INVARIANTS
  NothingStale
  AnswerBeforeReturn
  EachHandleCounts
PROPERTIES
  NothingTooEarly
  PrioKeepsOrder
