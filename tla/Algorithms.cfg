SPECIFICATION Spec
CHECK_DEADLOCK FALSE
CONSTANTS
  TreeKeys = {1, 2, 3, 4, 5, 6, 7, 8}
  NoNode = 0
  MaxTyped = 5
  Width = 4
  MaxTurn = 9
  BlockLen = 9
  Sizes = {1, 2, 4}
INVARIANTS
  TreeIsItsSet
  NumbersAreExact
  WindowInBlock
  AgreesWithReference
PROPERTIES
  BalanceEnds
