SPECIFICATION TreeSpec
CHECK_DEADLOCK FALSE
CONSTANTS
  TreeKeys = {1, 2, 3, 4, 5, 6, 7}
  NoNode = 0
INVARIANTS
  TerminalIsLeaf
