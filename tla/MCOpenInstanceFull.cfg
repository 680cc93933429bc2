CONSTANTS
  MaxPieces = 32
  NumChildren = 6
  Targets = {2, 4, 8, 16, 32}
  RootArities = {1, 2, 3, 4, 5, 6}
  Arities = {1, 2, 3, 4, 5, 6}
SPECIFICATION Spec
INVARIANT PushAsserted
CHECK_DEADLOCK FALSE
