CONSTANTS
  NumGeometries = 3
  MaxPrimitives = 4
  MaxThreads = 3
  MinStepSize = 1
  MaxTasks = 3
  SumSizes = {0, 1, 3, 4, 5, 7}
  Values = {0, 1}
  Threshold = 3
  PartitionSizes = {0, 1, 8, 12}
  BlockSize = 2
  LeftSets <- FewLeftSets
  SortSizes = {0, 2, 3, 4, 5}
  Digits = 2
  BUCKETS = 2
  MaxPieces = 32
  NumChildren = 6
  Targets = {2, 4, 8, 16, 32}
  RootArities = {1, 2, 3, 4, 5, 6}
  Arities = {1, 2, 3, 4, 5, 6}
  NumPrims = 3
  Budgets = {0, 1, 2, 3, 5, 8, 10}
  MaxPriority = 3
  MaxLog = 3
  NumDims = 2
  GridBits = 2
  Corners = {0, 1, 9, 11, 20, 40}
  Shares = {1, 2, 4}
  Rounding = 1
SPECIFICATION SpecOfPrimitives
INVARIANTS
  PrimRefsExact PrefixSumExact RadixSorted Partitioned
  HeapSound WithinBudget PresplitExact WorthiestSplit PlanesCut
