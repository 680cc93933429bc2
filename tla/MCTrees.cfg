CONSTANTS
  tri = tri
  proc = proc
  inst = inst
  UNKNOWN = UNKNOWN
  Types = {tri, proc, inst}
  Width = 3
  MaxRun = 3
  FanIn = 2
  typeSplitSize = 6
  maxDepth = 5
  MinLargeLeafLevels = 2
  FewPrims = {7, 9, 19}
  Counts = {0, 1, 2, 7, 100, 1500, 20000}
  FewCounts = {3, 20000}
  Misalignments = {0, 63}
  Far = 100
  BINS = 32
  blockSize = 2
  Share = 2
  leafThreshold = 1
  MaxChildren = 4
  MaxBoxes = 5
CONSTANT Scenes <- FewScenes
CONSTANT Mixes <- FewMixes
CONSTANT GeometryLists <- FewGeometries
CONSTANT BoxLists <- FewBoxes
CONSTANT leafSize <- MCLeafSize
SPECIFICATION SpecOfAny
INVARIANTS
  LeafSound DepthSound
  WorstCaseCovers
  RetriesSuffice
  SplitSound
