CONSTANTS
  WindowSize = 5
  MaxDistance = 4
  NumTriangles = 7
  MaxEdges = 3
  Vertices = {v1, v2, v3, v4, v5}
  DeltaBits = 5
  PairDistances = {1, 31}
  Geometries = {1, 2, 3}
  NumChildren = 6
  MaxRun = 3
  LeafCapacity = 13
  InstanceBlocks = {1, 2}
  Mantissa = 4
  FewMantissas = {8, 11, 13, 15}
  Grid = 2
  MinExp = 13
  Floats <- FewFloats
  Others <- FewOthers
  Items = {a, b}
  Inner = {c, d}
  Kinds = {"opaque", "anyhit", "procedural", "instance", "software"}
  Distances = {1, 2}
SPECIFICATION SpecOfTraversal
INVARIANTS AnswerRight PairsGreedy QuadDecodes DecodesToChildren BoundsConservative
PROPERTIES CommittedCloser QueryEnds
