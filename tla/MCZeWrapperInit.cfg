SPECIFICATION SpecOfAny
CONSTANTS
  t1 = t1
  t2 = t2
  Threads = {t1, t2}
  Nobody = Nobody
  BaseNames <- TwoBaseNames
  ApiNames <- FewApiNames
  InternalNames <- FewInternalNames
  Apis = {"EXP"}
  Modes = {"INTERNAL"}
  Loaders <- OnlyBrokenBase
  MaxCalls = 3
  Lengths = {0}
  Vertices = {0}
  VertexCounts = {0}
  Chains <- FewChains
  Scenes <- FewScenes
  MaxFaults = 0
INVARIANT RefusalTruthful
CHECK_DEADLOCK FALSE
