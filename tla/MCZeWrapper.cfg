SPECIFICATION SpecOfAny
CONSTANTS
  t1 = t1
  t2 = t2
  Threads = {t1, t2}
  Nobody = Nobody
  BaseNames <- TwoBaseNames
  ApiNames <- FewApiNames
  InternalNames <- FewInternalNames
  Apis = {"EXP"}
  Modes = {"INTERNAL", "LEVEL_ZERO"}
  Loaders <- AnyLoader
  MaxCalls = 3
  Lengths = {0, 1, 2}
  Vertices = {0, 1, 2}
  VertexCounts = {0, 2}
  Chains <- FewChains
  Scenes <- FewScenes
  MaxFaults = 2
INVARIANTS
  NoNullCall
  TableMatchesMode
  ChainKept
  ReadsDescribed
  AnswerTruthful
PROPERTIES
  CallsReturn
CHECK_DEADLOCK FALSE
