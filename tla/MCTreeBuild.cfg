CONSTANTS
  r = r
  p = p
  s = s
  l = l
  p1 = p1
  p2 = p2
  s1 = s1
  s2 = s2
  Nodes <- MCNodes
  Root = r
  Children <- MCChildren
  LeafDatas <- MCLeafDatas
  Parallel = {r, p}
  TooDeeps = {{}, {s2}}
  End = 961
SPECIFICATION FairSpec
INVARIANTS
  SuccessLayout
  ValidComplete
  NoOrphans
  AnswerJustified
PROPERTY Terminates
CHECK_DEADLOCK FALSE
