CONSTANTS
  t1 = t1  t2 = t2  t3 = t3
  o1 = o1  o2 = o2
  NoOp = NoOp
  Threads = {t1, t2}
  Ops = {o1}
  Codes <- TwoCodes
  Usage = "racing"
  MaxBuilds = 2
SPECIFICATION Spec
INVARIANT OneBuildAtATime
