CONSTANTS
  Threads = {t1, t2, t3}
  End = 448
  MaxBytes = 192
  Requests <- MCRequests
SYMMETRY MCSymmetry
SPECIFICATION Spec
INVARIANTS
  BlocksSound
  Overshoot
PROPERTIES
  PoolSpec
