CONSTANTS
  k1 = k1
  k2 = k2
  x1 = x1
  x2 = x2
  x3 = x3
  r1 = r1
  r2 = r2
  None = None
  Key = {k1, k2}
  Counting = {k1}
  Challenge = {x1, x2, x3}
  Req = {r1, r2}
  MaxCounter = 2
SPECIFICATION Spec
CHECK_DEADLOCK FALSE
SYMMETRY Symmetric
INVARIANTS
  TypeOK
  ChallengeOnceUnlessOverlapped
  LastKeyKept
PROPERTY CounterNeverBack
