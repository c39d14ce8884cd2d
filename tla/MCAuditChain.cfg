CONSTANTS
  w1 = w1
  w2 = w2
  None = None
  Writer = {w1, w2}
  MaxEntries = 4
  Batch = 2
  MaxVerify = 3
SPECIFICATION Spec
CHECK_DEADLOCK FALSE
SYMMETRY Symmetric
INVARIANTS
  TypeOK
  ChainUnlessOverlapped
  NoFalseAlarm
  ValidMeansIntact
