CONSTANTS
  s1 = s1
  s2 = s2
  c1 = c1
  c2 = c2
  c3 = c3
  c4 = c4
  r1 = r1
  r2 = r2
  None = None
  Secret = {s1, s2}
  Code = {c1, c2, c3, c4}
  Req = {r1, r2}
  BatchSize = 2
SPECIFICATION Spec
SYMMETRY Symmetric
INVARIANTS
  TypeOK
  ProvenSecret
  CodesHold
PROPERTY EnrolmentStays
