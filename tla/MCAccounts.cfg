CONSTANTS
  s1 = s1
  s2 = s2
  s3 = s3
  c1 = c1
  c2 = c2
  t1 = t1
  t2 = t2
  v1 = v1
  v2 = v2
  r1 = r1
  r2 = r2
  None = None
  Session = {s1, s2}
  Challenge = {c1}
  Reset = {t1, t2}
  Verification = {v1}
  Req = {r1, r2}
  ResetLimit = 1
  MaxPassword = 3
  MaxStint = 1
SPECIFICATION Spec
SYMMETRY Symmetric
CONSTRAINT OneTopic
INVARIANTS
  TypeOK
  SweepIsTotal
  ExpelIsTotal
  SuspensionHolds
  OneTimeOnly
