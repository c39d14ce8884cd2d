CONSTANTS
  t1 = t1
  t2 = t2
  t3 = t3
  t4 = t4
  f1 = f1
  f2 = f2
  k1 = k1
  k2 = k2
  g1 = g1
  g2 = g2
  r1 = r1
  r2 = r2
  r3 = r3
  None = None
  Token = {t1, t2, t3}
  Family = {f1}
  Grant = {g1}
  Key = {k1}
  Req = {r1, r2}
  Grace = 1
  Ttl = 1
  MinLifetime = 1
  MaxTime = 1
SPECIFICATION Spec
INVARIANT RevokedFamilyIsDead
