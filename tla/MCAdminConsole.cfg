CONSTANTS
  t1 = t1
  t2 = t2
  t3 = t3
  f1 = f1
  f2 = f2
  k1 = k1
  k2 = k2
  g1 = g1
  r1 = r1
  r2 = r2
  None = None
  Token = {t1, t2, t3}
  Family = {f1, f2}
  Grant = {g1}
  Key = {k1, k2}
  Req = {r1, r2}
  Grace = 1
  Ttl = 1
  MinLifetime = 2
  MaxTime = 1
  Delay = 0
SPECIFICATION ConsoleSpec
CHECK_DEADLOCK FALSE
SYMMETRY Symmetric
INVARIANTS
  ConsoleTypeOK
  CookieUsable
  GraceAbsorbsConcurrency
  LogoutEndsFamily
