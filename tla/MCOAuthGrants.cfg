CONSTANTS
  u1 = u1
  u2 = u2
  c1 = c1
  c2 = c2
  s1 = s1
  s2 = s2
  p1 = p1
  p2 = p2
  x1 = x1
  x2 = x2
  x3 = x3
  f1 = f1
  f2 = f2
  f3 = f3
  r1 = r1
  r2 = r2
  None = None
  User = {u1}
  Client = {c1}
  Scope = {s1, s2}
  Asked = {{s1}, {s2}, {s1, s2}}
  Par = {p1}
  Code = {x1, x2}
  Family = {f1, f2}
  Req = {r1, r2}
CONSTRAINT OneTopic
SPECIFICATION Spec
CHECK_DEADLOCK FALSE
SYMMETRY Symmetric
INVARIANTS
  TypeOK
  Consented
  OnceUnlessOverlapped
