CONSTANTS
  u1 = u1
  u2 = u2
  r1 = r1
  r2 = r2
  None = None
  User = {u1, u2}
  Target = u1
  Req = {r1, r2}
  Tab = r1
  Window = 2
  Free = 1
  MaxPerTick = 2
CONSTRAINTS
  TwoAtATime
  ShortPrompts
  FewBacks
SPECIFICATION WebSpec
INVARIANTS
  WebTypeOK
  GuessesBounded
  ProfileIsOwn
  ListCurrentUnlessBehind
PROPERTIES
  EventuallyAdmitted
