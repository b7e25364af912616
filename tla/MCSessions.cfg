SPECIFICATION Spec
CONSTANTS
  Task = {t1, t2}
  User = {u1}
  Sid = {s1, s2}
  None = None
  Ops = {"login", "register", "resolve", "logout", "logoutAll", "setActive"}
  Ttl = 2
  MaxTime = 2
SYMMETRY Interchangeable
INVARIANTS
  TypeOK
  SessionsAreIndexed
  EndedSessionsStayDead
PROPERTIES
  ServedWithinLifetime
