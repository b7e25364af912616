SPECIFICATION Spec
CONSTANTS
  Task = {t1, t2}
  User = {u1}
  Sid = {s1, s2}
  None = None
  Ops = {"login", "logoutAll"}
  Ttl = 2
  MaxTime = 3
SYMMETRY Interchangeable
PROPERTIES
  LogoutAllEndsSessions
