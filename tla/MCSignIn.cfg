SPECIFICATION Spec
CONSTANTS
  Request = {r1, r2}
  User = {u1, u2}
  Email = {e1, e2}
  Identity = {g1, g2}
  Token = {c1, c2}
  State = {s1, s2}
  None = None
SYMMETRY Interchangeable
INVARIANTS
  TypeOK
  RaceIsExplained
  SignedInAsOwnIdentity
  NobodyWaitsForEver
PROPERTIES
  ImplementsRegistry
  SessionKept
