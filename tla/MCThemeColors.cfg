SPECIFICATION Spec
CONSTANTS
  Request = {r1}
  User = {u1}
  Theme = {t1, t2}
  Task = {k1}
  n1 = n1
  n2 = n2
  c1 = c1
  c2 = c2
  Name = {n1, n2}
  Color = {c1, c2}
  NoThemeLabel = n2
  HashColor <- MCHashColorSame
  Bodies <- MCBodies
  Ops = {"createTheme"}
  None = None
INVARIANT
  ThemeColorsDiffer
