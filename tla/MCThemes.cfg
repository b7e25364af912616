SPECIFICATION Spec
CONSTANTS
  Request = {r1, r2}
  User = {u1, u2}
  Theme = {t1, t2}
  Task = {k1}
  n1 = n1
  n2 = n2
  c1 = c1
  c2 = c2
  Name = {n1, n2}
  Color = {c1, c2}
  NoThemeLabel = n2
  HashColor <- MCHashColor
  Bodies <- MCBodies
  Ops = {"createTheme", "updateTheme", "deleteTheme", "createTask", "updateTask", "completeTask", "incompleteTask", "deleteTask", "statistics"}
  None = None
INVARIANTS
  TypeOK
  FiledUnderOwnTheme
  ThemeNamesDiffer
  FiguresAreTrue
PROPERTIES
  OthersWorkIsKept
  ImplementsCatalog
SYMMETRY MCSymmetry
