SPECIFICATION Spec
CONSTANTS
  Request = {r1, r2}
  Habit = {h1}
  User = {u1, u2}
  u1 = u1
  u2 = u2
  Ops = {"list", "create", "update", "delete", "complete", "incomplete"}
  Patches <- BookPatches
  NewRows <- BookRows
  NoRow = NoRow
  MaxDay = 3
SYMMETRY Slots
INVARIANTS
  TypeOK
  NoFutureCompletion
PROPERTIES
  ChangedAddIsReal
  OwnHabitsOnly
  ImplementsBook
