SPECIFICATION Spec
CONSTANTS
  Request = {r1, r2}
  Habit = {h1}
  User = {u1}
  u1 = u1
  u2 = u2
  Ops = {"create", "update"}
  Patches <- EditPatches
  NewRows <- EditRows
  NoRow = NoRow
  MaxDay = 3
SYMMETRY Slots
INVARIANTS
  StoredHabitIsValid
