SPECIFICATION Spec
CONSTANTS
  Habit = {1, 2, 3}
  Keys <- MCKeys
  DueToday = {1, 3}
  Completions <- MCCompletions
  Streak <- MCStreak
  BatchSize = 1
  PerPage = 1
  Asks <- MCAsks
INVARIANTS
  TypeOK
  SkipsOnlyAfterChange
  TwiceOnlyAfterInsertion
  QuietPageIsExact
PROPERTIES
  ListingEnds
