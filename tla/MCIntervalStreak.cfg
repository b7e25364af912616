SPECIFICATION Spec
CONSTANTS
  Habits <- IntervalHabits
  Gaps <- MCGaps
  OlderHabit <- MCOlderHabit
  MaxVisits = 4
PROPERTIES
  CompletionCountsInStreak
