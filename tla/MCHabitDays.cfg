SPECIFICATION Spec
CONSTANTS
  Habits <- MCHabits
  Gaps <- MCGaps
  OlderHabit <- MCOlderHabit
  MaxVisits = 6
INVARIANTS
  TypeOK
  WalkVisitsScheduledDays
  StreakCountsSinceLastMiss
  RequiredCountsScheduledDays
  DueAgreesWithStreakWalk
  FaithfulHistoryIsOneStreak
  ProgressCountsEveryCompletion
  ChartCountsEveryCompletion
  FullRateIffNothingMissed
  TodayIsAPeriodOfOneDay
