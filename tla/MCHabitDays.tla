----------------------------- MODULE MCHabitDays -----------------------------
(***************************************************************************)
(* Small instances of HabitDays and HabitStatistics: at least one habit    *)
(* per schedule type, the calendar ones placed across the ends of the      *)
(* Februaries of 2023, 2024 and 2025.                                      *)
(***************************************************************************)
EXTENDS HabitStatistics

NewHabit(created, type, cfg) ==
  [starts |-> NoDate, ends |-> NoDate, created |-> created, archived |-> FALSE,
   type |-> type, cfg |-> cfg]

Window(h, from, length) == [h EXCEPT !.starts = from, !.ends = from + length - 1]

Jan2024 == Ordinal(2024, 1, 30)                    \* a Tuesday

Daily    == NewHabit(Jan2024, "daily", [empty |-> TRUE])
Weekdays == NewHabit(Jan2024, "weekly_days", [days |-> {1, 4}])
Sundays  == NewHabit(Jan2024, "weekly_days", [days |-> {6}])
MonthEnd == NewHabit(Jan2024, "monthly_day", [day |-> 31])
LeapDay  == NewHabit(Ordinal(2023, 2, 27), "yearly_date", [month |-> 2, day |-> 29])
TwoOne   == NewHabit(Jan2024, "interval_cycle", [active |-> 2, break |-> 1])
ThreeOne == NewHabit(Jan2024, "interval_cycle", [active |-> 3, break |-> 1])
TwoThree == NewHabit(Jan2024, "interval_cycle", [active |-> 2, break |-> 3])
OneTwo   == NewHabit(Jan2024, "interval_cycle", [active |-> 1, break |-> 2])

MCHabits ==
  { Daily, Weekdays, Sundays, MonthEnd, LeapDay, TwoOne, OneTwo, ThreeOne,
    Window(Daily, Jan2024 + 1, 4), Window(Weekdays, Jan2024 - 2, 6),
    Window(MonthEnd, Jan2024, 62), Window(TwoOne, Jan2024, 5),
    Window(ThreeOne, Jan2024, 6), Window(TwoThree, Jan2024 + 1, 4),
    Window(Daily, Jan2024 - 2, 5) }

MCGaps ==
  [type \in ScheduleTypes |->
     CASE type = "monthly_day" -> {1, 28, 31}
       [] type = "yearly_date" -> {1, 2, 364, 366}
       [] OTHER -> {1, 2}]

\* A daily habit of a fortnight that ended weeks before this one was created.
MCOlderHabit(created) ==
  [row  |-> [Window(NewHabit(created - 40, "daily", [empty |-> TRUE]), created - 40, 14)
               EXCEPT !.archived = TRUE],
   done |-> {created - 40, created - 33, created - 27}]

IntervalHabits == {TwoOne}

=============================================================================
