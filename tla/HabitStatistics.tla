--------------------------- MODULE HabitStatistics ---------------------------
(***************************************************************************)
(* The figures of the dashboard and of the statistics page, which          *)
(* src/services/habits.py rebuilds from the habits and their completions   *)
(* at every visit: nothing about the past is stored.  The page adds the    *)
(* figures of a user's habits up; here the user keeps the habit of         *)
(* HabitDays beside an older one that is over.  A percentage is            *)
(* round(100 * done / due), and 0 when nothing was due.                    *)
(***************************************************************************)
EXTENDS HabitDays, FiniteSetsExt, Functions

CONSTANT
  OlderHabit(_)  \* the archived habit beside one created on that date:
                 \* [row |-> columns of HabitSchedule, done |-> completion dates]

\* It was over before the other one was created, and archived.
ASSUME OlderAssumption ==
  \A h \in Habits :
    LET older == OlderHabit(h.created)
    IN /\ older.row.starts \in Nat /\ older.row.created \in Nat \ {0}
       /\ older.row.ends \in 1..(h.created - 1) /\ older.row.archived
       /\ older.done \subseteq AnchorDate(older.row)..older.row.ends

HabitsOfUser ==
  {[row |-> habit, done |-> completions], OlderHabit(habit.created)}

-----------------------------------------------------------------------------
(* Periods and the bars of the completion chart.  A bar is the pair of the *)
(* first and the last day it stands for.                                   *)

Ranges == {"7d", "30d", "90d", "all"}

PeriodStart(end, days) == end - (days - 1)

\* The earliest anchor or completion of any habit, archived ones included.
AllTimePeriodStart(habits) ==
  Min({AnchorDate(h.row) : h \in habits} \cup UNION {h.done : h \in habits})

StartOf(range) ==
  CASE range = "7d"  -> PeriodStart(today, 7)
    [] range = "30d" -> PeriodStart(today, 30)
    [] range = "90d" -> PeriodStart(today, 90)
    [] range = "all" -> AllTimePeriodStart(HabitsOfUser)

\* Mutant: the next week starts on the last day of this one.
PeriodWeeksOverlapping(from, to) ==
  {<<from + 6 * k, Min({from + 6 * k + 6, to})>> : k \in 0..((to - from) \div 6)}

PeriodWeeks(from, to) ==
  {<<from + 7 * k, Min({from + 7 * k + 6, to})>> : k \in 0..((to - from) \div 7)}

\* The calendar months from that of the first day to that of the last.
PeriodMonths(from, to) ==
  LET index(n) == YearOf(n) * 12 + MonthOf(n) - 1
      first(i) == Ordinal(i \div 12, (i % 12) + 1, 1)
  IN {<<first(i), first(i + 1) - 1>> : i \in index(from)..index(to)}

TrendBuckets(range) ==
  CASE range = "all" -> PeriodMonths(StartOf(range), today)
    [] range = "90d" -> PeriodWeeks(StartOf(range), today)
    [] OTHER         -> {<<day, day>> : day \in PeriodDates(StartOf(range), today)}

\* How many completions each bar shows.
TrendCounts(range) ==
  [bar \in TrendBuckets(range) |->
     SumFunction([h \in HabitsOfUser |->
       Cardinality({day \in h.done : /\ day \in StartOf(range)..today
                                     /\ day \in bar[1]..bar[2]})])]

-----------------------------------------------------------------------------
(* Due and done occurrences.                                                *)

\* Mutant: a day is looked up as if nothing had been completed before it.
PeriodOccurrencesForgetful(h, from, to, respectArchive) ==
  LET due == {day \in PeriodDates(from, to) :
                day \in h.done \/ IsHabitDue(h.row, {}, day, FALSE, respectArchive)}
  IN [due |-> Cardinality(due), done |-> Cardinality(due \cap h.done)]

\* A day counts as due when it is completed, or due by the rules, given the
\* completions before it.
PeriodOccurrences(h, from, to, respectArchive) ==
  LET due == {day \in PeriodDates(from, to) :
                day \in h.done \/ IsHabitDue(h.row, h.done, day, FALSE, respectArchive)}
  IN [due |-> Cardinality(due), done |-> Cardinality(due \cap h.done)]

\* Mutant: an archived habit is counted with the active ones.
TodayTotalsOfAll(habits) ==
  [due  |-> Cardinality(habits),
   done |-> Cardinality({h \in habits : today \in h.done})]

\* The dashboard, and the first row of the page: the active habits, today.
TodayTotals(habits) ==
  LET active == {h \in habits : ~h.row.archived}
      done == {h \in active : today \in h.done}
  IN [due  |-> Cardinality({h \in active :
                 h \in done \/ IsHabitDue(h.row, h.done, today, FALSE, TRUE)}),
      done |-> Cardinality(done)]

-----------------------------------------------------------------------------

\* Every completion of the period stands in exactly one bar of the chart,
\* whatever the range, over cut weeks and month ends, and the chart of all time
\* shows every completion the user ever made, those of archived habits included.
ChartCountsEveryCompletion ==
  /\ \A range \in Ranges :
       SumFunction(TrendCounts(range))
         = SumFunction([h \in HabitsOfUser |-> Cardinality(h.done \cap (StartOf(range)..today))])
  /\ \A h \in HabitsOfUser : h.done \subseteq StartOf("all")..today

\* The success rate looks at each past day again with the completions known
\* today: it is full exactly when no due day went by undone, although habits
\* rest by what was done before, are archived since, or began after the period did.
FullRateIffNothingMissed ==
  \A range \in {"30d", "all"} :
    StartOf(range) <= AnchorDate(habit) /\ habit.created <= AnchorDate(habit) =>
      LET seen == PeriodOccurrences([row |-> habit, done |-> completions],
                                    StartOf(range), today, FALSE)
      IN seen.done = seen.due <=> ~missed /\ ~DueOn(today)

\* The figures for today, counted over the active habits, are those of a period of
\* one day, counted over all of them: archiving a habit takes nothing from today.
TodayIsAPeriodOfOneDay ==
  LET oneDay(h) == PeriodOccurrences(h, PeriodStart(today, 1), today, FALSE)
  IN TodayTotals(HabitsOfUser)
       = [due  |-> SumFunction([h \in HabitsOfUser |-> oneDay(h).due]),
          done |-> SumFunction([h \in HabitsOfUser |-> oneDay(h).done])]

=============================================================================
