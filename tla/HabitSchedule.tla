---------------------------- MODULE HabitSchedule ----------------------------
(***************************************************************************)
(* The scheduling rules of src/services/habits.py, as operators on dates.  *)
(*                                                                         *)
(* A date is its proleptic Gregorian ordinal, as Python's date.toordinal() *)
(* counts (1 January of year 1 is 1, a Monday).  A habit is a record with  *)
(* the columns the rules read: starts and ends (NoDate when null), created *)
(* (created_at.date()), archived, type and cfg, the schedule_config.       *)
(*                                                                         *)
(* The module has no state and no RECURSIVE operator; every loop of the    *)
(* code is written as the set or the run of dates it walks over.           *)
(***************************************************************************)
EXTENDS Integers, FiniteSets

ScheduleTypes ==
  {"daily", "weekly_days", "monthly_day", "yearly_date", "interval_cycle"}

NoDate == 0

-----------------------------------------------------------------------------
(* Python's datetime and calendar modules, as the service uses them.       *)

IsLeap(y) == y % 4 = 0 /\ (y % 100 # 0 \/ y % 400 = 0)

MonthLength(y, m) ==                               \* calendar.monthrange(y, m)[1]
  IF m = 2 THEN (IF IsLeap(y) THEN 29 ELSE 28)
           ELSE IF m \in {4, 6, 9, 11} THEN 30 ELSE 31

DaysBeforeYear(y) ==
  365 * (y - 1) + (y - 1) \div 4 - (y - 1) \div 100 + (y - 1) \div 400

DaysBeforeMonth(y, m) ==
  <<0, 31, 59, 90, 120, 151, 181, 212, 243, 273, 304, 334>>[m]
    + (IF m > 2 /\ IsLeap(y) THEN 1 ELSE 0)

Ordinal(y, m, d) == DaysBeforeYear(y) + DaysBeforeMonth(y, m) + d

YearOf(n) ==                                       \* 400 years have 146097 days
  LET least == (400 * n) \div 146097
  IN CHOOSE y \in least..(least + 2) :
       DaysBeforeYear(y) < n /\ n <= DaysBeforeYear(y + 1)

MonthOf(n) ==
  LET y == YearOf(n)
  IN CHOOSE m \in 1..12 :
       Ordinal(y, m, 1) <= n /\ n < Ordinal(y, m, 1) + MonthLength(y, m)

WeekdayOf(n) == (n + 6) % 7                        \* date.weekday(), Monday is 0

-----------------------------------------------------------------------------
(* schedule_config: the shape normalize_schedule_config accepts per type.  *)
(* The empty object of a daily habit is the record [empty |-> TRUE].       *)

ConfigFits(type, cfg) ==
  CASE type = "daily"          -> DOMAIN cfg = {"empty"}
    [] type = "weekly_days"    -> /\ DOMAIN cfg = {"days"}
                                  /\ cfg.days \subseteq 0..6 /\ cfg.days # {}
    [] type = "monthly_day"    -> DOMAIN cfg = {"day"} /\ cfg.day \in 1..31
    [] type = "yearly_date"    -> /\ DOMAIN cfg = {"month", "day"}
                                  /\ cfg.month \in 1..12
                                  /\ cfg.day \in 1..MonthLength(2024, cfg.month)
    [] type = "interval_cycle" -> /\ DOMAIN cfg = {"active", "break"}
                                  /\ cfg.active \in Nat \ {0} /\ cfg.break \in Nat \ {0}

-----------------------------------------------------------------------------
(* Expected dates.                                                          *)

AnchorDate(h) == IF h.starts # NoDate THEN h.starts ELSE h.created

\* Mutant: a day past the month's end runs over into the next month.
MonthlyExpectedDateUnclamped(y, m, day) == Ordinal(y, m, 1) + day - 1

\* The day of the month, moved back to the month's last day when it is shorter.
MonthlyExpectedDate(y, m, day) ==
  Ordinal(y, m, IF day <= MonthLength(y, m) THEN day ELSE MonthLength(y, m))

PreviousMonth(y, m) == IF m = 1 THEN <<y - 1, 12>> ELSE <<y, m - 1>>

\* Mutant: the search starts a day early.
LastWeekdayBefore(days, n) ==
  CHOOSE c \in (n - 7)..(n - 1) :
    WeekdayOf(c) \in days /\ \A e \in (c + 1)..(n - 1) : WeekdayOf(e) \notin days

LastWeekdayUpTo(days, n) ==
  CHOOSE c \in (n - 6)..n :
    WeekdayOf(c) \in days /\ \A e \in (c + 1)..n : WeekdayOf(e) \notin days

\* Mutant: the anchor is counted as the second day of the cycle.
IntervalPhaseOffByOne(cfg, anchor, n) == (n - anchor + 1) % (cfg.active + cfg.break)

IntervalPhase(cfg, anchor, n) == (n - anchor) % (cfg.active + cfg.break)

LatestExpectedDate(type, cfg, ref, anchor) ==
  CASE type = "daily" -> ref
    [] type = "weekly_days" -> LastWeekdayUpTo(cfg.days, ref)
    [] type = "monthly_day" ->
         LET y == YearOf(ref)  m == MonthOf(ref)
             current == MonthlyExpectedDate(y, m, cfg.day)
             prev == PreviousMonth(y, m)
         IN IF current <= ref THEN current
                              ELSE MonthlyExpectedDate(prev[1], prev[2], cfg.day)
    [] type = "interval_cycle" ->
         LET phase == IntervalPhase(cfg, anchor, ref)
         IN IF phase < cfg.active THEN ref ELSE ref - (phase - cfg.active + 1)
    [] OTHER ->
         LET current == MonthlyExpectedDate(YearOf(ref), cfg.month, cfg.day)
         IN IF current <= ref
            THEN current
            ELSE MonthlyExpectedDate(YearOf(ref) - 1, cfg.month, cfg.day)

PreviousExpectedDate(type, cfg, current, anchor) ==
  CASE type = "daily" -> current - 1
    [] type = "weekly_days" -> LastWeekdayUpTo(cfg.days, current - 1)
    [] type = "monthly_day" ->
         LET prev == PreviousMonth(YearOf(current), MonthOf(current))
         IN MonthlyExpectedDate(prev[1], prev[2], cfg.day)
    [] type = "interval_cycle" ->
         IF IntervalPhase(cfg, anchor, current) > 0 THEN current - 1
                                                    ELSE current - (cfg.break + 1)
    [] OTHER -> MonthlyExpectedDate(YearOf(current) - 1, cfg.month, cfg.day)

\* The loop of _streak_interval: walk the expected dates back from the latest
\* one while they are completed and not before the anchor.
Streak(h, completed, ref) ==
  LET anchor == AnchorDate(h)
      expected[n \in 0..Cardinality(completed)] ==
        IF n = 0 THEN LatestExpectedDate(h.type, h.cfg, ref, anchor)
                 ELSE PreviousExpectedDate(h.type, h.cfg, expected[n - 1], anchor)
      stops(n) == expected[n] < anchor \/ expected[n] \notin completed
  IN IF completed = {} \/ ref < anchor THEN 0
     ELSE CHOOSE n \in 0..Cardinality(completed) :
            stops(n) /\ \A k \in 0..(n - 1) : ~stops(k)

-----------------------------------------------------------------------------
(* What the schedule types mean, stated once for all loops that walk them.  *)

\* The habit's schedule names this day.
OccursOn(h, day) ==
  CASE h.type = "daily" -> TRUE
    [] h.type = "weekly_days" -> WeekdayOf(day) \in h.cfg.days
    [] h.type = "interval_cycle" ->
         (day - AnchorDate(h)) % (h.cfg.active + h.cfg.break) < h.cfg.active
    [] OTHER ->
         LET m == MonthOf(day)
             dayOfMonth == day - Ordinal(YearOf(day), m, 1) + 1
             lastOfMonth == MonthLength(YearOf(day), m)
         IN /\ h.type = "yearly_date" => m = h.cfg.month
            /\ \/ dayOfMonth = h.cfg.day
               \/ dayOfMonth = lastOfMonth /\ h.cfg.day > lastOfMonth

-----------------------------------------------------------------------------
(* What is due.                                                             *)

\* Mutant: the rest after a full run is a day short.
IsIntervalCycleDueEarly(h, completed, day) ==
  LET past == {c \in completed : AnchorDate(h) <= c /\ c < day}
      last == CHOOSE c \in past : \A e \in past : e <= c
      fullRun == \A i \in 0..(h.cfg.active - 1) : last - i \in past
  IN IF past = {} THEN TRUE
     ELSE day >= last + (IF fullRun THEN h.cfg.break ELSE 1)

\* An interval habit is due by its completions, not by its phase: after
\* `active` completed days in a row it rests for `break` days.
IsIntervalCycleDue(h, completed, day) ==
  LET anchor == AnchorDate(h)
      past == {c \in completed : anchor <= c /\ c < day}
      last == CHOOSE c \in past : \A e \in past : e <= c
      fullRun == \A i \in 0..(h.cfg.active - 1) : last - i \in past
  IN IF past = {} THEN TRUE
     ELSE day >= last + 1 + (IF fullRun THEN h.cfg.break ELSE 0)

IsHabitDue(h, completed, day, completedToday, respectArchive) ==
  /\ ~(respectArchive /\ h.archived)
  /\ ~completedToday
  /\ day >= AnchorDate(h)
  /\ h.ends # NoDate => day <= h.ends
  /\ CASE h.type = "daily" -> TRUE
       [] h.type = "weekly_days" -> WeekdayOf(day) \in h.cfg.days
       [] h.type = "monthly_day" ->
            day = MonthlyExpectedDate(YearOf(day), MonthOf(day), h.cfg.day)
       [] h.type = "yearly_date" ->
            day = MonthlyExpectedDate(YearOf(day), h.cfg.month, h.cfg.day)
       [] OTHER -> IsIntervalCycleDue(h, completed, day)

-----------------------------------------------------------------------------
(* How much a period asks for, and how much of it is done.                  *)

\* Mutant: the last day of the period is forgotten.
PeriodDatesExclusive(from, to) == from..(to - 1)

\* range((period_end - period_start).days + 1)
PeriodDates(from, to) == from..to

RequiredOccurrences(type, cfg, from, to) ==
  CASE type = "daily" -> Cardinality(PeriodDates(from, to))
    [] type = "weekly_days" -> Cardinality({d \in PeriodDates(from, to) : WeekdayOf(d) \in cfg.days})
    [] type = "monthly_day" ->
         LET index(n) == YearOf(n) * 12 + MonthOf(n) - 1
         IN Cardinality({i \in index(from)..index(to) :
              MonthlyExpectedDate(i \div 12, (i % 12) + 1, cfg.day) \in from..to})
    [] type = "yearly_date" ->
         Cardinality({y \in YearOf(from)..YearOf(to) :
           MonthlyExpectedDate(y, cfg.month, cfg.day) \in from..to})
    [] OTHER ->
         Cardinality({d \in PeriodDates(from, to) :
                        (d - from) % (cfg.active + cfg.break) < cfg.active})

\* Completed and required days of the habit's own window; the percentage shown
\* is 100 * done / required, and 0 when the habit has no end or asks for nothing.
Progress(h, completed, today) ==
  LET from == AnchorDate(h)
      required == IF h.ends = NoDate \/ h.ends < from THEN 0
                  ELSE RequiredOccurrences(h.type, h.cfg, from, h.ends)
      done == Cardinality({c \in completed : from <= c /\ c <= h.ends /\ c <= today})
  IN [required |-> required, done |-> IF done < required THEN done ELSE required]

ShouldBeArchived(h, today) == h.ends # NoDate /\ h.ends < today

=============================================================================
