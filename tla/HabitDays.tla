------------------------------ MODULE HabitDays ------------------------------
(***************************************************************************)
(* One habit and the person who keeps it, day after day: the rules of      *)
(* HabitSchedule driven by the operations of HabitService that follow the  *)
(* calendar (open a page, complete, incomplete), one request at a time.    *)
(*                                                                         *)
(* The routes always act on the current UTC date, so no completion is ever *)
(* back-dated.  Concurrent requests are the subject of HabitRequests.      *)
(***************************************************************************)
EXTENDS HabitSchedule

CONSTANTS
  Habits,      \* the habits a run starts from, with the columns of HabitSchedule
  Gaps,        \* Gaps[type]: how many days may pass between two visits
  MaxVisits    \* bound on the number of visits

\* A habit as create_habit stores it.
ASSUME DaysAssumption ==
  /\ MaxVisits \in Nat \ {0}
  /\ \A h \in Habits :
       /\ h \in [starts : Nat, ends : Nat, created : Nat \ {0}, archived : BOOLEAN,
                 type : ScheduleTypes, cfg : {h.cfg}]
       /\ ConfigFits(h.type, h.cfg)
       /\ h.starts # NoDate /\ h.ends # NoDate => h.starts <= h.ends
       /\ h.archived = ShouldBeArchived(h, h.created)
       /\ Gaps[h.type] \subseteq Nat \ {0}

VARIABLES
  habit,        \* the row of the habits table
  completions,  \* the completed_on dates of its habit_completions
  today,        \* the UTC date
  visits,       \* visits so far, bounded by MaxVisits
  missed        \* history: a day went by on which the habit was due and not done

vars == <<habit, completions, today, visits, missed>>

Init ==
  /\ habit \in Habits
  /\ completions = {}
  /\ today = habit.created
  /\ visits = 1
  /\ missed = FALSE

-----------------------------------------------------------------------------

Expired == ShouldBeArchived(habit, today)

DueOn(day) == IsHabitDue(habit, completions, day, day \in completions, TRUE)

\* list_habits, get_habit or a statistics page: expired habits are archived.
Open ==
  /\ habit' = [habit EXCEPT !.archived = habit.archived \/ Expired]
  /\ UNCHANGED <<completions, today, visits, missed>>

\* Mutant: the completion is filed under the next day's date.
CompleteTomorrow ==
  /\ ~habit.archived /\ ~Expired
  /\ IsHabitDue(habit, completions, today, FALSE, TRUE)
  /\ completions' = completions \cup {today + 1}
  /\ UNCHANGED <<habit, today, visits, missed>>

\* Mutant: the schedule is not consulted.
CompleteAnyDay ==
  /\ ~habit.archived /\ ~Expired
  /\ completions' = completions \cup {today}
  /\ UNCHANGED <<habit, today, visits, missed>>

\* complete_habit: refused, and rolled back, for an archived or expired habit
\* and for a date that is not scheduled; a second completion changes nothing.
Complete ==
  /\ ~habit.archived /\ ~Expired
  /\ IsHabitDue(habit, completions, today, FALSE, TRUE)
  /\ completions' = completions \cup {today}
  /\ UNCHANGED <<habit, today, visits, missed>>

\* incomplete_habit: the same refusals, but the schedule is not consulted.
Incomplete ==
  /\ ~habit.archived /\ ~Expired
  /\ completions' = completions \ {today}
  /\ UNCHANGED <<habit, today, visits, missed>>

\* Midnight, once or several times before the next visit.
DaysPass ==
  /\ visits < MaxVisits
  /\ \E gap \in Gaps[habit.type] :
       /\ today' = today + gap
       /\ missed' = (missed \/ \E day \in today..(today + gap - 1) : DueOn(day))
  /\ visits' = visits + 1
  /\ UNCHANGED <<habit, completions>>

Next == Open \/ Complete \/ Incomplete \/ DaysPass

Spec == Init /\ [][Next]_vars

-----------------------------------------------------------------------------
\* The days of the habit's schedule so far.
Scheduled == {day \in AnchorDate(habit)..today : OccursOn(habit, day)}

LastOf(days) == CHOOSE day \in days : \A other \in days : other <= day

HabitStreak == Streak(habit, completions, today)

-----------------------------------------------------------------------------

TypeOK ==
  /\ habit \in {[h EXCEPT !.archived = a] : h \in Habits, a \in BOOLEAN}
  /\ today \in Nat /\ today >= habit.created
  /\ completions \subseteq habit.created..today
  /\ visits \in 1..MaxVisits
  /\ missed \in BOOLEAN

\* The backward walk of the streak loop visits exactly the scheduled days: the
\* latest expected date is the last scheduled day up to today, and stepping back
\* from any scheduled day reaches the one before it, over month ends and leap
\* days, without skipping one (_latest_expected_date, _previous_expected_date).
WalkVisitsScheduledDays ==
  LET latest == LatestExpectedDate(habit.type, habit.cfg, today, AnchorDate(habit))
      prev(day) == PreviousExpectedDate(habit.type, habit.cfg, day, AnchorDate(habit))
  IN /\ IF Scheduled = {} THEN latest < AnchorDate(habit) ELSE latest = LastOf(Scheduled)
     /\ \A day \in Scheduled :
          LET earlier == {e \in Scheduled : e < day}
          IN IF earlier = {} THEN prev(day) < AnchorDate(habit)
                             ELSE prev(day) = LastOf(earlier)

\* The streak is the number of scheduled days, up to and including today, after
\* the last scheduled day that was not completed (_calculate_streak).
StreakCountsSinceLastMiss ==
  HabitStreak = Cardinality({day \in Scheduled :
                   \A later \in Scheduled : later >= day => later \in completions})

\* The number of days a period asks for, counted month by month, year by year or
\* by phase, is the number of scheduled days in it (_required_occurrences_in_period).
RequiredCountsScheduledDays ==
  RequiredOccurrences(habit.type, habit.cfg, AnchorDate(habit), today)
    = Cardinality(Scheduled)

\* The due rule and the streak rule are written twice in the code; for the four
\* calendar types they name the same days: inside the window, a day not yet done
\* is due exactly when it is its own latest expected date (_is_habit_due_today).
DueAgreesWithStreakWalk ==
  habit.type # "interval_cycle" /\ ~habit.archived /\ ~Expired /\ today >= AnchorDate(habit)
    => (IsHabitDue(habit, completions, today, FALSE, TRUE)
          <=> LatestExpectedDate(habit.type, habit.cfg, today, AnchorDate(habit)) = today)

\* Whoever does every due day since a habit began keeps every completion in the
\* streak, rest days and month ends included, whatever was undone and redone.
FaithfulHistoryIsOneStreak ==
  ~missed /\ ~DueOn(today) /\ ~Expired /\ ~habit.archived /\ habit.created <= AnchorDate(habit)
    => HabitStreak = Cardinality(completions)

\* Every completion counts in the progress shown: the cap of
\* _calculate_progress_percent is never what limits it, because who keeps a habit
\* with the routes alone never does more than its window asks for.  Only an interval
\* habit that rests for more than a day can be done more often: the rest comes after
\* a full run, and who leaves out a day of each run does not rest; then it is what
\* the window would ask for with rests of one day.
ProgressCountsEveryCompletion ==
  LET asked == IF habit.type = "interval_cycle" THEN [habit EXCEPT !.cfg.break = 1] ELSE habit
  IN habit.ends # NoDate => Progress(asked, completions, today).done = Cardinality(completions)

\* A completion that complete_habit accepts for today is part of the current
\* streak it returns.
CompletionCountsInStreak ==
  [][completions' # completions /\ today \in completions' => HabitStreak' >= 1]_vars

-----------------------------------------------------------------------------
(* The inductive invariant.                                                 *)

\* The rules, as they read the completions of today, ask for this day and it is
\* not done; an archived habit is judged like an active one.
Undone(day) == IsHabitDue(habit, completions, day, day \in completions, FALSE)

\* A habit is archived only when its last day is over.
ArchivedIsOver == habit.archived => Expired

\* Each completion was due when it was made: the rules ask for it still, given
\* the completions before it.
CompletionsWereDue ==
  \A day \in completions : IsHabitDue(habit, completions, day, FALSE, FALSE)

\* A day went by undone exactly when the past, read again today, has one.
MissedIsUndone ==
  missed <=> \E day \in habit.created..(today - 1) : Undone(day)

IInv ==
  /\ TypeOK
  /\ ArchivedIsOver
  /\ CompletionsWereDue
  /\ MissedIsUndone

=============================================================================
