--------------------------- MODULE HabitDaysProofs ---------------------------
(***************************************************************************)
(* Proofs about HabitDays and HabitStatistics, for every habit the service *)
(* can store, any dates and any number of visits, any days apart.          *)
(***************************************************************************)
EXTENDS HabitStatistics, HabitScheduleProofs

-----------------------------------------------------------------------------
(* Types.                                                                   *)

Rows == [starts : Nat, ends : Nat, created : Nat \ {0}, archived : BOOLEAN,
         type : ScheduleTypes, cfg : {habit.cfg}]

\* What the assumption on Habits says of the habit, archived since or not.
LEMMA RowTypes ==
  ASSUME TypeOK
  PROVE  /\ habit \in Rows
         /\ IsRow(habit) /\ AnchorDate(habit) \in Nat
         /\ habit.ends # NoDate => habit.starts <= habit.ends
         /\ Gaps[habit.type] \subseteq Nat \ {0}
         /\ completions \in SUBSET Int /\ today \in Nat
<1>1. PICK h \in Habits, a \in BOOLEAN : habit = [h EXCEPT !.archived = a]
  BY DEF TypeOK
<1>2. /\ h \in [starts : Nat, ends : Nat, created : Nat \ {0}, archived : BOOLEAN,
                type : ScheduleTypes, cfg : {h.cfg}]
      /\ ConfigFits(h.type, h.cfg)
      /\ h.starts # NoDate /\ h.ends # NoDate => h.starts <= h.ends
      /\ Gaps[h.type] \subseteq Nat \ {0}
  BY DaysAssumption
<1>3. /\ habit \in Rows /\ habit.type = h.type /\ habit.cfg = h.cfg
      /\ habit.starts = h.starts /\ habit.ends = h.ends
  BY <1>1, <1>2 DEF Rows
<1>4. AnchorDate(habit) \in Nat
  BY <1>3 DEF AnchorDate, Rows
<1>5. IsRow(habit)
  BY <1>2, <1>3, <1>4 DEF IsRow, Rows
<1>6. habit.ends # NoDate => habit.starts <= habit.ends
  BY <1>2, <1>3 DEF NoDate, Rows
<1>7. completions \in SUBSET Int /\ today \in Nat
  BY <1>3 DEF TypeOK, Rows
<1> QED BY <1>2, <1>3, <1>4, <1>5, <1>6, <1>7

\* The due rule of an interval habit, by what it reads of the habit and the past.
Past(anchor, completed, day) == {c \in completed : anchor <= c /\ c < day}

DueAfter(past, cfg, day) ==
  LET last == CHOOSE c \in past : \A e \in past : e <= c
      fullRun == \A i \in 0..(cfg.active - 1) : last - i \in past
  IN IF past = {} THEN TRUE ELSE day >= last + 1 + (IF fullRun THEN cfg.break ELSE 0)

\* The due rule reads nothing else.
LEMMA DueByPast ==
  ASSUME NEW h, NEW completed, NEW day
  PROVE  IsIntervalCycleDue(h, completed, day)
           <=> DueAfter(Past(AnchorDate(h), completed, day), h.cfg, day)
BY Zenon DEF IsIntervalCycleDue, DueAfter, Past

\* Only completions before a day tell whether it is due.
LEMMA DueByThePast ==
  ASSUME NEW h, NEW day, NEW before, NEW after, \A c : c < day => (c \in before <=> c \in after)
  PROVE  \A done, respect : IsHabitDue(h, before, day, done, respect)
                              <=> IsHabitDue(h, after, day, done, respect)
<1>1. Past(AnchorDate(h), before, day) = Past(AnchorDate(h), after, day)
  BY Zenon DEF Past
<1>2. IsIntervalCycleDue(h, before, day) <=> IsIntervalCycleDue(h, after, day)
  BY <1>1, DueByPast
<1> QED BY <1>2, ZenonT(30) DEF IsHabitDue

\* The rule without the two switches it is called with.
LEMMA DueSwitches ==
  ASSUME NEW h, NEW completed, NEW day, NEW done, NEW respect
  PROVE  IsHabitDue(h, completed, day, done, respect)
           <=> /\ ~(respect /\ h.archived) /\ ~done
               /\ IsHabitDue(h, completed, day, FALSE, FALSE)
BY ZenonT(30) DEF IsHabitDue

\* What an archiving leaves alone.
LEMMA SameRow ==
  ASSUME TypeOK, habit' = [habit EXCEPT !.archived = habit.archived \/ Expired]
  PROVE  /\ habit'.starts = habit.starts /\ habit'.ends = habit.ends
         /\ habit'.created = habit.created
         /\ habit'.type = habit.type /\ habit'.cfg = habit.cfg
         /\ habit'.archived <=> habit.archived \/ Expired
         /\ AnchorDate(habit') = AnchorDate(habit)
         /\ \A c, day, done : IsHabitDue(habit', c, day, done, FALSE)
                                <=> IsHabitDue(habit, c, day, done, FALSE)
<1>1. habit \in Rows
  BY RowTypes
<1>2. /\ habit'.starts = habit.starts /\ habit'.ends = habit.ends
      /\ habit'.created = habit.created
      /\ habit'.type = habit.type /\ habit'.cfg = habit.cfg
      /\ habit'.archived <=> habit.archived \/ Expired
  BY <1>1, ZenonT(30) DEF Rows
<1>3. AnchorDate(habit') = AnchorDate(habit)
  BY <1>2 DEF AnchorDate
<1>4. ASSUME NEW c, NEW day, NEW done
      PROVE  IsHabitDue(habit', c, day, done, FALSE) <=> IsHabitDue(habit, c, day, done, FALSE)
  <2>1. IsIntervalCycleDue(habit', c, day) <=> IsIntervalCycleDue(habit, c, day)
    BY <1>2, <1>3, DueByPast
  <2> QED BY <1>2, <1>3, <2>1, ZenonT(30) DEF IsHabitDue
<1> QED BY <1>2, <1>3, <1>4

\* A habit is stored well typed.
LEMMA TypeInit == Init => TypeOK
<1> SUFFICES ASSUME Init PROVE TypeOK
  OBVIOUS
<1>1. /\ habit \in Habits
      /\ habit \in [starts : Nat, ends : Nat, created : Nat \ {0}, archived : BOOLEAN,
                    type : ScheduleTypes, cfg : {habit.cfg}]
  BY DaysAssumption DEF Init
<1>2. habit.created \in Nat /\ habit.archived \in BOOLEAN
  BY <1>1
<1>3. habit = [habit EXCEPT !.archived = habit.archived]
  BY <1>1
<1>4. habit \in {[h EXCEPT !.archived = a] : h \in Habits, a \in BOOLEAN}
  BY <1>1, <1>2, <1>3
<1>5. today \in Nat /\ today >= habit.created
  BY <1>2 DEF Init
<1>6. completions \subseteq habit.created..today /\ missed \in BOOLEAN
  BY DEF Init
<1>7. visits \in 1..MaxVisits
  BY DaysAssumption DEF Init
<1> QED BY <1>4, <1>5, <1>6, <1>7 DEF TypeOK

\* Every step keeps the types.
LEMMA TypeStep == TypeOK /\ [Next]_vars => TypeOK'
<1> SUFFICES ASSUME TypeOK, [Next]_vars PROVE TypeOK'
  OBVIOUS
<1>1. habit.created \in Nat /\ habit.archived \in BOOLEAN /\ Gaps[habit.type] \subseteq Nat \ {0}
  BY RowTypes DEF Rows
<1>2. CASE Open
  <2>1. habit' \in {[h EXCEPT !.archived = a] : h \in Habits, a \in BOOLEAN}
    <3>1. PICK h \in Habits, a \in BOOLEAN : habit = [h EXCEPT !.archived = a]
      BY DEF TypeOK
    <3>2. Expired \in BOOLEAN
      BY DEF Expired, ShouldBeArchived
    <3> DEFINE b == habit.archived \/ Expired
    <3>3. habit' = [h EXCEPT !.archived = b] /\ b \in BOOLEAN
      BY <1>1, <1>2, <3>1, <3>2 DEF Open
    <3> HIDE DEF b
    <3> QED BY <3>3
  <2>2. habit'.created = habit.created
    BY <1>2, SameRow DEF Open
  <2>3. /\ today' = today /\ completions' = completions /\ visits' = visits /\ missed' = missed
    BY <1>2 DEF Open
  <2> QED BY <2>1, <2>2, <2>3 DEF TypeOK
<1>3. CASE Complete
  BY <1>1, <1>3 DEF TypeOK, Complete
<1>4. CASE Incomplete
  BY <1>4 DEF TypeOK, Incomplete
<1>5. CASE DaysPass
  <2>1. PICK gap \in Gaps[habit.type] :
          /\ today' = today + gap
          /\ missed' = (missed \/ \E day \in today..(today + gap - 1) : DueOn(day))
    BY <1>5 DEF DaysPass
  <2>2. today' \in Nat /\ today' >= today
    BY <1>1, <2>1 DEF TypeOK
  <2>3. visits' \in 1..MaxVisits
    BY <1>5, DaysAssumption DEF DaysPass, TypeOK
  <2>4. completions' \subseteq habit'.created..today'
    BY <1>1, <1>5, <2>2 DEF DaysPass, TypeOK
  <2>5. missed' \in BOOLEAN
    BY <2>1
  <2> QED BY <1>1, <1>5, <2>2, <2>3, <2>4, <2>5 DEF DaysPass, TypeOK
<1>6. CASE UNCHANGED vars
  BY <1>6 DEF vars, TypeOK
<1> QED BY <1>2, <1>3, <1>4, <1>5, <1>6 DEF Next

\* Every state has the types of its variables: no completion lies before the habit
\* was created or after today.
THEOREM TypeCorrect == Spec => []TypeOK
BY TypeInit, TypeStep, PTL DEF Spec

-----------------------------------------------------------------------------
(* The inductive invariant.                                                 *)

\* From today on the switch for archived habits makes no difference.
LEMMA DueFromToday ==
  ASSUME TypeOK, ArchivedIsOver, NEW day \in Int, today <= day
  PROVE  DueOn(day) <=> Undone(day)
<1>1. habit.archived /\ Undone(day) => FALSE
  <2> SUFFICES ASSUME habit.archived, Undone(day) PROVE FALSE
    OBVIOUS
  <2>1. habit.ends # NoDate /\ habit.ends < today
    BY DEF ArchivedIsOver, Expired, ShouldBeArchived
  <2>2. day <= habit.ends
    BY <2>1 DEF Undone, IsHabitDue
  <2>3. habit.ends \in Nat /\ today \in Nat
    BY RowTypes DEF Rows
  <2> QED BY <2>1, <2>2, <2>3
<1>2. DueOn(day) <=> ~habit.archived /\ Undone(day)
  BY DueSwitches, Zenon DEF DueOn, Undone
<1> QED BY <1>1, <1>2

\* A habit without completions has missed nothing.
LEMMA InitInv == Init => IInv
<1> SUFFICES ASSUME Init PROVE IInv
  OBVIOUS
<1>1. TypeOK
  BY TypeInit
<1>2. ArchivedIsOver
  BY DaysAssumption DEF Init, ArchivedIsOver, Expired
<1>3. CompletionsWereDue
  BY DEF Init, CompletionsWereDue
<1>4. MissedIsUndone
  <2>1. habit.created \in Nat /\ today = habit.created
    BY RowTypes, <1>1 DEF Rows, Init
  <2>2. habit.created..(today - 1) = {}
    BY <2>1
  <2> QED BY <2>2 DEF Init, MissedIsUndone
<1> QED BY <1>1, <1>2, <1>3, <1>4 DEF IInv

\* Only the row may change, and only to be archived.
LEMMA OpenInv ==
  ASSUME IInv, Open
  PROVE  ArchivedIsOver' /\ CompletionsWereDue' /\ MissedIsUndone'
<1>. TypeOK /\ ArchivedIsOver /\ CompletionsWereDue /\ MissedIsUndone
  BY DEF IInv
<1>1. /\ habit'.ends = habit.ends /\ habit'.created = habit.created
      /\ habit'.archived <=> habit.archived \/ Expired
      /\ \A c, day, done : IsHabitDue(habit', c, day, done, FALSE)
                             <=> IsHabitDue(habit, c, day, done, FALSE)
  BY SameRow DEF Open
<1>2. today' = today /\ completions' = completions /\ missed' = missed
  BY DEF Open
<1>3. ArchivedIsOver'
  BY <1>1, <1>2 DEF ArchivedIsOver, Expired, ShouldBeArchived
<1>4. CompletionsWereDue'
  BY <1>1, <1>2 DEF CompletionsWereDue
<1>5. MissedIsUndone'
  BY <1>1, <1>2 DEF MissedIsUndone, Undone
<1> QED BY <1>3, <1>4, <1>5

\* Only the completion of today may come or go.
LEMMA CompletionInv ==
  ASSUME IInv, Complete \/ Incomplete
  PROVE  ArchivedIsOver' /\ CompletionsWereDue' /\ MissedIsUndone'
<1>. TypeOK /\ ArchivedIsOver /\ CompletionsWereDue /\ MissedIsUndone
  BY DEF IInv
<1>1. habit' = habit /\ today' = today /\ missed' = missed
  BY DEF Complete, Incomplete
<1>2. /\ \A c : c # today => (c \in completions' <=> c \in completions)
      /\ today \in completions' => \/ today \in completions
                                   \/ IsHabitDue(habit, completions, today, FALSE, TRUE)
  BY Zenon DEF Complete, Incomplete
<1>3. today \in Int /\ habit.created \in Int /\ completions \in SUBSET Int
  BY RowTypes DEF Rows
<1>4. \A c \in completions : c <= today
  BY <1>3 DEF TypeOK
<1>5. \A day \in Int : day <= today =>
        \A done : IsHabitDue(habit, completions', day, done, FALSE)
                    <=> IsHabitDue(habit, completions, day, done, FALSE)
  <2> SUFFICES ASSUME NEW day \in Int, day <= today
               PROVE  \A done : IsHabitDue(habit, completions', day, done, FALSE)
                                  <=> IsHabitDue(habit, completions, day, done, FALSE)
    OBVIOUS
  <2>1. ~(today < day)
    BY <1>3
  <2>2. \A c : c < day => c # today
    BY <1>3
  <2>3. \A c : c < day => (c \in completions' <=> c \in completions)
    BY <1>2, <2>2
  <2> QED BY <2>3, DueByThePast
<1>6. ArchivedIsOver'
  BY <1>1 DEF ArchivedIsOver, Expired
<1>7. CompletionsWereDue'
  <2> SUFFICES ASSUME NEW day \in completions'
               PROVE  IsHabitDue(habit, completions', day, FALSE, FALSE)
    BY <1>1 DEF CompletionsWereDue
  <2>1. IsHabitDue(habit, completions, day, FALSE, FALSE)
    <3>1. CASE day \in completions
      BY <3>1 DEF CompletionsWereDue
    <3>2. CASE day \notin completions
      BY <1>2, <3>2, DueSwitches
    <3> QED BY <3>1, <3>2
  <2>2. day \in Int /\ day <= today
    <3>1. CASE day = today
      BY <1>3, <3>1
    <3>2. CASE day # today
      BY <1>2, <1>3, <1>4, <3>2
    <3> QED BY <3>1, <3>2
  <2> QED BY <1>5, <2>1, <2>2
<1>8. MissedIsUndone'
  <2> SUFFICES ASSUME NEW day \in habit.created..(today - 1)
               PROVE  Undone(day)' <=> Undone(day)
    BY <1>1 DEF MissedIsUndone
  <2>1. day \in Int /\ day <= today /\ day # today
    BY <1>3
  <2>2. day \in completions' <=> day \in completions
    BY <1>2, <2>1
  <2>3. IsHabitDue(habit, completions', day, day \in completions, FALSE)
          <=> IsHabitDue(habit, completions, day, day \in completions, FALSE)
    BY <1>5, <2>1
  <2>4. (day \in completions') = (day \in completions)
    BY <2>2
  <2> QED BY <1>1, <2>3, <2>4, Zenon DEF Undone
<1> QED BY <1>6, <1>7, <1>8

\* Only time goes on.
LEMMA DaysPassInv ==
  ASSUME IInv, DaysPass
  PROVE  ArchivedIsOver' /\ CompletionsWereDue' /\ MissedIsUndone'
<1>. TypeOK /\ ArchivedIsOver /\ CompletionsWereDue /\ MissedIsUndone
  BY DEF IInv
<1>1. habit' = habit /\ completions' = completions
  BY DEF DaysPass
<1>2. PICK gap \in Gaps[habit.type] :
        /\ today' = today + gap
        /\ missed' = (missed \/ \E day \in today..(today + gap - 1) : DueOn(day))
  BY DEF DaysPass
<1>3. today \in Int /\ habit.created \in Int /\ habit.ends \in Int /\ gap \in Nat \ {0}
  BY RowTypes DEF Rows
<1>4. today' \in Int /\ today < today' /\ habit.created <= today
  BY <1>2, <1>3 DEF TypeOK
<1>5. ArchivedIsOver'
  BY <1>1, <1>3, <1>4 DEF ArchivedIsOver, Expired, ShouldBeArchived
<1>6. CompletionsWereDue'
  BY <1>1 DEF CompletionsWereDue
<1>7. MissedIsUndone'
  <2>1. \A day : Undone(day)' <=> Undone(day)
    BY <1>1 DEF Undone
  <2>2. today + gap - 1 = today' - 1
    BY <1>2, <1>3
  <2>3. \A day \in today..(today' - 1) : DueOn(day) <=> Undone(day)
    BY <1>3, DueFromToday
  <2>4. missed' <=> missed \/ \E day \in today..(today' - 1) : Undone(day)
    BY <1>2, <2>2, <2>3
  <2>5. habit.created..(today' - 1) = (habit.created..(today - 1)) \cup (today..(today' - 1))
    BY <1>3, <1>4
  <2>6. missed' <=> \E day \in habit.created..(today' - 1) : Undone(day)
    BY <2>4, <2>5 DEF MissedIsUndone
  <2> QED BY <1>1, <2>1, <2>6 DEF MissedIsUndone
<1> QED BY <1>5, <1>6, <1>7

\* Every step keeps the invariant.
LEMMA NextInv == IInv /\ [Next]_vars => IInv'
<1> SUFFICES ASSUME IInv, [Next]_vars PROVE IInv'
  OBVIOUS
<1>1. TypeOK'
  BY TypeStep DEF IInv
<1>2. CASE Open
  BY <1>1, <1>2, OpenInv DEF IInv
<1>3. CASE Complete \/ Incomplete
  BY <1>1, <1>3, CompletionInv DEF IInv
<1>4. CASE DaysPass
  BY <1>1, <1>4, DaysPassInv DEF IInv
<1>5. CASE UNCHANGED vars
  <2>1. ArchivedIsOver' /\ CompletionsWereDue' /\ MissedIsUndone'
    BY <1>5 DEF IInv, vars, ArchivedIsOver, Expired, CompletionsWereDue, MissedIsUndone, Undone
  <2> QED BY <1>1, <2>1 DEF IInv
<1> QED BY <1>2, <1>3, <1>4, <1>5 DEF Next

\* A habit is archived only when it is over, every completion was due when it was
\* made, and what was missed can be read off the completions.
THEOREM Invariant == Spec => []IInv
BY InitInv, NextInv, PTL DEF Spec
-----------------------------------------------------------------------------
(* The calendar: walks, counts and due days.                                *)

\* There are finitely many completions.
LEMMA CompletionsFinite ==
  ASSUME TypeOK
  PROVE  IsFiniteSet(completions)
<1>1. habit.created \in Int /\ today \in Int
  BY RowTypes DEF Rows
<1>2. IsFiniteSet(habit.created..today)
  BY <1>1, FS_Interval
<1>3. completions \in SUBSET (habit.created..today)
  BY DEF TypeOK
<1> QED BY <1>2, <1>3, FS_Subset

\* The last day of the schedule up to ref, when ref is not in the future.
LEMMA LastAmong ==
  ASSUME TypeOK, NEW ref \in Int, ref <= today, NEW last, IsLastUpTo(habit, last, ref),
         NEW S, S = {day \in Scheduled : day <= ref}
  PROVE  IF S = {} THEN last < AnchorDate(habit) ELSE last = LastOf(S)
<1>1. today \in Int /\ AnchorDate(habit) \in Int /\ last \in Int /\ last <= ref
  BY RowTypes DEF IsLastUpTo
<1>2. \A day \in S : /\ day \in Int /\ AnchorDate(habit) <= day /\ day <= ref
                     /\ OccursOn(habit, day)
  BY <1>1 DEF Scheduled
<1>3. \A day \in S : day <= last
  <2> SUFFICES ASSUME NEW day \in S, ~(day <= last) PROVE FALSE
    OBVIOUS
  <2>1. day \in (last + 1)..ref
    BY <1>1, <1>2
  <2> QED BY <1>2, <2>1 DEF IsLastUpTo
<1>4. AnchorDate(habit) <= last => last \in S
  <2> SUFFICES ASSUME AnchorDate(habit) <= last PROVE last \in S
    OBVIOUS
  <2>1. last \in AnchorDate(habit)..today
    BY <1>1
  <2> QED BY <1>1, <2>1 DEF IsLastUpTo, Scheduled
<1>5. CASE S = {}
  BY <1>1, <1>4, <1>5
<1>6. CASE S # {}
  <2>1. PICK day \in S : TRUE
    BY <1>6
  <2>2. last \in S
    BY <1>1, <1>2, <1>3, <1>4, <2>1
  <2>3. \A other \in S : (\A e \in S : e <= other) => other = last
    BY <1>1, <1>2, <1>3, <2>2
  <2> HIDE DEF Scheduled
  <2>4. LastOf(S) = last
    BY <1>3, <2>2, <2>3 DEF LastOf
  <2> QED BY <1>6, <2>4
<1> QED BY <1>5, <1>6

\* The walk of the streak loop visits exactly the scheduled days
\* (_latest_expected_date, _previous_expected_date).
THEOREM WalkCorrect == Spec => []WalkVisitsScheduledDays
<1>1. TypeOK => WalkVisitsScheduledDays
  <2> SUFFICES ASSUME TypeOK PROVE WalkVisitsScheduledDays
    OBVIOUS
  <2>1. IsRow(habit) /\ today \in Int /\ AnchorDate(habit) \in Int
    BY RowTypes
  <2>2. \A day \in Scheduled : day \in Int /\ day <= today /\ OccursOn(habit, day)
    BY <2>1 DEF Scheduled
  <2>3. IF Scheduled = {} THEN Latest(habit, today) < AnchorDate(habit)
                          ELSE Latest(habit, today) = LastOf(Scheduled)
    <3>1. Scheduled = {day \in Scheduled : day <= today}
      BY <2>2
    <3>2. IsLastUpTo(habit, Latest(habit, today), today) /\ today <= today
      BY <2>1, LatestIsLast
    <3> QED BY <2>1, <3>1, <3>2, LastAmong
  <2>4. ASSUME NEW day \in Scheduled
        PROVE  LET earlier == {e \in Scheduled : e < day}
               IN IF earlier = {} THEN Previous(habit, day) < AnchorDate(habit)
                                  ELSE Previous(habit, day) = LastOf(earlier)
    <3> DEFINE earlier == {e \in Scheduled : e < day}
    <3>1. earlier = {e \in Scheduled : e <= day - 1}
      BY <2>2
    <3>2. IsLastUpTo(habit, Previous(habit, day), day - 1)
      BY <2>1, <2>2, PreviousIsLast
    <3>3. day - 1 \in Int /\ day - 1 <= today
      BY <2>1, <2>2
    <3> HIDE DEF earlier
    <3>4. IF earlier = {} THEN Previous(habit, day) < AnchorDate(habit)
                          ELSE Previous(habit, day) = LastOf(earlier)
      BY <3>1, <3>2, <3>3, LastAmong
    <3> QED BY <3>4 DEF earlier
  <2> QED BY <2>3, <2>4 DEF WalkVisitsScheduledDays, Latest, Previous
<1> QED BY <1>1, TypeCorrect, PTL

\* The streak is the run of scheduled days since the last one not done
\* (_calculate_streak).
THEOREM StreakCorrect == Spec => []StreakCountsSinceLastMiss
<1>1. TypeOK => StreakCountsSinceLastMiss
  <2> SUFFICES ASSUME TypeOK PROVE StreakCountsSinceLastMiss
    OBVIOUS
  <2>1. HabitStreak = Cardinality(SinceLastMiss(habit, completions, today))
    BY RowTypes, CompletionsFinite, StreakIsRun DEF HabitStreak
  <2> DEFINE D == {day \in Scheduled : \A later \in Scheduled : later >= day => later \in completions}
  <2>2. SinceLastMiss(habit, completions, today) = D
    BY Zenon DEF SinceLastMiss, ScheduledTo, Scheduled
  <2>3. HabitStreak = Cardinality(D)
    <3> HIDE DEF D
    <3> QED BY <2>1, <2>2
  <2> QED BY <2>3 DEF StreakCountsSinceLastMiss
<1> QED BY <1>1, TypeCorrect, PTL

\* What a period asks for, counted by months, years or phases, is its scheduled
\* days (_required_occurrences_in_period).
THEOREM RequiredCorrect == Spec => []RequiredCountsScheduledDays
<1>1. TypeOK => RequiredCountsScheduledDays
  <2> SUFFICES ASSUME TypeOK PROVE RequiredCountsScheduledDays
    OBVIOUS
  <2>1. IsRow(habit) /\ AnchorDate(habit) \in Int /\ today \in Int
    BY RowTypes
  <2> DEFINE D == {day \in AnchorDate(habit)..today : OccursOn(habit, day)}
  <2>2. RequiredOccurrences(habit.type, habit.cfg, AnchorDate(habit), today) = Cardinality(D)
    BY <2>1, RequiredIsScheduled
  <2>3. D = Scheduled
    BY DEF Scheduled
  <2> HIDE DEF D
  <2> QED BY <2>2, <2>3 DEF RequiredCountsScheduledDays
<1> QED BY <1>1, TypeCorrect, PTL

\* For the calendar types the due rule and the streak walk name the same days
\* (_is_habit_due_today, _latest_expected_date).
THEOREM DueRulesAgree == Spec => []DueAgreesWithStreakWalk
<1>1. TypeOK => DueAgreesWithStreakWalk
  <2> SUFFICES ASSUME TypeOK, habit.type # "interval_cycle", ~habit.archived, ~Expired,
                      today >= AnchorDate(habit)
               PROVE  IsHabitDue(habit, completions, today, FALSE, TRUE)
                        <=> Latest(habit, today) = today
    BY DEF DueAgreesWithStreakWalk, Latest
  <2>1. IsRow(habit) /\ today \in Int /\ habit.ends \in Int
    BY RowTypes DEF Rows
  <2>2. habit.ends # NoDate => today <= habit.ends
    BY <2>1 DEF Expired, ShouldBeArchived
  <2>3. IsHabitDue(habit, completions, today, FALSE, TRUE) <=> OccursOn(habit, today)
    BY <2>1, <2>2, CalendarDue
  <2>4. IsLastUpTo(habit, Latest(habit, today), today)
    BY <2>1, LatestIsLast
  <2>5. ASSUME OccursOn(habit, today) PROVE Latest(habit, today) = today
    <3> DEFINE last == Latest(habit, today)
    <3> HIDE DEF last
    <3>1. last \in Int /\ last <= today /\ \A e \in (last + 1)..today : ~OccursOn(habit, e)
      BY <2>4 DEF IsLastUpTo, last
    <3>2. today \notin (last + 1)..today
      BY <2>5, <3>1
    <3>3. last = today
      BY <2>1, <3>1, <3>2
    <3> QED BY <3>3 DEF last
  <2>6. Latest(habit, today) = today => OccursOn(habit, today)
    BY <2>4 DEF IsLastUpTo
  <2> QED BY <2>3, <2>5, <2>6
<1> QED BY <1>1, TypeCorrect, PTL

\* A completion that complete_habit accepts for a habit of a calendar type is part
\* of the streak it returns; for interval habits that is not so.
THEOREM CalendarCompletionsCount ==
  Spec => [][habit.type # "interval_cycle" /\ completions' # completions /\ today \in completions'
               => HabitStreak' >= 1]_vars
<1>1. IInv /\ Next =>
        (habit.type # "interval_cycle" /\ completions' # completions /\ today \in completions'
           => HabitStreak' >= 1)
  <2> SUFFICES ASSUME IInv, Next, habit.type # "interval_cycle",
                      completions' # completions, today \in completions'
               PROVE  HabitStreak' >= 1
    OBVIOUS
  <2>1. Complete
    BY DEF Next, Open, DaysPass, Complete, Incomplete
  <2>2. TypeOK /\ IsRow(habit) /\ AnchorDate(habit) \in Int /\ today \in Int
    BY RowTypes DEF IInv
  <2>3. habit' = habit /\ today' = today
    BY <2>1 DEF Complete
  <2>4. completions' \in SUBSET Int /\ IsFiniteSet(completions')
    <3>1. completions' = completions \cup {today}
      BY <2>1 DEF Complete
    <3>2. IsFiniteSet(completions) /\ completions \in SUBSET Int
      BY <2>2, CompletionsFinite, RowTypes
    <3> QED BY <2>2, <3>1, <3>2, FS_AddElement
  <2>5. HabitStreak' = Cardinality(SinceLastMiss(habit, completions', today))
    BY <2>2, <2>3, <2>4, StreakIsRun DEF HabitStreak
  <2>6. OccursOn(habit, today) /\ today >= AnchorDate(habit)
    <3>1. IsHabitDue(habit, completions, today, FALSE, TRUE)
      BY <2>1 DEF Complete
    <3> QED BY <2>2, <3>1, CalendarDue
  <2> DEFINE run == SinceLastMiss(habit, completions', today)
  <2>7. today \in run
    <3>1. today \in ScheduledTo(habit, today)
      BY <2>2, <2>6 DEF ScheduledTo
    <3>2. \A later \in ScheduledTo(habit, today) : later >= today => later = today
      BY <2>2 DEF ScheduledTo
    <3> QED BY <3>1, <3>2 DEF SinceLastMiss
  <2>8. IsFiniteSet(run)
    <3>1. IsFiniteSet(AnchorDate(habit)..today)
      BY <2>2, FS_Interval
    <3>2. run \in SUBSET (AnchorDate(habit)..today)
      BY DEF SinceLastMiss, ScheduledTo
    <3> QED BY <3>1, <3>2, FS_Subset
  <2> HIDE DEF run
  <2>9. Cardinality(run) \in Nat /\ Cardinality(run) # 0
    BY <2>7, <2>8, FS_CardinalityType, FS_EmptySet
  <2> QED BY <2>5, <2>9 DEF run
<1>2. IInv /\ [Next]_vars =>
        [habit.type # "interval_cycle" /\ completions' # completions /\ today \in completions'
           => HabitStreak' >= 1]_vars
  BY <1>1
<1> QED BY <1>2, Invariant, PTL DEF Spec
-----------------------------------------------------------------------------
(* What the completions amount to.                                          *)

\* A completion lies in the window, on a day the rules asked for.
LEMMA CompletionFacts ==
  ASSUME IInv, NEW c \in completions
  PROVE  /\ c \in Int /\ AnchorDate(habit) <= c /\ c <= today
         /\ habit.ends # NoDate => c <= habit.ends
         /\ habit.type # "interval_cycle" => OccursOn(habit, c)
         /\ habit.type = "interval_cycle" => IsIntervalCycleDue(habit, completions, c)
<1>1. TypeOK /\ IsRow(habit) /\ AnchorDate(habit) \in Int /\ today \in Int
      /\ habit.created \in Int /\ completions \in SUBSET Int
  BY RowTypes DEF IInv, Rows
<1>2. c \in Int /\ c <= today
  BY <1>1 DEF TypeOK
<1>3. IsHabitDue(habit, completions, c, FALSE, FALSE)
  BY DEF IInv, CompletionsWereDue
<1>4. AnchorDate(habit) <= c /\ (habit.ends # NoDate => c <= habit.ends)
  BY <1>1, <1>2, <1>3 DEF IsHabitDue
<1>5. habit.type # "interval_cycle" => OccursOn(habit, c)
  BY <1>1, <1>2, <1>3, CalendarDue
<1>6. habit.type = "interval_cycle" => IsIntervalCycleDue(habit, completions, c)
  BY <1>2, <1>3, IntervalDue
<1> QED BY <1>2, <1>4, <1>5, <1>6

\* The cycle of a habit that rests for one day.
LEMMA ShortRest ==
  ASSUME TypeOK, habit.type = "interval_cycle"
  PROVE  LET asked == [habit EXCEPT !.cfg.break = 1]
         IN /\ asked.type = habit.type /\ asked.ends = habit.ends
            /\ AnchorDate(asked) = AnchorDate(habit)
            /\ asked.cfg.active = habit.cfg.active /\ asked.cfg.break = 1
<1> DEFINE asked == [habit EXCEPT !.cfg.break = 1]
           cfg == [habit.cfg EXCEPT !.break = 1]
<1>1. habit \in Rows /\ DOMAIN habit.cfg = {"active", "break"}
  BY RowTypes DEF IsRow, ConfigFits
<1>2. cfg.active = habit.cfg.active /\ cfg.break = 1
  BY <1>1
<1>3. asked = [habit EXCEPT !.cfg = cfg]
  OBVIOUS
<1> HIDE DEF cfg
<1>4. /\ asked.type = habit.type /\ asked.ends = habit.ends /\ asked.cfg = cfg
      /\ asked.starts = habit.starts /\ asked.created = habit.created
  BY <1>1, <1>3 DEF Rows
<1> HIDE DEF asked
<1>5. AnchorDate(asked) = AnchorDate(habit)
  BY <1>4 DEF AnchorDate
<1> QED BY <1>2, <1>4, <1>5 DEF asked

\* Every completion counts in the progress: who keeps a habit with the routes alone
\* never does more than its window asks for, an interval habit counted with rests
\* of one day (_calculate_progress_percent).
THEOREM ProgressCorrect == Spec => []ProgressCountsEveryCompletion
<1>1. IInv => ProgressCountsEveryCompletion
  <2> DEFINE asked == IF habit.type = "interval_cycle" THEN [habit EXCEPT !.cfg.break = 1]
                                                       ELSE habit
             from == AnchorDate(habit)
             required == RequiredOccurrences(habit.type, asked.cfg, from, habit.ends)
  <2> SUFFICES ASSUME IInv, habit.ends # NoDate
               PROVE  Progress(asked, completions, today).done = Cardinality(completions)
    BY DEF ProgressCountsEveryCompletion
  <2>1. TypeOK /\ IsRow(habit) /\ from \in Int /\ habit.ends \in Int /\ today \in Int
        /\ completions \in SUBSET Int /\ IsFiniteSet(completions)
    BY RowTypes, CompletionsFinite DEF IInv, Rows
  <2>2. asked.type = habit.type /\ asked.ends = habit.ends /\ AnchorDate(asked) = from
    BY <2>1, ShortRest
  <2>3. Cardinality(completions) \in Nat
    BY <2>1, FS_CardinalityType
  <2>4. {c \in completions : from <= c /\ c <= habit.ends /\ c <= today} = completions
    BY CompletionFacts
  <2>5. CASE habit.ends < from
    <3>1. completions = {}
      BY <2>1, <2>5, CompletionFacts
    <3>2. Cardinality(completions) = 0
      BY <3>1, FS_EmptySet
    <3> HIDE DEF asked, from
    <3> QED BY <2>2, <2>4, <2>5, <3>2 DEF Progress
  <2>6. CASE ~(habit.ends < from)
    <3>1. required \in Nat /\ Cardinality(completions) <= required
      <4>1. CASE habit.type # "interval_cycle"
        <5> DEFINE D == {day \in from..habit.ends : OccursOn(habit, day)}
        <5>1. required = Cardinality(D)
          BY <2>1, <4>1, RequiredIsScheduled
        <5>2. completions \in SUBSET D
          BY <2>1, <4>1, CompletionFacts
        <5>3. IsFiniteSet(D)
          BY <2>1, FS_Interval, FS_Subset
        <5> HIDE DEF D, required
        <5> QED BY <5>1, <5>2, <5>3, FS_Subset, FS_CardinalityType
      <4>2. CASE habit.type = "interval_cycle"
        <5> DEFINE a == habit.cfg.active
                   D == {d \in from..habit.ends : (d - from) % (a + 1) < a}
        <5>1. required = Cardinality(D)
          BY <2>1, <4>2, ShortRest DEF RequiredOccurrences, PeriodDates
        <5>2. \A c \in completions : IsIntervalCycleDue(habit, completions, c)
          BY <4>2, CompletionFacts
        <5>3. Cardinality({c \in completions : from <= c /\ c <= habit.ends}) <= Cardinality(D)
          BY <2>1, <4>2, <5>2, IntervalCapacity
        <5>4. {c \in completions : from <= c /\ c <= habit.ends} = completions
          BY CompletionFacts
        <5>5. IsFiniteSet(D)
          BY <2>1, FS_Interval, FS_Subset
        <5> HIDE DEF D, required
        <5> QED BY <5>1, <5>3, <5>4, <5>5, FS_CardinalityType
      <4> QED BY <4>1, <4>2
    <3> HIDE DEF asked, from
    <3>2. Progress(asked, completions, today).done
            = IF Cardinality(completions) < required THEN Cardinality(completions) ELSE required
      BY <2>2, <2>4, <2>6 DEF Progress
    <3> HIDE DEF required
    <3> QED BY <2>3, <3>1, <3>2
  <2> QED BY <2>5, <2>6
<1> QED BY <1>1, Invariant, PTL

\* Who missed no day has done exactly the scheduled days: by induction on the day,
\* because an interval habit is due by what was done before.
LEMMA FaithfulDays ==
  ASSUME IInv, habit.created <= AnchorDate(habit),
         \A day \in AnchorDate(habit)..today : ~Undone(day),
         habit.ends # NoDate => today <= habit.ends
  PROVE  \A day \in AnchorDate(habit)..today : day \in completions <=> OccursOn(habit, day)
<1> DEFINE anchor == AnchorDate(habit)
           Differs(day) == ~(day \in completions <=> OccursOn(habit, day))
           T == {n \in Nat : anchor + n <= today /\ Differs(anchor + n)}
<1>1. TypeOK /\ IsRow(habit) /\ anchor \in Int /\ today \in Int /\ habit.ends \in Int
      /\ completions \in SUBSET Int
  BY RowTypes DEF IInv, Rows
<1>2. ASSUME T # {} PROVE FALSE
  <2>1. PICK n \in T : \A m \in T : n <= m
    BY <1>2, NatLeast
  <2> DEFINE day == anchor + n
  <2>2. n \in Nat /\ day \in Int /\ anchor <= day /\ day <= today /\ Differs(day)
    BY <1>1
  <2>3. \A d \in anchor..(day - 1) : d \in completions <=> OccursOn(habit, d)
    <3> SUFFICES ASSUME NEW d \in anchor..(day - 1), Differs(d) PROVE FALSE
      OBVIOUS
    <3> DEFINE m == d - anchor
    <3>1. m \in Nat /\ anchor + m = d /\ m < n /\ d <= today
      BY <1>1, <2>2
    <3>2. m \in T
      BY <3>1
    <3> HIDE DEF T, m
    <3> QED BY <2>1, <2>2, <3>1, <3>2
  <2> HIDE DEF T
  <2>4. IsHabitDue(habit, completions, day, FALSE, FALSE) <=> OccursOn(habit, day)
    <3>1. habit.ends # NoDate => day <= habit.ends
      BY <1>1, <2>2
    <3> HIDE DEF day
    <3>2. CASE habit.type # "interval_cycle"
      BY <1>1, <2>2, <3>1, <3>2, CalendarDue
    <3>3. CASE habit.type = "interval_cycle"
      <4>1. IsIntervalCycleDue(habit, completions, day) <=> OccursOn(habit, day)
        BY <1>1, <2>2, <2>3, <3>3, IntervalDueInPhase
      <4> QED BY <1>1, <2>2, <3>1, <3>3, <4>1, IntervalDue
    <3> QED BY <3>2, <3>3
  <2>5. day \in completions => OccursOn(habit, day)
    BY <2>4 DEF IInv, CompletionsWereDue
  <2>6. day \notin completions => ~OccursOn(habit, day)
    <3> SUFFICES ASSUME day \notin completions PROVE ~OccursOn(habit, day)
      OBVIOUS
    <3>1. day \in AnchorDate(habit)..today
      BY <1>1, <2>2
    <3>2. ~IsHabitDue(habit, completions, day, day \in completions, FALSE)
      BY <3>1 DEF Undone
    <3> HIDE DEF day
    <3>3. ~IsHabitDue(habit, completions, day, FALSE, FALSE)
      <4>1. (day \in completions) = FALSE
        OBVIOUS
      <4> QED BY <3>2, <4>1, Zenon
    <3> QED BY <2>4, <3>3
  <2> QED BY <2>2, <2>5, <2>6
<1> SUFFICES ASSUME NEW day \in anchor..today, Differs(day) PROVE FALSE
  OBVIOUS
<1> DEFINE n == day - anchor
<1>3. n \in Nat /\ anchor + n = day /\ day <= today
  BY <1>1
<1>4. n \in T
  BY <1>3
<1> QED BY <1>2, <1>4

\* Who did every due day has every completion in the streak, rest days and month
\* ends included (_calculate_streak, _is_interval_cycle_due).
THEOREM FaithfulCorrect == Spec => []FaithfulHistoryIsOneStreak
<1>1. IInv => FaithfulHistoryIsOneStreak
  <2> SUFFICES ASSUME IInv, ~missed, ~DueOn(today), ~Expired, ~habit.archived,
                      habit.created <= AnchorDate(habit)
               PROVE  HabitStreak = Cardinality(completions)
    BY DEF FaithfulHistoryIsOneStreak
  <2> DEFINE anchor == AnchorDate(habit)
  <2>1. TypeOK /\ IsRow(habit) /\ anchor \in Int /\ today \in Int /\ habit.ends \in Int
        /\ habit.created \in Int /\ completions \in SUBSET Int /\ IsFiniteSet(completions)
    BY RowTypes, CompletionsFinite DEF IInv, Rows
  <2>2. \A day \in anchor..today : ~Undone(day)
    <3> SUFFICES ASSUME NEW day \in anchor..today PROVE ~Undone(day)
      OBVIOUS
    <3>1. CASE day = today
      BY <2>1, <3>1, DueFromToday DEF IInv
    <3>2. CASE day # today
      <4>1. day \in habit.created..(today - 1)
        BY <2>1, <3>2
      <4> QED BY <4>1 DEF IInv, MissedIsUndone
    <3> QED BY <3>1, <3>2
  <2>3. habit.ends # NoDate => today <= habit.ends
    BY <2>1 DEF Expired, ShouldBeArchived
  <2>4. \A day \in anchor..today : day \in completions <=> OccursOn(habit, day)
    BY <2>2, <2>3, FaithfulDays
  <2>5. \A day \in completions : day \in anchor..today
    BY <2>1, CompletionFacts
  <2>6. ScheduledTo(habit, today) = completions
    BY <2>4, <2>5 DEF ScheduledTo
  <2>7. SinceLastMiss(habit, completions, today) = completions
    BY <2>6 DEF SinceLastMiss
  <2>8. HabitStreak = Cardinality(SinceLastMiss(habit, completions, today))
    BY <2>1, StreakIsRun DEF HabitStreak
  <2> QED BY <2>7, <2>8
<1> QED BY <1>1, Invariant, PTL
-----------------------------------------------------------------------------
(* Sums.  SumFunction of the community modules adds the values of a         *)
(* function up element by element, in the order CHOOSE picks them.          *)

AnyOf(s) == CHOOSE x \in s : TRUE
SumStep(f, sum, s) == IF s = {} THEN 0 ELSE f[AnyOf(s)] + sum[s \ {AnyOf(s)}]
SumBy(f, S, sum) == sum = [s \in SUBSET S |-> SumStep(f, sum, s)]

\* There is such a function: it is defined set by larger set.
LEMMA SumExists ==
  ASSUME NEW S, IsFiniteSet(S), NEW f
  PROVE  \E sum : SumBy(f, S, sum)
<1> DEFINE Body(g, s) == SumStep(f, g, s)
           To(n, g) == \A s \in SUBSET S : Cardinality(s) <= n => g[s] = Body(g, s)
           Bad == {n \in Nat : ~\E g : To(n, g)}
<1>1. \A s \in SUBSET S : IsFiniteSet(s) /\ Cardinality(s) \in Nat /\ Cardinality(s) <= Cardinality(S)
  BY FS_Subset, FS_CardinalityType
<1>2. \A s \in SUBSET S : s # {} =>
        LET x == AnyOf(s)
        IN s \ {x} \in SUBSET S /\ Cardinality(s \ {x}) = Cardinality(s) - 1
  <2> SUFFICES ASSUME NEW s \in SUBSET S, s # {}
               PROVE  LET x == AnyOf(s)
                      IN s \ {x} \in SUBSET S /\ Cardinality(s \ {x}) = Cardinality(s) - 1
    OBVIOUS
  <2> DEFINE x == AnyOf(s)
  <2>1. x \in s
    BY DEF AnyOf
  <2> HIDE DEF x
  <2>2. Cardinality(s \ {x}) = Cardinality(s) - 1
    BY <1>1, <2>1, FS_RemoveElement
  <2> QED BY <2>2 DEF x
<1>3. ASSUME Bad # {} PROVE FALSE
  <2>1. PICK n \in Bad : \A m \in Bad : n <= m
    BY <1>3, NatLeast
  <2>2. n \in Nat
    OBVIOUS
  <2>3. CASE n = 0
    <3> DEFINE g == [s \in SUBSET S |-> 0]
    <3>1. To(0, g)
      <4> SUFFICES ASSUME NEW s \in SUBSET S, Cardinality(s) <= 0 PROVE g[s] = Body(g, s)
        OBVIOUS
      <4>1. s = {}
        BY <1>1, FS_EmptySet
      <4> QED BY <4>1 DEF SumStep
    <3> QED BY <2>1, <2>3, <3>1
  <2>4. CASE n # 0
    <3>1. n - 1 \in Nat /\ n - 1 \notin Bad
      <4> HIDE DEF Bad
      <4> QED BY <2>1, <2>2, <2>4
    <3> HIDE DEF To
    <3>2. PICK g : To(n - 1, g)
      BY <3>1
    <3> DEFINE e == [s \in SUBSET S |-> IF Cardinality(s) <= n - 1 THEN g[s] ELSE Body(g, s)]
    <3>3. \A s \in SUBSET S : Cardinality(s) <= n => e[s] = Body(e, s)
      <4> SUFFICES ASSUME NEW s \in SUBSET S, Cardinality(s) <= n PROVE e[s] = Body(e, s)
        OBVIOUS
      <4>1. e[s] = Body(g, s)
        BY <3>2 DEF To
      <4>2. CASE s = {}
        BY <4>1, <4>2 DEF SumStep
      <4>3. CASE s # {}
        <5> DEFINE x == AnyOf(s)
        <5>1. s \ {x} \in SUBSET S /\ Cardinality(s \ {x}) = Cardinality(s) - 1
          BY <1>2, <4>3
        <5>2. Cardinality(s \ {x}) <= n - 1
          BY <1>1, <2>2, <5>1
        <5>3. e[s \ {x}] = g[s \ {x}]
          BY <5>1, <5>2
        <5> HIDE DEF e
        <5> QED BY <4>1, <4>3, <5>3 DEF SumStep
      <4> QED BY <4>2, <4>3
    <3>4. To(n, e)
      <4> HIDE DEF e
      <4> QED BY <3>3 DEF To
    <3> QED BY <2>1, <3>4
  <2> QED BY <2>3, <2>4
<1> DEFINE N == Cardinality(S)
<1>4. PICK g : To(N, g)
  <2> HIDE DEF To
  <2>1. N \in Nat
    BY FS_CardinalityType
  <2> QED BY <1>3, <2>1
<1>5. SumBy(f, S, [s \in SUBSET S |-> g[s]])
  <2> DEFINE e == [s \in SUBSET S |-> g[s]]
  <2>1. ASSUME NEW s \in SUBSET S PROVE e[s] = Body(e, s)
    <3>1. e[s] = Body(g, s)
      BY <1>1, <1>4
    <3>2. CASE s = {}
      BY <3>1, <3>2 DEF SumStep
    <3>3. CASE s # {}
      <4> DEFINE x == AnyOf(s)
      <4>1. e[s \ {x}] = g[s \ {x}]
        OBVIOUS
      <4> HIDE DEF e
      <4> QED BY <3>1, <3>3, <4>1 DEF SumStep
    <3> QED BY <3>2, <3>3
  <2>2. e = [s \in SUBSET S |-> Body(e, s)]
    BY <2>1
  <2>3. SumBy(f, S, e)
    <3> HIDE DEF e
    <3> QED BY <2>2, Zenon DEF SumBy
  <2> QED BY <2>3
<1> QED BY <1>5

\* What SumFunction computes.
LEMMA SumIs ==
  ASSUME NEW f, IsFiniteSet(DOMAIN f)
  PROVE  \E sum : SumBy(f, DOMAIN f, sum) /\ SumFunction(f) = sum[DOMAIN f]
<1> DEFINE S == DOMAIN f
           sum == CHOOSE g : SumBy(f, S, g)
<1>1. SumBy(f, S, sum)
  BY SumExists
<1>2. SumFunction(f) = sum[S]
  BY Zenon DEF SumFunction, SumFunctionOnSet, FoldFunctionOnSet, MapThenFoldSet,
               SumBy, SumStep, AnyOf
<1> QED BY <1>1, <1>2

\* A quantity that grows by f[x] when x joins the set is the sum of f.
LEMMA SumIsTotal ==
  ASSUME NEW f, IsFiniteSet(DOMAIN f), NEW T, T[{}] = 0,
         \A s \in SUBSET DOMAIN f : s # {} => T[s] = f[AnyOf(s)] + T[s \ {AnyOf(s)}]
  PROVE  SumFunction(f) = T[DOMAIN f]
<1> DEFINE S == DOMAIN f
<1>1. PICK sum : SumBy(f, S, sum) /\ SumFunction(f) = sum[S]
  BY SumIs
<1>2. \A s \in SUBSET S : sum[s] = SumStep(f, sum, s)
  BY <1>1 DEF SumBy
<1> DEFINE Bad == {n \in Nat : \E s \in SUBSET S : Cardinality(s) = n /\ sum[s] # T[s]}
<1>3. ASSUME Bad # {} PROVE FALSE
  <2>1. PICK n \in Bad : \A m \in Bad : n <= m
    BY <1>3, NatLeast
  <2>2. PICK s \in SUBSET S : Cardinality(s) = n /\ sum[s] # T[s]
    BY <2>1
  <2>3. s # {}
    BY <1>2, <2>2 DEF SumStep
  <2> DEFINE x == AnyOf(s)
  <2>4. x \in s
    BY <2>3 DEF AnyOf
  <2> HIDE DEF x
  <2>5. IsFiniteSet(s) /\ Cardinality(s) \in Nat
    BY FS_Subset, FS_CardinalityType
  <2>6. Cardinality(s \ {x}) = Cardinality(s) - 1 /\ Cardinality(s \ {x}) \in Nat
    BY <2>4, <2>5, FS_RemoveElement, FS_CardinalityType
  <2>7. sum[s \ {x}] = T[s \ {x}]
    <3> SUFFICES ASSUME sum[s \ {x}] # T[s \ {x}] PROVE FALSE
      OBVIOUS
    <3>1. s \ {x} \in SUBSET S
      OBVIOUS
    <3>2. Cardinality(s \ {x}) \in Bad
      BY <2>6, <3>1
    <3> HIDE DEF Bad
    <3> QED BY <2>1, <2>2, <2>5, <2>6, <3>2
  <2>8. sum[s] = f[x] + sum[s \ {x}] /\ T[s] = f[x] + T[s \ {x}]
    BY <1>2, <2>3 DEF SumStep, x
  <2> QED BY <2>2, <2>7, <2>8
<1>4. Cardinality(S) \in Nat
  BY FS_CardinalityType
<1>5. sum[S] = T[S]
  BY <1>3, <1>4
<1> QED BY <1>1, <1>5

\* The members of a set, counted one by one.
LEMMA CountIsSum ==
  ASSUME NEW S, IsFiniteSet(S), NEW P \in SUBSET S
  PROVE  SumFunction([x \in S |-> IF x \in P THEN 1 ELSE 0]) = Cardinality(P)
<1> DEFINE f == [x \in S |-> IF x \in P THEN 1 ELSE 0]
           T == [s \in SUBSET S |-> Cardinality(s \cap P)]
<1>1. DOMAIN f = S
  OBVIOUS
<1>2. T[{}] = 0
  <2>1. {} \cap P = {} /\ {} \in SUBSET S
    OBVIOUS
  <2> QED BY <2>1, FS_EmptySet
<1>3. ASSUME NEW s \in SUBSET S, s # {}
      PROVE  T[s] = f[AnyOf(s)] + T[s \ {AnyOf(s)}]
  <2> DEFINE x == AnyOf(s)
             rest == s \ {x}
  <2>1. x \in s
    BY <1>3 DEF AnyOf
  <2> HIDE DEF x
  <2>2. T[s] = Cardinality(s \cap P) /\ T[rest] = Cardinality(rest \cap P)
    OBVIOUS
  <2>3. IsFiniteSet(s \cap P) /\ Cardinality(s \cap P) \in Nat
    BY FS_Subset, FS_CardinalityType
  <2>4. CASE x \in P
    <3>1. rest \cap P = (s \cap P) \ {x} /\ x \in s \cap P
      BY <2>1, <2>4
    <3>2. Cardinality(rest \cap P) = Cardinality(s \cap P) - 1
      <4> DEFINE in == s \cap P
      <4>1. IsFiniteSet(in) /\ x \in in
        BY <2>3, <3>1
      <4> HIDE DEF in
      <4>2. Cardinality(in \ {x}) = Cardinality(in) - 1
        BY <4>1, FS_RemoveElement
      <4> HIDE DEF rest
      <4> QED BY <3>1, <4>2 DEF in
    <3>3. f[x] = 1
      BY <2>1, <2>4
    <3> HIDE DEF f, T, rest
    <3> QED BY <2>2, <2>3, <3>2, <3>3 DEF x, rest
  <2>5. CASE x \notin P
    <3>1. rest \cap P = s \cap P
      BY <2>5
    <3>2. f[x] = 0
      BY <2>1, <2>5
    <3> HIDE DEF f, T, rest
    <3>3. Cardinality(rest \cap P) = Cardinality(s \cap P)
      BY <3>1
    <3> QED BY <2>2, <2>3, <3>2, <3>3 DEF x, rest
  <2> QED BY <2>4, <2>5
<1> HIDE DEF f, T
<1>4. SumFunction(f) = T[S]
  BY <1>1, <1>2, <1>3, SumIsTotal
<1>5. S \cap P = P
  OBVIOUS
<1> QED BY <1>4, <1>5 DEF f, T

\* Sums add.
LEMMA SumAdds ==
  ASSUME NEW S, IsFiniteSet(S), NEW f \in [S -> Int], NEW g \in [S -> Int]
  PROVE  /\ SumFunction(f) \in Int
         /\ SumFunction([x \in S |-> f[x] + g[x]]) = SumFunction(f) + SumFunction(g)
<1> DEFINE h == [x \in S |-> f[x] + g[x]]
<1>1. DOMAIN f = S /\ DOMAIN g = S /\ DOMAIN h = S
  OBVIOUS
<1>2. PICK F : SumBy(f, S, F) /\ SumFunction(f) = F[S]
  BY <1>1, SumIs
<1>3. PICK G : SumBy(g, S, G) /\ SumFunction(g) = G[S]
  BY <1>1, SumIs
<1> DEFINE Bad == {n \in Nat : \E s \in SUBSET S : Cardinality(s) = n /\ ~(F[s] \in Int /\ G[s] \in Int)}
<1>4. ASSUME Bad # {} PROVE FALSE
  <2>1. PICK n \in Bad : \A m \in Bad : n <= m
    BY <1>4, NatLeast
  <2>2. PICK s \in SUBSET S : Cardinality(s) = n /\ ~(F[s] \in Int /\ G[s] \in Int)
    BY <2>1
  <2>3. F[s] = SumStep(f, F, s) /\ G[s] = SumStep(g, G, s)
    BY <1>2, <1>3 DEF SumBy
  <2>4. s # {}
    BY <2>2, <2>3 DEF SumStep
  <2> DEFINE x == AnyOf(s)
  <2>5. x \in s
    BY <2>4 DEF AnyOf
  <2>6. F[s] = f[x] + F[s \ {x}] /\ G[s] = g[x] + G[s \ {x}]
    BY <2>3, <2>4 DEF SumStep
  <2> HIDE DEF x
  <2>7. IsFiniteSet(s) /\ Cardinality(s) \in Nat
    BY FS_Subset, FS_CardinalityType
  <2>8. Cardinality(s \ {x}) = Cardinality(s) - 1 /\ Cardinality(s \ {x}) \in Nat
    BY <2>5, <2>7, FS_RemoveElement, FS_CardinalityType
  <2>9. F[s \ {x}] \in Int /\ G[s \ {x}] \in Int
    <3> SUFFICES ASSUME ~(F[s \ {x}] \in Int /\ G[s \ {x}] \in Int) PROVE FALSE
      OBVIOUS
    <3>1. s \ {x} \in SUBSET S
      OBVIOUS
    <3>2. Cardinality(s \ {x}) \in Bad
      BY <2>8, <3>1
    <3> HIDE DEF Bad
    <3> QED BY <2>1, <2>2, <2>7, <2>8, <3>2
  <2>10. f[x] \in Int /\ g[x] \in Int
    BY <2>5
  <2> QED BY <2>2, <2>6, <2>9, <2>10
<1>5. \A s \in SUBSET S : F[s] \in Int /\ G[s] \in Int
  <2> SUFFICES ASSUME NEW s \in SUBSET S, ~(F[s] \in Int /\ G[s] \in Int) PROVE FALSE
    OBVIOUS
  <2>1. Cardinality(s) \in Nat
    BY FS_Subset, FS_CardinalityType
  <2> QED BY <1>4, <2>1
<1> DEFINE T == [s \in SUBSET S |-> F[s] + G[s]]
<1>6. T[{}] = 0
  BY <1>2, <1>3 DEF SumBy, SumStep
<1>7. ASSUME NEW s \in SUBSET S, s # {}
      PROVE  T[s] = h[AnyOf(s)] + T[s \ {AnyOf(s)}]
  <2> DEFINE x == AnyOf(s)
  <2>1. x \in s
    BY <1>7 DEF AnyOf
  <2>2. F[s] = f[x] + F[s \ {x}] /\ G[s] = g[x] + G[s \ {x}]
    BY <1>2, <1>3, <1>7 DEF SumBy, SumStep
  <2> HIDE DEF x
  <2>3. f[x] \in Int /\ g[x] \in Int /\ F[s \ {x}] \in Int /\ G[s \ {x}] \in Int
    BY <1>5, <2>1
  <2>4. T[s] = F[s] + G[s] /\ T[s \ {x}] = F[s \ {x}] + G[s \ {x}] /\ h[x] = f[x] + g[x]
    BY <2>1
  <2> HIDE DEF T, h
  <2> QED BY <2>2, <2>3, <2>4 DEF x
<1> HIDE DEF h
<1>8. SumFunction(h) = T[S]
  <2> HIDE DEF T
  <2> QED BY <1>1, <1>6, <1>7, SumIsTotal
<1> QED BY <1>2, <1>3, <1>5, <1>8 DEF h
-----------------------------------------------------------------------------
(* Statistics.                                                              *)

\* The habits of the user: all dates are dates, no completion lies in the future,
\* and an archived habit has nothing to do with today.
LEMMA UsersHabits ==
  ASSUME IInv
  PROVE  /\ IsFiniteSet(HabitsOfUser) /\ HabitsOfUser # {}
         /\ \A h \in HabitsOfUser :
              /\ AnchorDate(h.row) \in Nat /\ h.done \in SUBSET Nat /\ IsFiniteSet(h.done)
              /\ \A day \in h.done : day <= today
              /\ h.row.archived =>
                   /\ today \notin h.done
                   /\ ~IsHabitDue(h.row, h.done, today, FALSE, FALSE)
<1> DEFINE mine == [row |-> habit, done |-> completions]
           older == OlderHabit(habit.created)
<1>1. /\ TypeOK /\ AnchorDate(habit) \in Nat /\ today \in Nat /\ habit.created \in Nat \ {0}
      /\ habit.ends \in Nat /\ completions \in SUBSET Int /\ habit.created <= today
      /\ IsFiniteSet(completions)
  BY RowTypes, CompletionsFinite DEF IInv, TypeOK, Rows
<1>2. /\ older.row.starts \in Nat /\ older.row.created \in Nat \ {0}
      /\ older.row.ends \in 1..(habit.created - 1) /\ older.row.archived
      /\ older.done \subseteq AnchorDate(older.row)..older.row.ends
  <2>1. PICK h \in Habits, a \in BOOLEAN : habit = [h EXCEPT !.archived = a]
    BY <1>1 DEF TypeOK
  <2>2. h.created = habit.created
    BY <2>1, DaysAssumption
  <2> QED BY <2>2, OlderAssumption
<1>3. /\ AnchorDate(mine.row) \in Nat /\ mine.done \in SUBSET Nat /\ IsFiniteSet(mine.done)
      /\ \A day \in mine.done : day <= today
  <2>1. \A c \in completions : c \in Nat /\ c <= today
    BY <1>1, CompletionFacts
  <2> QED BY <1>1, <2>1
<1>4. ASSUME mine.row.archived
      PROVE  today \notin mine.done /\ ~IsHabitDue(mine.row, mine.done, today, FALSE, FALSE)
  <2>1. habit.ends # NoDate /\ habit.ends < today
    BY <1>4 DEF IInv, ArchivedIsOver, Expired, ShouldBeArchived
  <2>2. ~(today <= habit.ends)
    BY <1>1, <2>1
  <2>3. today \notin completions
    BY <2>1, <2>2, CompletionFacts
  <2>4. ~IsHabitDue(habit, completions, today, FALSE, FALSE)
    BY <2>1, <2>2 DEF IsHabitDue
  <2> QED BY <2>3, <2>4
<1>5. /\ AnchorDate(older.row) \in Nat /\ older.done \in SUBSET Nat /\ IsFiniteSet(older.done)
      /\ \A day \in older.done : day <= today
      /\ today \notin older.done
      /\ ~IsHabitDue(older.row, older.done, today, FALSE, FALSE)
  <2> HIDE DEF older
  <2>1. AnchorDate(older.row) \in Nat
    BY <1>2 DEF AnchorDate
  <2>2. older.row.ends \in Nat /\ older.row.ends # NoDate /\ ~(today <= older.row.ends)
    BY <1>1, <1>2 DEF NoDate
  <2>3. \A day \in older.done : day \in Nat /\ day <= older.row.ends
    BY <1>2, <2>1, <2>2
  <2>4. \A day \in older.done : day \in Nat /\ day <= today
    BY <1>1, <2>2, <2>3
  <2>5. today \notin older.done
    BY <2>2, <2>3
  <2>6. IsFiniteSet(older.done)
    <3> DEFINE a == AnchorDate(older.row)
               e == older.row.ends
    <3>1. a \in Int /\ e \in Int /\ older.done \in SUBSET (a..e)
      BY <1>2, <2>1, <2>2
    <3> HIDE DEF a, e
    <3> QED BY <3>1, FS_Interval, FS_Subset
  <2>7. ~IsHabitDue(older.row, older.done, today, FALSE, FALSE)
    BY <2>2 DEF IsHabitDue
  <2> QED BY <2>1, <2>4, <2>5, <2>6, <2>7
<1>6. HabitsOfUser = {mine, older}
  BY DEF HabitsOfUser
<1> HIDE DEF mine, older
<1>7. IsFiniteSet({mine, older})
  <2>1. IsFiniteSet({mine})
    BY FS_Singleton
  <2>2. IsFiniteSet({mine} \cup {older}) /\ {mine, older} = {mine} \cup {older}
    BY <2>1, FS_AddElement
  <2> QED BY <2>2
<1> QED BY <1>3, <1>4, <1>5, <1>6, <1>7

\* Where a period starts.  That of all time is before everything there is.
LEMMA PeriodFacts ==
  ASSUME IInv, NEW range \in Ranges
  PROVE  /\ StartOf(range) \in Int
         /\ range = "all" => \A h \in HabitsOfUser : /\ StartOf(range) <= AnchorDate(h.row)
                                                     /\ \A day \in h.done : StartOf(range) <= day
<1>1. today \in Int
  BY RowTypes DEF IInv
<1>2. CASE range # "all"
  BY <1>1, <1>2 DEF StartOf, PeriodStart, Ranges
<1>3. CASE range = "all"
  <2> DEFINE S == {AnchorDate(h.row) : h \in HabitsOfUser} \cup UNION {h.done : h \in HabitsOfUser}
  <2>1. \A h \in HabitsOfUser : AnchorDate(h.row) \in Nat /\ h.done \in SUBSET Nat
    BY UsersHabits
  <2>2. S \in SUBSET Nat /\ S # {}
    <3>1. \A h \in HabitsOfUser : AnchorDate(h.row) \in S
      OBVIOUS
    <3>2. HabitsOfUser # {}
      BY UsersHabits
    <3> QED BY <2>1, <3>1, <3>2
  <2>3. StartOf(range) = Min(S)
    BY <1>3 DEF StartOf, AllTimePeriodStart
  <2>4. Min(S) \in S /\ \A n \in S : Min(S) <= n
    <3> HIDE DEF S
    <3>1. \E n \in S : \A m \in S : n <= m
      BY <2>2, NatLeast
    <3> QED BY <3>1 DEF Min
  <2>5. Min(S) \in Int
    BY <2>2, <2>4
  <2>6. \A h \in HabitsOfUser : /\ Min(S) <= AnchorDate(h.row)
                                /\ \A day \in h.done : Min(S) <= day
    BY <2>4
  <2> HIDE DEF S
  <2> QED BY <2>3, <2>5, <2>6
<1> QED BY <1>2, <1>3

\* The success rate looks at the past with the completions known today and is full
\* exactly when no due day went by undone (_period_occurrences).
THEOREM RateCorrect == Spec => []FullRateIffNothingMissed
<1>1. IInv => FullRateIffNothingMissed
  <2> SUFFICES ASSUME IInv, NEW range \in {"30d", "all"},
                      StartOf(range) <= AnchorDate(habit), habit.created <= AnchorDate(habit)
               PROVE  LET seen == PeriodOccurrences([row |-> habit, done |-> completions],
                                                    StartOf(range), today, FALSE)
                      IN seen.done = seen.due <=> ~missed /\ ~DueOn(today)
    BY DEF FullRateIffNothingMissed
  <2> DEFINE from == StartOf(range)
             due == {day \in from..today :
                       day \in completions \/ IsHabitDue(habit, completions, day, FALSE, FALSE)}
             done == due \cap completions
             seen == PeriodOccurrences([row |-> habit, done |-> completions], from, today, FALSE)
  <2>1. from \in Int /\ AnchorDate(habit) \in Int /\ today \in Int /\ habit.created \in Int
        /\ TypeOK
    BY RowTypes, PeriodFacts DEF IInv, Rows, Ranges
  <2>2. seen.due = Cardinality(due) /\ seen.done = Cardinality(done)
    BY DEF PeriodOccurrences, PeriodDates
  <2>3. IsFiniteSet(due) /\ done \in SUBSET due
    BY <2>1, FS_Interval, FS_Subset
  <2>4. Cardinality(done) = Cardinality(due) <=> done = due
    <3> HIDE DEF due, done
    <3> QED BY <2>3, FS_Subset
  <2>5. \A day : Undone(day) <=> day \notin completions
                                 /\ IsHabitDue(habit, completions, day, FALSE, FALSE)
    <3> SUFFICES ASSUME NEW day
                 PROVE  Undone(day) <=> day \notin completions
                                        /\ IsHabitDue(habit, completions, day, FALSE, FALSE)
      OBVIOUS
    <3> QED BY ZenonT(30) DEF Undone, IsHabitDue
  <2>6. done = due <=> \A day \in from..today : ~Undone(day)
    BY <2>5
  <2>7. \A day : Undone(day) => AnchorDate(habit) <= day
    BY <2>1, <2>5 DEF IsHabitDue
  <2>8. Undone(today) <=> DueOn(today)
    BY <2>1, DueFromToday DEF IInv
  <2>9. missed <=> \E day \in habit.created..(today - 1) : Undone(day)
    BY DEF IInv, MissedIsUndone
  <2> HIDE DEF from, due, done, seen
  <2>10. from <= AnchorDate(habit)
    BY DEF from
  <2>11. ASSUME \A day \in from..today : ~Undone(day)
         PROVE  ~missed /\ ~DueOn(today)
    <3>1. ~Undone(today)
      <4> SUFFICES ASSUME Undone(today) PROVE FALSE
        OBVIOUS
      <4>1. AnchorDate(habit) <= today
        BY <2>7
      <4>2. today \in from..today
        BY <2>1, <2>10, <4>1
      <4> QED BY <2>11, <4>2
    <3>2. ASSUME NEW day \in habit.created..(today - 1), Undone(day) PROVE FALSE
      <4>1. AnchorDate(habit) <= day
        BY <2>7, <3>2
      <4>2. day \in from..today
        BY <2>1, <2>10, <4>1
      <4> QED BY <2>11, <3>2, <4>2
    <3> QED BY <2>8, <2>9, <3>1, <3>2
  <2>12. ASSUME ~missed, ~DueOn(today), NEW day \in from..today, Undone(day) PROVE FALSE
    <3>1. AnchorDate(habit) <= day
      BY <2>7, <2>12
    <3>2. CASE day = today
      BY <2>8, <2>12, <3>2
    <3>3. CASE day # today
      <4>1. day \in habit.created..(today - 1)
        BY <2>1, <3>1, <3>3
      <4> QED BY <2>9, <2>12, <4>1
    <3> QED BY <3>2, <3>3
  <2>13. (\A day \in from..today : ~Undone(day)) <=> ~missed /\ ~DueOn(today)
    BY <2>11, <2>12
  <2>14. seen.done = seen.due <=> ~missed /\ ~DueOn(today)
    BY <2>2, <2>4, <2>6, <2>13
  <2> QED BY <2>14 DEF seen, from
<1> QED BY <1>1, Invariant, PTL

\* The figures for today, over the active habits, are those of a period of one day
\* over all of them (_today_totals).
THEOREM TodayCorrect == Spec => []TodayIsAPeriodOfOneDay
<1>1. IInv => TodayIsAPeriodOfOneDay
  <2> SUFFICES ASSUME IInv PROVE TodayIsAPeriodOfOneDay
    OBVIOUS
  <2> DEFINE H == HabitsOfUser
             oneDay(h) == PeriodOccurrences(h, PeriodStart(today, 1), today, FALSE)
             Due(h) == IsHabitDue(h.row, h.done, today, FALSE, FALSE)
             doneSet == {h \in H : today \in h.done}
             dueSet == {h \in H : today \in h.done \/ Due(h)}
             active == {h \in H : ~h.row.archived}
  <2>1. today \in Int
    BY RowTypes DEF IInv
  <2>2. IsFiniteSet(H) /\ \A h \in H : h.row.archived => today \notin h.done /\ ~Due(h)
    BY UsersHabits
  <2>3. PeriodDates(PeriodStart(today, 1), today) = {today}
    BY <2>1 DEF PeriodDates, PeriodStart
  <2>4. ASSUME NEW h \in H
        PROVE  /\ oneDay(h).due = IF h \in dueSet THEN 1 ELSE 0
               /\ oneDay(h).done = IF h \in doneSet THEN 1 ELSE 0
    <3> DEFINE due == {day \in {today} :
                         day \in h.done \/ IsHabitDue(h.row, h.done, day, FALSE, FALSE)}
               done == due \cap h.done
    <3>1. oneDay(h).due = Cardinality(due) /\ oneDay(h).done = Cardinality(done)
      BY <2>3 DEF PeriodOccurrences
    <3>2. due = (IF h \in dueSet THEN {today} ELSE {})
      OBVIOUS
    <3>3. done = (IF h \in doneSet THEN {today} ELSE {})
      OBVIOUS
    <3>4. Cardinality({}) = 0 /\ Cardinality({today}) = 1
      BY FS_EmptySet, FS_Singleton
    <3> HIDE DEF due, done, dueSet, doneSet, oneDay
    <3> QED BY <3>1, <3>2, <3>3, <3>4
  <2>5. /\ [h \in H |-> oneDay(h).due] = [h \in H |-> IF h \in dueSet THEN 1 ELSE 0]
        /\ [h \in H |-> oneDay(h).done] = [h \in H |-> IF h \in doneSet THEN 1 ELSE 0]
    <3> HIDE DEF dueSet, doneSet, oneDay, H
    <3> QED BY <2>4
  <2>6. /\ SumFunction([h \in H |-> IF h \in dueSet THEN 1 ELSE 0]) = Cardinality(dueSet)
        /\ SumFunction([h \in H |-> IF h \in doneSet THEN 1 ELSE 0]) = Cardinality(doneSet)
    <3>1. dueSet \in SUBSET H /\ doneSet \in SUBSET H
      OBVIOUS
    <3> HIDE DEF dueSet, doneSet, H
    <3> QED BY <2>2, <3>1, CountIsSum
  <2>7. {h \in active : today \in h.done} = doneSet
    BY <2>2
  <2>8. {h \in active : h \in {g \in active : today \in g.done}
                          \/ IsHabitDue(h.row, h.done, today, FALSE, TRUE)} = dueSet
    <3>1. \A h \in active : IsHabitDue(h.row, h.done, today, FALSE, TRUE) <=> Due(h)
      <4> SUFFICES ASSUME NEW h \in active
                   PROVE  IsHabitDue(h.row, h.done, today, FALSE, TRUE) <=> Due(h)
        OBVIOUS
      <4>1. ~h.row.archived
        OBVIOUS
      <4> HIDE DEF active
      <4> QED BY <4>1, DueSwitches
    <3> HIDE DEF Due
    <3> QED BY <2>2, <3>1
  <2>9. TodayTotals(H) = [due |-> Cardinality(dueSet), done |-> Cardinality(doneSet)]
    <3> HIDE DEF dueSet, doneSet, H
    <3> QED BY <2>7, <2>8, Zenon DEF TodayTotals
  <2> HIDE DEF dueSet, doneSet, oneDay, H
  <2>10. TodayTotals(H) = [due  |-> SumFunction([h \in H |-> oneDay(h).due]),
                           done |-> SumFunction([h \in H |-> oneDay(h).done])]
    BY <2>5, <2>6, <2>9
  <2> QED BY <2>10 DEF TodayIsAPeriodOfOneDay, H, oneDay
<1> QED BY <1>1, Invariant, PTL
\* A period cut into bars: every day of it stands in exactly one.
Cut(bars, from, to) ==
  /\ IsFiniteSet(bars)
  /\ \A day \in from..to :
       /\ \E bar \in bars : day \in bar[1]..bar[2]
       /\ \A bar, other \in bars :
            day \in bar[1]..bar[2] /\ day \in other[1]..other[2] => bar = other

\* What a function makes of a finite set is finite.
LEMMA ImageFinite ==
  ASSUME NEW S, IsFiniteSet(S), NEW f
  PROVE  IsFiniteSet({f[x] : x \in S})
<1> DEFINE T == {f[x] : x \in S}
           g == [x \in S |-> f[x]]
<1>1. g \in [S -> T] /\ \A t \in T : \E x \in S : g[x] = t
  OBVIOUS
<1> HIDE DEF g, T
<1>2. g \in Surjection(S, T)
  BY <1>1, Fun_IsSurj
<1>3. IsFiniteSet(T)
  BY <1>2, FS_Surjection
<1> QED BY <1>3 DEF T

\* One bar for each day.
LEMMA DaysCut ==
  ASSUME NEW from \in Int, NEW to \in Int
  PROVE  Cut({<<day, day>> : day \in PeriodDates(from, to)}, from, to)
<1> DEFINE bars == {<<day, day>> : day \in from..to}
<1>1. IsFiniteSet(bars)
  <2> DEFINE f == [day \in from..to |-> <<day, day>>]
  <2>1. IsFiniteSet(from..to)
    BY FS_Interval
  <2>2. bars = {f[day] : day \in from..to}
    OBVIOUS
  <2> HIDE DEF f, bars
  <2> QED BY <2>1, <2>2, ImageFinite
<1>2. ASSUME NEW day \in from..to
      PROVE  /\ \E bar \in bars : day \in bar[1]..bar[2]
             /\ \A bar, other \in bars :
                  day \in bar[1]..bar[2] /\ day \in other[1]..other[2] => bar = other
  <2>1. <<day, day>> \in bars /\ day \in (<<day, day>>[1])..(<<day, day>>[2])
    OBVIOUS
  <2>2. ASSUME NEW bar \in bars, day \in bar[1]..bar[2] PROVE bar = <<day, day>>
    <3>1. PICK d \in from..to : bar = <<d, d>>
      OBVIOUS
    <3>2. d = day
      BY <2>2, <3>1
    <3> QED BY <3>1, <3>2
  <2> HIDE DEF bars
  <2> QED BY <2>1, <2>2
<1> HIDE DEF bars
<1>3. Cut(bars, from, to)
  BY <1>1, <1>2 DEF Cut
<1> QED BY <1>3 DEF bars, PeriodDates

\* Bars of seven days from the first one, the last cut short.
LEMMA WeeksCut ==
  ASSUME NEW from \in Int, NEW to \in Int
  PROVE  Cut(PeriodWeeks(from, to), from, to)
<1> DEFINE weeks == 0..((to - from) \div 7)
           first(k) == from + 7 * k
           last(k) == Min({first(k) + 6, to})
           bars == {<<first(k), last(k)>> : k \in weeks}
<1>0. bars = PeriodWeeks(from, to)
  BY DEF PeriodWeeks
<1>1. (to - from) \div 7 \in Int
  OBVIOUS
<1>2. IsFiniteSet(bars)
  <2>1. IsFiniteSet(weeks)
    BY <1>1, FS_Interval
  <2> HIDE DEF weeks, first, last
  <2> DEFINE f == [k \in weeks |-> <<first(k), last(k)>>]
  <2>2. bars = {f[k] : k \in weeks}
    OBVIOUS
  <2> HIDE DEF f, bars
  <2> QED BY <2>1, <2>2, ImageFinite
<1>3. \A k \in weeks : /\ first(k) \in Int /\ last(k) \in Int
                       /\ last(k) <= first(k) + 6 /\ last(k) <= to
                       /\ last(k) = first(k) + 6 \/ last(k) = to
  <2> SUFFICES ASSUME NEW k \in weeks
               PROVE  /\ first(k) \in Int /\ last(k) \in Int
                      /\ last(k) <= first(k) + 6 /\ last(k) <= to
                      /\ last(k) = first(k) + 6 \/ last(k) = to
    OBVIOUS
  <2>1. first(k) \in Int
    BY <1>1
  <2> DEFINE a == first(k) + 6
             S == {a, to}
  <2>2. a \in Int
    BY <2>1
  <2>3. \E n \in S : \A m \in S : n <= m
    <3> HIDE DEF a
    <3> QED BY <2>2
  <2>4. Min(S) \in S /\ \A m \in S : Min(S) <= m
    <3> HIDE DEF S
    <3> QED BY <2>3 DEF Min
  <2>5. last(k) = Min(S)
    OBVIOUS
  <2> HIDE DEF last
  <2> QED BY <2>1, <2>2, <2>4, <2>5
<1>4. ASSUME NEW day \in from..to
      PROVE  /\ \E bar \in bars : day \in bar[1]..bar[2]
             /\ \A bar, other \in bars :
                  day \in bar[1]..bar[2] /\ day \in other[1]..other[2] => bar = other
  <2> DEFINE k == (day - from) \div 7
             bar == <<first(k), last(k)>>
  <2>1. k \in Int /\ first(k) \in Int /\ first(k) <= day /\ day <= first(k) + 6
    OBVIOUS
  <2>2. k \in weeks
    BY <1>1
  <2> HIDE DEF k
  <2>3. bar \in bars /\ bar[1] = first(k) /\ bar[2] = last(k)
    BY <2>2
  <2>4. day \in bar[1]..bar[2]
    <3> HIDE DEF weeks, first, last
    <3> QED BY <1>3, <2>1, <2>2
  <2>5. ASSUME NEW other \in bars, day \in other[1]..other[2] PROVE other = bar
    <3>1. PICK j \in weeks : other = <<first(j), last(j)>>
      OBVIOUS
    <3>2. j \in Int /\ first(j) <= day /\ day <= first(j) + 6
      <4>1. day \in first(j)..last(j)
        BY <2>5, <3>1
      <4>2. j \in Int
        BY <1>1
      <4> HIDE DEF weeks, first, last
      <4> QED BY <1>3, <4>1, <4>2
    <3>3. j = k
      BY <2>1, <3>2
    <3> QED BY <3>1, <3>3
  <2> HIDE DEF bars, bar
  <2> QED BY <2>3, <2>4, <2>5
<1> HIDE DEF bars
<1> QED BY <1>0, <1>2, <1>4 DEF Cut

\* One bar for each calendar month the period touches.
LEMMA MonthsCut ==
  ASSUME NEW from \in Int, NEW to \in Int
  PROVE  Cut(PeriodMonths(from, to), from, to)
<1> DEFINE months == MonthIndex(from)..MonthIndex(to)
           last(i) == FirstOf(i + 1) - 1
           bars == {<<FirstOf(i), last(i)>> : i \in months}
<1>0. bars = PeriodMonths(from, to)
  BY Zenon DEF PeriodMonths, MonthIndex, FirstOf
<1>1. MonthIndex(from) \in Int /\ MonthIndex(to) \in Int
  BY MonthIndexOfDay
<1>2. IsFiniteSet(bars)
  <2>1. IsFiniteSet(months)
    BY <1>1, FS_Interval
  <2> HIDE DEF months, last
  <2> DEFINE f == [i \in months |-> <<FirstOf(i), last(i)>>]
  <2>2. bars = {f[i] : i \in months}
    OBVIOUS
  <2> HIDE DEF f, bars
  <2> QED BY <2>1, <2>2, ImageFinite
<1>3. \A i \in Int : /\ FirstOf(i) \in Int
                     /\ last(i) = (FirstOf(i) + LengthOf(i)) - 1
                     /\ LengthOf(i) \in Int
  <2> SUFFICES ASSUME NEW i \in Int
               PROVE  /\ FirstOf(i) \in Int
                      /\ last(i) = (FirstOf(i) + LengthOf(i)) - 1
                      /\ LengthOf(i) \in Int
    OBVIOUS
  <2>1. FirstOf(i) \in Int /\ LengthOf(i) \in Int
    BY MonthParts
  <2>2. FirstOf(i + 1) = FirstOf(i) + LengthOf(i)
    BY MonthsFollow
  <2> QED BY <2>1, <2>2
<1>4. ASSUME NEW day \in from..to
      PROVE  /\ \E bar \in bars : day \in bar[1]..bar[2]
             /\ \A bar, other \in bars :
                  day \in bar[1]..bar[2] /\ day \in other[1]..other[2] => bar = other
  <2> DEFINE k == MonthIndex(day)
             bar == <<FirstOf(k), last(k)>>
  <2>1. k \in Int /\ FirstOf(k) <= day /\ day < FirstOf(k) + LengthOf(k)
    BY MonthIndexOfDay
  <2>2. k \in months
    <3>1. day \in Int /\ from <= day /\ day <= to
      OBVIOUS
    <3>2. MonthIndex(from) <= k /\ k <= MonthIndex(to)
      BY <3>1, MonthIndexMonotonic
    <3> QED BY <1>1, <2>1, <3>2
  <2> HIDE DEF k
  <2>3. bar \in bars /\ bar[1] = FirstOf(k) /\ bar[2] = last(k)
    BY <2>2
  <2>4. day \in bar[1]..bar[2]
    <3> HIDE DEF last, months
    <3> QED BY <1>3, <2>1, <2>3
  <2>5. ASSUME NEW other \in bars, day \in other[1]..other[2] PROVE other = bar
    <3>1. PICK j \in months : other = <<FirstOf(j), last(j)>>
      OBVIOUS
    <3>2. j \in Int
      BY <1>1
    <3>3. day \in FirstOf(j)..last(j)
      BY <2>5, <3>1
    <3> HIDE DEF months, last
    <3>4. FirstOf(j) <= day /\ day < FirstOf(j) + LengthOf(j)
      BY <1>3, <3>2, <3>3
    <3>5. j = k
      BY <3>2, <3>4, MonthIsUnique DEF k
    <3> QED BY <3>1, <3>5
  <2> HIDE DEF bars, bar
  <2> QED BY <2>3, <2>4, <2>5
<1> HIDE DEF bars
<1> QED BY <1>0, <1>2, <1>4 DEF Cut

\* The bars of a chart add up to what is in its period.
LEMMA BarsAddUp ==
  ASSUME NEW H, IsFiniteSet(H), \A h \in H : IsFiniteSet(h.done),
         NEW from \in Int, NEW to \in Int, NEW bars, Cut(bars, from, to)
  PROVE  SumFunction([bar \in bars |->
           SumFunction([h \in H |-> Cardinality({day \in h.done : /\ day \in from..to
                                                                  /\ day \in bar[1]..bar[2]})])])
           = SumFunction([h \in H |-> Cardinality(h.done \cap (from..to))])
<1> DEFINE Shown(h, s) == {day \in h.done : day \in from..to /\ \E bar \in s : day \in bar[1]..bar[2]}
           Count(s) == [h \in H |-> Cardinality(Shown(h, s))]
           T == [s \in SUBSET bars |-> SumFunction(Count(s))]
           f == [bar \in bars |-> SumFunction(Count({bar}))]
<1>1. IsFiniteSet(bars)
  BY DEF Cut
<1>2. \A h \in H : \A s : IsFiniteSet(Shown(h, s)) /\ Cardinality(Shown(h, s)) \in Nat
  <2> SUFFICES ASSUME NEW h \in H, NEW s
               PROVE  IsFiniteSet(Shown(h, s)) /\ Cardinality(Shown(h, s)) \in Nat
    OBVIOUS
  <2>1. IsFiniteSet(h.done) /\ Shown(h, s) \in SUBSET h.done
    OBVIOUS
  <2> HIDE DEF Shown
  <2> QED BY <2>1, FS_Subset, FS_CardinalityType
<1>3. T[{}] = 0
  <2>1. \A h \in H : Shown(h, {}) = {}
    OBVIOUS
  <2>2. Count({}) = [h \in H |-> IF h \in {} THEN 1 ELSE 0]
    <3> HIDE DEF Shown
    <3> QED BY <2>1, FS_EmptySet
  <2>3. {} \in SUBSET H
    OBVIOUS
  <2>4. SumFunction(Count({})) = 0
    <3> HIDE DEF Count
    <3> QED BY <2>2, <2>3, CountIsSum, FS_EmptySet
  <2> HIDE DEF Count
  <2> QED BY <2>4
<1>4. ASSUME NEW s \in SUBSET bars, s # {}
      PROVE  T[s] = f[AnyOf(s)] + T[s \ {AnyOf(s)}]
  <2> DEFINE x == AnyOf(s)
             rest == s \ {x}
  <2>1. x \in s
    BY <1>4 DEF AnyOf
  <2> HIDE DEF x
  <2>2. \A h \in H : Cardinality(Shown(h, s)) = Cardinality(Shown(h, {x})) + Cardinality(Shown(h, rest))
    <3> SUFFICES ASSUME NEW h \in H
                 PROVE  Cardinality(Shown(h, s))
                          = Cardinality(Shown(h, {x})) + Cardinality(Shown(h, rest))
      OBVIOUS
    <3> DEFINE A == Shown(h, {x})
               B == Shown(h, rest)
    <3>1. Shown(h, s) = A \cup B
      BY <2>1
    <3>2. A \cap B = {}
      <4> SUFFICES ASSUME NEW day \in from..to, day \in x[1]..x[2],
                          NEW bar \in rest, day \in bar[1]..bar[2]
                   PROVE  FALSE
        OBVIOUS
      <4>1. x \in bars /\ bar \in bars /\ x # bar
        BY <2>1
      <4> QED BY <4>1 DEF Cut
    <3>3. IsFiniteSet(A) /\ IsFiniteSet(B) /\ Cardinality(A) \in Nat /\ Cardinality(B) \in Nat
      <4> HIDE DEF Shown, rest
      <4> QED BY <1>2
    <3> HIDE DEF A, B, Shown
    <3>4. Cardinality(A \cup B) = Cardinality(A) + Cardinality(B) - Cardinality(A \cap B)
      BY <3>3, FS_Union
    <3>5. Cardinality(A \cap B) = 0
      BY <3>2, FS_EmptySet
    <3>6. Cardinality(Shown(h, s)) = Cardinality(A) + Cardinality(B)
      BY <3>1, <3>3, <3>4, <3>5
    <3> QED BY <3>6 DEF A, B
  <2> HIDE DEF Shown
  <2> DEFINE a == Count({x})
             b == Count(rest)
  <2>3. a \in [H -> Int] /\ b \in [H -> Int]
    BY <1>2
  <2>4. Count(s) = [h \in H |-> a[h] + b[h]]
    BY <2>2
  <2>5. T[s] = SumFunction(Count(s)) /\ f[x] = SumFunction(a) /\ T[rest] = SumFunction(b)
    BY <2>1
  <2> HIDE DEF T, f, Count, a, b, rest
  <2>6. SumFunction(Count(s)) = SumFunction(a) + SumFunction(b)
    BY <2>3, <2>4, SumAdds
  <2> QED BY <2>5, <2>6 DEF x, rest
<1>5. SumFunction(f) = T[bars]
  <2>1. DOMAIN f = bars
    OBVIOUS
  <2> HIDE DEF f, T
  <2> QED BY <1>1, <1>3, <1>4, <2>1, SumIsTotal
<1>6. T[bars] = SumFunction([h \in H |-> Cardinality(h.done \cap (from..to))])
  <2>1. \A h \in H : Shown(h, bars) = h.done \cap (from..to)
    BY DEF Cut
  <2>2. Count(bars) = [h \in H |-> Cardinality(h.done \cap (from..to))]
    <3> HIDE DEF Shown
    <3> QED BY <2>1
  <2> HIDE DEF Count
  <2> QED BY <2>2
<1>7. f = [bar \in bars |->
        SumFunction([h \in H |-> Cardinality({day \in h.done : /\ day \in from..to
                                                               /\ day \in bar[1]..bar[2]})])]
  <2>1. \A bar \in bars : \A h \in H :
          Shown(h, {bar}) = {day \in h.done : day \in from..to /\ day \in bar[1]..bar[2]}
    OBVIOUS
  <2>2. \A bar \in bars : Count({bar}) =
          [h \in H |-> Cardinality({day \in h.done : /\ day \in from..to
                                                     /\ day \in bar[1]..bar[2]})]
    <3> HIDE DEF Shown
    <3> QED BY <2>1
  <2> HIDE DEF Count
  <2> QED BY <2>2
<1> HIDE DEF f, T
<1> QED BY <1>5, <1>6, <1>7

\* Every completion of a period stands in exactly one bar of the chart, and the
\* chart of all time shows every completion ever made (_period_weeks, the buckets).
THEOREM ChartCorrect == Spec => []ChartCountsEveryCompletion
<1>1. IInv => ChartCountsEveryCompletion
  <2> SUFFICES ASSUME IInv PROVE ChartCountsEveryCompletion
    OBVIOUS
  <2>1. today \in Int
    BY RowTypes DEF IInv
  <2>2. IsFiniteSet(HabitsOfUser) /\ \A h \in HabitsOfUser : IsFiniteSet(h.done)
    BY UsersHabits
  <2>3. ASSUME NEW range \in Ranges
        PROVE  SumFunction(TrendCounts(range))
                 = SumFunction([h \in HabitsOfUser |-> Cardinality(h.done \cap (StartOf(range)..today))])
    <3>1. StartOf(range) \in Int
      BY PeriodFacts
    <3>2. Cut(TrendBuckets(range), StartOf(range), today)
      <4>1. CASE range = "all"
        BY <2>1, <3>1, <4>1, MonthsCut DEF TrendBuckets
      <4>2. CASE range = "90d"
        BY <2>1, <3>1, <4>2, WeeksCut DEF TrendBuckets
      <4>3. CASE range \notin {"all", "90d"}
        <5>1. TrendBuckets(range) = {<<day, day>> : day \in PeriodDates(StartOf(range), today)}
          BY <4>3 DEF TrendBuckets
        <5> QED BY <2>1, <3>1, <5>1, DaysCut
      <4> QED BY <4>1, <4>2, <4>3
    <3> DEFINE H == HabitsOfUser
               from == StartOf(range)
               bars == TrendBuckets(range)
    <3>3. TrendCounts(range) =
            [bar \in bars |->
               SumFunction([h \in H |-> Cardinality({day \in h.done : /\ day \in from..today
                                                                      /\ day \in bar[1]..bar[2]})])]
      BY Zenon DEF TrendCounts
    <3> HIDE DEF H, from, bars
    <3>4. SumFunction(TrendCounts(range)) = SumFunction([h \in H |-> Cardinality(h.done \cap (from..today))])
      BY <2>1, <2>2, <3>1, <3>2, <3>3, BarsAddUp DEF H, from, bars
    <3> QED BY <3>4 DEF H, from
  <2>4. ASSUME NEW h \in HabitsOfUser PROVE h.done \subseteq StartOf("all")..today
    <3>1. \A day \in h.done : day \in Int /\ day <= today
      <4>1. h.done \in SUBSET Nat /\ \A day \in h.done : day <= today
        BY UsersHabits
      <4> QED BY <4>1
    <3>2. StartOf("all") \in Int /\ \A day \in h.done : StartOf("all") <= day
      BY PeriodFacts DEF Ranges
    <3> QED BY <2>1, <3>1, <3>2
  <2> QED BY <2>3, <2>4 DEF ChartCountsEveryCompletion
<1> QED BY <1>1, Invariant, PTL

=============================================================================
