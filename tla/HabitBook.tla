------------------------------ MODULE HabitBook ------------------------------
(***************************************************************************)
(* What the habit tables promise to whoever reads them: the committed rows *)
(* and completions change only by whole requests, each request on behalf   *)
(* of one user.  HabitRequests implements this specification.              *)
(***************************************************************************)
EXTENDS Integers, FiniteSets

CONSTANTS
  Habit,         \* habit ids
  User,          \* owners
  NoRow          \* no row with this id

VARIABLES
  habits,        \* habits[h]: the committed row, or NoRow
  completions,   \* completions[h]: the committed completed_on dates
  today          \* the UTC date

bookVars == <<habits, completions, today>>

Owned(u) == {h \in Habit : habits[h] # NoRow /\ habits[h].owner = u}

BookInit ==
  /\ habits = [h \in Habit |-> NoRow]
  /\ completions = [h \in Habit |-> {}]
  /\ today \in Nat

\* Midnight.
Midnight == today' = today + 1 /\ UNCHANGED <<habits, completions>>

\* A user's request leaves every other user's rows alone, and moves none of
\* the user's own rows to somebody else.
EditsOwnRows(u, others) ==
  \A h \in others :
    habits'[h] # habits[h] => h \in Owned(u) /\ habits'[h] # NoRow /\ habits'[h].owner = u

\* A new habit starts without completions; the request may archive others.
CreateHabit(u, h) ==
  /\ habits[h] = NoRow /\ habits'[h] # NoRow /\ habits'[h].owner = u
  /\ completions[h] = {}
  /\ EditsOwnRows(u, Habit \ {h})
  /\ UNCHANGED <<completions, today>>

\* A request edits or archives rows of its user, and adds or removes at most
\* one date, never a future one, of one of the user's habits.
WorkOnHabits(u) ==
  /\ EditsOwnRows(u, Habit)
  /\ \/ UNCHANGED completions
     \/ \E h \in Owned(u), d \in 1..today :
          \/ d \notin completions[h] /\ completions' = [completions EXCEPT ![h] = @ \cup {d}]
          \/ d \in completions[h] /\ completions' = [completions EXCEPT ![h] = @ \ {d}]
  /\ UNCHANGED today

\* A habit disappears with all of its completions.
DeleteHabit(u, h) ==
  /\ h \in Owned(u)
  /\ habits' = [habits EXCEPT ![h] = NoRow]
  /\ completions' = [completions EXCEPT ![h] = {}]
  /\ UNCHANGED today

BookNext ==
  \/ Midnight
  \/ \E u \in User : WorkOnHabits(u) \/ \E h \in Habit : CreateHabit(u, h) \/ DeleteHabit(u, h)

BookSpec == BookInit /\ [][BookNext]_bookVars

=============================================================================
