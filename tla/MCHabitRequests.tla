--------------------------- MODULE MCHabitRequests ---------------------------
(***************************************************************************)
(* Instances of HabitRequests: two requests at once on one or two habits,  *)
(* with midnights in between.                                              *)
(***************************************************************************)
EXTENDS HabitRequests, TLC

CONSTANTS u1, u2

Base ==
  [owner |-> u1, created |-> 1, starts |-> NoDate, ends |-> NoDate, archived |-> FALSE,
   type |-> "daily", cfg |-> [empty |-> TRUE]]

Week(days) == [days |-> days]

\* A daily habit without an end, and a yearly one whose window closes on the first day.
BookRows ==
  {Base, [Base EXCEPT !.ends = 1, !.type = "yearly_date", !.cfg = [month |-> 1, day |-> 1]]}

BookPatches ==
  { [cols |-> {"archived"}, val |-> Base],
    [cols |-> {"starts"}, val |-> [Base EXCEPT !.starts = 2]],
    [cols |-> {"type"}, val |-> [Base EXCEPT !.type = "monthly_day"]] }

\* Rows and bodies for the violation of StoredHabitIsValid.
EditRows == {[Base EXCEPT !.starts = 1, !.ends = 3, !.type = "weekly_days", !.cfg = Week({0})]}

EditPatches ==
  { [cols |-> {"starts"}, val |-> [Base EXCEPT !.starts = 3]],
    [cols |-> {"ends"}, val |-> [Base EXCEPT !.ends = 2]] }

Slots == Permutations(Request)

=============================================================================
