----------------------------- MODULE MCListings -----------------------------
(* Three habits, two of them due today, read in batches of one; an edit can *)
(* move the first one behind the others and back.                           *)
EXTENDS Listings

MCKeys == <<{1, 3}, {2}, {2}>>
MCCompletions == <<2, 0, 1>>
MCAsks ==
  {[status |-> "todays", sort |-> "edited", page |-> 2],
   [status |-> "todays", sort |-> "streak", page |-> 1]} \cup
  [status : Status \ {"todays"}, sort : {"created", "streak"}, page : {2}]
MCStreak == <<1, 2, 0>>

=============================================================================
