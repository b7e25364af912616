------------------------------ MODULE Listings ------------------------------
(***************************************************************************)
(* GET /habits/ and the list of the home page (HabitService.list_habits,   *)
(* HabitRepository.list_habits) while other requests write habits.         *)
(*                                                                         *)
(* The list of today's habits is read in batches by OFFSET, each preceded  *)
(* by a count, then filtered by the due rule, sorted and cut into a page;  *)
(* the other lists are one count and one page.  Every statement has its    *)
(* own snapshot.  Ordering is ascending; descending is its mirror image.   *)
(*                                                                         *)
(* A row is a habit at its place in the order asked for.  An edit may give *)
(* the habit another place: under sort=name when it renames the habit, and *)
(* under sort=updated_at whatever it edits.  The row moved is then one     *)
(* that left the list and another that entered it.                         *)
(***************************************************************************)
EXTENDS Integers, Sequences, FiniteSets

CONSTANTS
  Habit,         \* ids, numbered in the order of created_at
  Keys,          \* for each habit the names, or the times of updated_at, it may have
  DueToday,      \* the habits whose schedule has them due
  Completions,   \* completions of each habit before today
  Streak,        \* and its streak
  BatchSize,     \* max(per_page, 100)
  PerPage,       \* habits on a page
  Asks           \* the listings asked for

Status == {"todays", "active", "completed", "archived", "all"}
Sort == {"created", "edited", "streak"}

ASSUME ListingsAssumption ==
  /\ Habit \subseteq Nat /\ IsFiniteSet(Habit) /\ DueToday \subseteq Habit
  /\ Keys \in [Habit -> SUBSET Nat] /\ \A h \in Habit : Keys[h] # {}
  /\ Completions \in [Habit -> Nat] /\ Streak \in [Habit -> Nat]
  /\ PerPage \in Nat \ {0} /\ BatchSize \in Nat /\ BatchSize >= PerPage
  /\ Asks \subseteq [status : Status, sort : Sort, page : Nat \ {0}]

VARIABLES
  habits,        \* the rows there are
  archived,      \* those archived
  done,          \* those completed today
  key,           \* the name or the updated_at of each habit
  pc,            \* the next statement of the listing
  ask,           \* what is asked for
  total,         \* the result of its last count
  read,          \* the rows read so far
  items,         \* the page it answers with
  left, came     \* history: the rows that left and entered today's list meanwhile

table == <<habits, archived, done, key>>
listing == <<pc, ask, total, read, items>>
vars == <<table, listing, left, came>>

NoAsk == [status |-> "all", sort |-> "created", page |-> 1]
Row == [col : Nat, id : Habit]

Init ==
  /\ habits \in SUBSET Habit /\ archived = {} /\ done = {}
  /\ key \in [Habit -> UNION {Keys[h] : h \in Habit}] /\ \A h \in Habit : key[h] \in Keys[h]
  /\ pc = "idle" /\ ask = NoAsk /\ total = 0 /\ read = <<>> /\ items = <<>>
  /\ left = {} /\ came = {}

-----------------------------------------------------------------------------
(* The query: its filter, its order, its page.                              *)

Listed(status) ==
  CASE status = "todays"    -> habits \ (archived \cup done)
    [] status = "active"    -> habits \ archived
    [] status = "completed" -> (habits \ archived) \cap done
    [] status = "archived"  -> habits \cap archived
    [] status = "all"       -> habits

\* sort=streak orders by the number of completions, "edited" by name or updated_at.
Column(sort, h) ==
  CASE sort = "created" -> h
    [] sort = "edited"  -> key[h]
    [] sort = "streak"  -> Completions[h] + (IF h \in done THEN 1 ELSE 0)

RowOf(sort, h) == [col |-> Column(sort, h), id |-> h]

Table(status, sort) == {RowOf(sort, h) : h \in Listed(status)}

\* created_at breaks the ties.
Precedes(p, q) == p.col < q.col \/ (p.col = q.col /\ p.id < q.id)

\* The members of S in a strict order of them, a set of pairs.
InOrder(S, order) ==
  [n \in 1..Cardinality(S) |->
     CHOOSE h \in S : Cardinality({g \in S : <<g, h>> \in order}) = n - 1]

Rows(status, sort) ==
  LET rows == Table(status, sort)
  IN InOrder(rows, {p \in rows \X rows : Precedes(p[1], p[2])})

Window(seq, skip, limit) ==
  SubSeq(seq, skip + 1, IF skip + limit < Len(seq) THEN skip + limit ELSE Len(seq))

Skip == (ask.page - 1) * PerPage

StreakRow(h) == [col |-> Streak[h], id |-> h]

\* The items made of the rows at some places: sorted in Python, by streak or not at all.
Items(rows, places) ==
  LET Before(i, j) ==
        IF ask.sort = "streak" /\ rows[i].id # rows[j].id
        THEN Precedes(StreakRow(rows[i].id), StreakRow(rows[j].id)) ELSE i < j
      place == InOrder(places, {p \in places \X places : Before(p[1], p[2])})
  IN [n \in 1..Cardinality(places) |-> rows[place[n]].id]

DuePlaces(rows) == {i \in 1..Len(rows) : rows[i].id \in DueToday \ done}

-----------------------------------------------------------------------------
(* The listing.                                                             *)

Ask ==
  /\ pc = "idle"
  /\ ask' \in Asks
  /\ pc' = "count"
  /\ left' = {} /\ came' = {}
  /\ UNCHANGED <<table, total, read, items>>

\* Mutant: the last row is not counted.
CountOneLess ==
  /\ pc = "count"
  /\ total' = Cardinality(Listed(ask.status)) - 1
  /\ pc' = "page"
  /\ UNCHANGED <<ask, read, items, left, came>>

Count ==
  /\ pc = "count"
  /\ total' = Cardinality(Listed(ask.status))
  /\ pc' = "page"
  /\ UNCHANGED <<ask, read, items, left, came>>

ReadBatchFrom(skip) ==
  /\ pc = "page" /\ ask.status = "todays"
  /\ read' = read \o Window(Rows("todays", ask.sort), skip, BatchSize)
  /\ pc' = IF read' = read \/ Len(read') >= total THEN "completions" ELSE "count"
  /\ total' = 0
  /\ UNCHANGED <<ask, items, left, came>>

\* Mutants: the offset is one too large, or one too small.
ReadBatchApart == ReadBatchFrom(Len(read) + 1)
ReadBatchOverlapping == ReadBatchFrom(IF read = <<>> THEN 0 ELSE Len(read) - 1)

\* Mutant: the offset is not advanced.
ReadFirstBatch ==
  /\ pc = "page" /\ ask.status = "todays"
  /\ read' = Window(Rows("todays", ask.sort), 0, BatchSize)
  /\ pc' = IF read' = <<>> THEN "completions" ELSE "count"
  /\ total' = 0
  /\ UNCHANGED <<ask, items, left, came>>

\* One round of _list_habits_for_due_today_filter; skip is the number of rows read,
\* and each round counts anew.
ReadBatch == ReadBatchFrom(Len(read))

ReadPage ==
  /\ pc = "page" /\ ask.status # "todays"
  /\ read' = Window(Rows(ask.status, ask.sort), Skip, PerPage)
  /\ pc' = "completions"
  /\ UNCHANGED <<ask, total, items, left, came>>

\* Mutant: the rows are cut into a page before those not due are dropped.
CutThenFilter ==
  /\ pc = "completions"
  /\ IF ask.status = "todays"
     THEN /\ LET cut == Window(read, Skip, PerPage) IN items' = Items(cut, DuePlaces(cut))
          /\ total' = Len(read)
     ELSE items' = Items(read, 1..Len(read)) /\ UNCHANGED total
  /\ pc' = "answer" /\ read' = <<>>
  /\ UNCHANGED <<ask, left, came>>

\* The completions are read last; whether a habit is due is decided with them.
Build ==
  /\ pc = "completions"
  /\ IF ask.status = "todays"
     THEN LET due == Items(read, DuePlaces(read))
          IN items' = Window(due, Skip, PerPage) /\ total' = Len(due)
     ELSE items' = Items(read, 1..Len(read)) /\ UNCHANGED total
  /\ pc' = "answer" /\ read' = <<>>
  /\ UNCHANGED <<ask, left, came>>

Answer ==
  /\ pc = "answer" /\ pc' = "idle"
  /\ ask' = NoAsk /\ total' = 0 /\ read' = <<>> /\ items' = <<>>
  /\ left' = {} /\ came' = {}

\* A listing only reads.
List ==
  /\ UNCHANGED table
  /\ Count \/ ReadBatch \/ ReadPage \/ Build \/ Answer

-----------------------------------------------------------------------------
(* Other requests of the user (HabitRequests), each with its commit.        *)

Wrote ==
  /\ UNCHANGED listing
  /\ IF ask.status = "todays"
     THEN LET before == Table("todays", ask.sort)
              after == Table("todays", ask.sort)'
          IN left' = left \cup (before \ after) /\ came' = came \cup (after \ before)
     ELSE UNCHANGED <<left, came>>

\* An INSERT and every UPDATE give the row a name and an updated_at.
Stamp(h) == \E k \in Keys[h] : key' = [key EXCEPT ![h] = k]

Create(h) ==
  /\ h \notin habits /\ habits' = habits \cup {h} /\ Stamp(h)
  /\ UNCHANGED <<archived, done>>

Delete(h) ==
  /\ h \in habits /\ habits' = habits \ {h}
  /\ archived' = archived \ {h} /\ done' = done \ {h}
  /\ UNCHANGED key

\* PUT /habits/{id}, of what neither archives the habit nor brings it back.
Edit(h) ==
  /\ h \in habits /\ Stamp(h)
  /\ UNCHANGED <<habits, archived, done>>

Archive(h) ==
  /\ h \in habits /\ archived' = archived \cup {h} /\ Stamp(h)
  /\ UNCHANGED <<habits, done>>

Unarchive(h) ==
  /\ h \in habits /\ archived' = archived \ {h} /\ Stamp(h)
  /\ UNCHANGED <<habits, done>>

Complete(h) ==
  /\ h \in (habits \cap DueToday) \ (archived \cup done) /\ done' = done \cup {h}
  /\ UNCHANGED <<habits, archived, key>>

Incomplete(h) ==
  /\ h \in done \ archived /\ done' = done \ {h}
  /\ UNCHANGED <<habits, archived, key>>

Written(h) ==
  \/ Create(h) \/ Delete(h) \/ Edit(h) \/ Archive(h) \/ Unarchive(h)
  \/ Complete(h) \/ Incomplete(h)

Next == Ask \/ List \/ \E h \in Habit : Written(h) /\ Wrote

\* A listing waits for nobody.
Spec == Init /\ [][Next]_vars /\ WF_vars(List)

-----------------------------------------------------------------------------

TypeOK ==
  /\ habits \subseteq Habit /\ archived \subseteq habits /\ done \subseteq habits
  /\ key \in [Habit -> Nat]
  /\ pc \in {"idle", "count", "page", "completions", "answer"}
  /\ ask \in Asks \cup {NoAsk}
  /\ total \in Nat
  /\ read \in Seq(Row) /\ items \in Seq(Habit)
  /\ left \cup came \subseteq Row

Current == Table("todays", ask.sort)

Reading == pc = "completions" /\ ask.status = "todays"

\* The loop over batches skips a row that has stayed at its place all the time only
\* when the rows in front of it have changed meanwhile: one has left the place it had
\* (completed, archived, deleted or edited), or one has entered after the count that
\* the loop ends with.
SkipsOnlyAfterChange ==
  Reading =>
    \A q \in Current \ ({read[i] : i \in 1..Len(read)} \cup came) :
      \E p \in left \cup came : Precedes(p, q)

\* It reads a habit twice only when that habit has entered the list or moved within
\* it, or another has entered or moved to a place in front of it.
TwiceOnlyAfterInsertion ==
  Reading =>
    \A i, j \in 1..Len(read) :
      i < j /\ read[i].id = read[j].id =>
        \E p \in came : p.id = read[i].id \/ Precedes(p, read[i])

DueHabits == {h \in DueToday : h \in habits /\ h \notin archived /\ h \notin done}

\* The rows of these habits as the page shows them, by streak or as the query has them.
ShownAs(sort) ==
  [h \in DueHabits |-> IF sort = "streak" THEN StreakRow(h) ELSE RowOf(sort, h)]

\* The number of rows in front of that of h.
PlaceIn(shown, h) == Cardinality({g \in DOMAIN shown : Precedes(shown[g], shown[h])})

PageIsExact(shown, page, count, answer) ==
  /\ count = Cardinality(DOMAIN shown)
  /\ {answer[i] : i \in 1..Len(answer)} =
       {h \in DOMAIN shown : PlaceIn(shown, h) \div PerPage = page - 1}
  /\ \A i \in 1..Len(answer) : PlaceIn(shown, answer[i]) = (page - 1) * PerPage + i - 1

\* When nobody writes meanwhile, the page of today's habits is the page asked for, of
\* the habits due, in the order asked for, and the total is their number; the filter
\* in SQL, the loop, the filter by schedule, the second sort and the cut agree.
QuietPageIsExact ==
  pc = "answer" /\ ask.status = "todays" /\ left \cup came = {} =>
    PageIsExact(ShownAs(ask.sort), ask.page, total, items)

-----------------------------------------------------------------------------
(* Why this is so: what holds while the batches are read.                   *)

Batches == ask.status = "todays" /\ pc \in {"count", "page"}

\* The number of rows in front of q, its offset.
Offset(q) == Cardinality({p \in Current : Precedes(p, q)})

\* Neither q nor any row in front of it has left or entered since the listing began;
\* or none of them has entered.
Undisturbed(q) ==
  q \in Current \ came /\ \A p \in left \cup came : ~Precedes(p, q)

NotPushedBack(q) ==
  q \in Current \ came /\ \A p \in came : ~Precedes(p, q)

\* The offset of an undisturbed row does not change: it has been read once the
\* offset of the batches is past it, and the last count counted it.
PassedIsRead ==
  Batches =>
    \A q \in Current : Undisturbed(q) =>
      /\ Offset(q) < Len(read) => q \in {read[i] : i \in 1..Len(read)}
      /\ pc = "page" => Offset(q) < total

\* A row read at some offset can only move to the front, out of the next batches.
ReadIsPassed ==
  Batches => \A i \in 1..Len(read) : NotPushedBack(read[i]) => Offset(read[i]) < i

\* What has been read was on the list, and a habit has had one place on it unless it
\* has moved.
ReadWasListed ==
  Batches =>
    /\ \A i \in 1..Len(read) : read[i] \in Current \cup left
    /\ \A p, q \in (Current \cup left) \ came : p.id = q.id => p = q

NoneReadTwice ==
  Batches =>
    \A i, j \in 1..Len(read) :
      i < j /\ read[i].id = read[j].id =>
        \E p \in came : p.id = read[i].id \/ Precedes(p, read[i])

\* When nobody writes, the rows read so far are the first rows of the list.
QuietReadIsExact ==
  (Batches \/ Reading) /\ left \cup came = {} =>
    /\ \A i \in 1..Len(read) : read[i] \in Current /\ Offset(read[i]) = i - 1
    /\ pc = "page" => total = Cardinality(Current)
    /\ pc = "completions" => Len(read) >= Cardinality(Current)

IInv ==
  /\ TypeOK
  /\ pc = "idle" => read = <<>>
  /\ PassedIsRead /\ SkipsOnlyAfterChange
  /\ ReadIsPassed /\ ReadWasListed /\ NoneReadTwice /\ TwiceOnlyAfterInsertion
  /\ QuietReadIsExact /\ QuietPageIsExact

-----------------------------------------------------------------------------

\* Every listing ends, though rows are created and return while it reads, and though
\* it counts them again before each batch.
ListingEnds == pc # "idle" ~> pc = "idle"

=============================================================================
