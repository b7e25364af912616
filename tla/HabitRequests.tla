---------------------------- MODULE HabitRequests ----------------------------
(***************************************************************************)
(* HTTP requests of HabitService running concurrently on one PostgreSQL    *)
(* database.  Every request is one transaction (database/connection.py,    *)
(* get_db): it commits when its handler has returned, also when the        *)
(* handler returned an error response, and rolls back when it raised.      *)
(*                                                                         *)
(* One step is one SQL statement with the Python up to the next one.       *)
(* Under READ COMMITTED a statement sees what is committed when it starts  *)
(* and the transaction's own writes; it waits for the row locks that other *)
(* transactions hold until they end.                                       *)
(***************************************************************************)
EXTENDS HabitSchedule

CONSTANTS
  Request,       \* request slots: so many requests may run at once
  Habit,         \* habit ids
  User,          \* owners
  Ops,           \* the operations of HabitService that requests perform
  Patches,       \* bodies of PUT /habits/{id}: the columns sent and their values
  NewRows,       \* rows that POST /habits/ may insert, by any owner
  NoRow,         \* no such row
  MaxDay         \* bound on the date

Columns == {"starts", "ends", "archived", "type", "cfg"}

Operations == {"list", "create", "update", "delete", "complete", "incomplete"}

\* normalize_schedule_config keeps the fields of the type, when all are there, and
\* drops the others.  What then does not fit is refused.
Fields ==
  [daily |-> {"empty"}, weekly_days |-> {"days"}, monthly_day |-> {"day"},
   yearly_date |-> {"month", "day"}, interval_cycle |-> {"active", "break"}]

Normalized(type, cfg) ==
  IF Fields[type] \subseteq DOMAIN cfg THEN [f \in Fields[type] |-> cfg[f]] ELSE cfg

Sent == {row.cfg : row \in NewRows} \cup {p.val.cfg : p \in Patches}

Configs == Sent \cup {Normalized(type, cfg) : type \in ScheduleTypes, cfg \in Sent}

Day == 1..MaxDay

Row ==
  [owner : User, created : Day, starts : Day \cup {NoDate}, ends : Day \cup {NoDate},
   archived : BOOLEAN, type : ScheduleTypes, cfg : Configs]

Patch == [cols : SUBSET Columns, val : Row]

ASSUME RequestsAssumption ==
  /\ Ops \subseteq Operations
  /\ NewRows \subseteq Row /\ NewRows # {}
  /\ Patches \subseteq Patch
  /\ NoRow \notin Row
  /\ Habit # {}
  /\ MaxDay \in Nat \ {0}

VARIABLES
  habits,        \* committed rows of the table habits
  completions,   \* committed habit_completions: the dates of each habit
  used,          \* ids given out so far: a uuid4 is never given twice
  today,         \* the UTC date
  pc,            \* the next statement of each request
  req,           \* its parameters, and the date it took as today
  seen,          \* the habit as its last SELECT returned it
  picked,        \* the ids its SELECT of expired habits returned
  writes         \* what it has written and not committed

vars == <<habits, completions, used, today, pc, req, seen, picked, writes>>

-----------------------------------------------------------------------------

Steps ==
  {"idle", "archiveSelect", "archiveUpdate", "insertHabit", "getHabit", "reread", "flush",
   "listCompletions", "addCheck", "insert", "removeCheck", "remove", "delete", "commit"}

SomeRow == CHOOSE row \in NewRows : TRUE

NoPatch == [cols |-> {}, val |-> SomeRow]

NoReq ==
  [op |-> "list", user |-> SomeRow.owner, habit |-> CHOOSE h \in Habit : TRUE,
   patch |-> NoPatch, clock |-> 1, changed |-> FALSE]

NoWrites ==
  [arch |-> {}, cols |-> {}, val |-> SomeRow,
   ins |-> FALSE, del |-> FALSE, gone |-> FALSE, new |-> FALSE]

Init ==
  /\ habits = [h \in Habit |-> NoRow]
  /\ completions = [h \in Habit |-> {}]
  /\ used = {}
  /\ today = 1
  /\ pc = [r \in Request |-> "idle"]
  /\ req = [r \in Request |-> NoReq]
  /\ seen = [r \in Request |-> NoRow]
  /\ picked = [r \in Request |-> {}]
  /\ writes = [r \in Request |-> NoWrites]

-----------------------------------------------------------------------------
(* PostgreSQL: locks and visibility.                                        *)

\* Rows of habits this transaction has updated or deleted.
RowLocks(r) ==
  writes[r].arch \cup (IF writes[r].cols # {} \/ writes[r].gone THEN {req[r].habit} ELSE {})

\* Habits with a completion this transaction has inserted (a key-share lock of
\* the foreign key) or deleted (a row the cascade of a DELETE would wait for).
CompletionLocks(r) ==
  IF writes[r].ins \/ writes[r].del THEN {req[r].habit} ELSE {}

Others(r) == Request \ {r}

CanUpdateRows(r, hs) == \A s \in Others(r) : RowLocks(s) \cap hs = {}

CanDeleteRow(r, h) ==
  \A s \in Others(r) : h \notin RowLocks(s) /\ h \notin CompletionLocks(s)

\* Nobody else is adding or removing this date, or deleting the habit.
CanTouchCompletion(r, h, d) ==
  \A s \in Others(r) :
    req[s].habit = h =>
      ~writes[s].gone /\ ~(req[s].clock = d /\ (writes[s].ins \/ writes[s].del))

Overlay(row, cols, val) ==
  [row EXCEPT
     !.starts   = IF "starts" \in cols THEN val.starts ELSE row.starts,
     !.ends     = IF "ends" \in cols THEN val.ends ELSE row.ends,
     !.archived = IF "archived" \in cols THEN val.archived ELSE row.archived,
     !.type     = IF "type" \in cols THEN val.type ELSE row.type,
     !.cfg      = IF "cfg" \in cols THEN val.cfg ELSE row.cfg]

Archived(row) == [row EXCEPT !.archived = TRUE]

\* Mutant: the SELECT is not scoped to the owner.
SelectAnyHabit(r, h) ==
  IF habits[h] # NoRow /\ h \in writes[r].arch THEN Archived(habits[h]) ELSE habits[h]

\* An owner-scoped SELECT of one habit.  Before its last statement a request
\* has written nothing but the archiving UPDATE.
SelectHabit(r, h) ==
  IF habits[h] # NoRow /\ habits[h].owner = req[r].user
  THEN (IF h \in writes[r].arch THEN Archived(habits[h]) ELSE habits[h])
  ELSE NoRow

Forget(r) ==
  /\ pc' = [pc EXCEPT ![r] = "idle"]
  /\ req' = [req EXCEPT ![r] = NoReq]
  /\ seen' = [seen EXCEPT ![r] = NoRow]
  /\ picked' = [picked EXCEPT ![r] = {}]
  /\ writes' = [writes EXCEPT ![r] = NoWrites]

\* An exception reaches get_db, which rolls back.
Abort(r) == Forget(r) /\ UNCHANGED <<habits, completions, used, today>>

Goto(r, step) ==
  pc' = [pc EXCEPT ![r] = step] /\ UNCHANGED <<habits, completions, used, today>>

-----------------------------------------------------------------------------
(* The archiving of expired habits, which every request but DELETE starts with. *)

Begin(r) ==
  /\ pc[r] = "idle"
  /\ \E op \in Ops, u \in User, h \in Habit, p \in Patches \cup {NoPatch} :
       /\ p # NoPatch => op = "update"
       /\ op = "list" => h = NoReq.habit
       /\ req' = [req EXCEPT ![r] = [op |-> op, user |-> u, habit |-> h, patch |-> p,
                                     clock |-> today, changed |-> FALSE]]
       /\ Goto(r, IF op = "delete" THEN "delete" ELSE "archiveSelect")
  /\ UNCHANGED <<seen, picked, writes>>

\* Where the handler goes on once expired habits are archived.
AfterArchive(r) ==
  CASE req[r].op = "list" -> "commit"
    [] req[r].op = "create" -> "insertHabit"
    [] OTHER -> "getHabit"

ExpiredHabits(r) ==
  {h \in Habit : /\ habits[h] # NoRow
                 /\ habits[h].owner = req[r].user
                 /\ ~habits[h].archived
                 /\ ShouldBeArchived(habits[h], req[r].clock)}

\* archive_expired_habits: SELECT the ids.
ArchiveSelect(r) ==
  /\ pc[r] = "archiveSelect"
  /\ picked' = [picked EXCEPT ![r] = ExpiredHabits(r)]
  /\ Goto(r, IF ExpiredHabits(r) = {} THEN AfterArchive(r) ELSE "archiveUpdate")
  /\ UNCHANGED <<req, seen, writes>>

\* archive_expired_habits: UPDATE these ids, whatever became of their dates.
ArchiveUpdate(r) ==
  /\ pc[r] = "archiveUpdate"
  /\ CanUpdateRows(r, picked[r])
  /\ writes' = [writes EXCEPT ![r].arch =
       {h \in picked[r] : habits[h] # NoRow /\ habits[h].owner = req[r].user}]
  /\ picked' = [picked EXCEPT ![r] = {}]
  /\ Goto(r, AfterArchive(r))
  /\ UNCHANGED <<req, seen>>

-----------------------------------------------------------------------------
(* create_habit and delete_habit.                                           *)

\* The new row is archived at once when its window is already over.
InsertHabit(r) ==
  /\ pc[r] = "insertHabit"
  /\ req[r].habit \notin used
  /\ \E row \in NewRows :
       /\ row.starts # NoDate /\ row.ends # NoDate => row.starts <= row.ends
       /\ ConfigFits(row.type, row.cfg)
       /\ writes' = [writes EXCEPT ![r].new = TRUE, ![r].val =
            [row EXCEPT !.owner = req[r].user, !.created = today,
                        !.archived = ShouldBeArchived(row, today)]]
  /\ used' = used \cup {req[r].habit}
  /\ pc' = [pc EXCEPT ![r] = "commit"]
  /\ UNCHANGED <<habits, completions, today, req, seen, picked>>

\* DELETE, cascading to the completions; a miss raises the 404.
DeleteHabit(r) ==
  /\ pc[r] = "delete"
  /\ IF SelectHabit(r, req[r].habit) = NoRow THEN Abort(r)
     ELSE /\ CanDeleteRow(r, req[r].habit)
          /\ writes' = [writes EXCEPT ![r].gone = TRUE]
          /\ Goto(r, "commit")
          /\ UNCHANGED <<req, seen, picked>>

-----------------------------------------------------------------------------
(* update_habit.                                                            *)

\* _normalize_updated_schedule and _normalize_updated_dates: a column of a pair
\* that was not sent is filled in from the row read before, and sent with it.
MergedPatch(p, row) ==
  LET dates == IF p.cols \cap {"starts", "ends"} = {} THEN {} ELSE {"starts", "ends"}
      schedule == IF p.cols \cap {"type", "cfg"} = {} THEN {} ELSE {"type", "cfg"}
      sent == Overlay(row, p.cols, p.val)
      val == IF schedule = {} THEN sent
             ELSE [sent EXCEPT !.cfg = Normalized(sent.type, sent.cfg)]
      expires == /\ dates # {} /\ ShouldBeArchived(val, today)
                 /\ ~("archived" \in p.cols /\ p.val.archived)
  IN [cols |-> p.cols \cup dates \cup schedule \cup (IF expires THEN {"archived"} ELSE {}),
      val  |-> IF expires THEN Archived(val) ELSE val]

\* The ValueErrors of the two functions, on the merged values.
PatchIsValid(m) ==
  /\ "starts" \in m.cols /\ m.val.starts # NoDate /\ m.val.ends # NoDate
       => m.val.starts <= m.val.ends
  /\ "type" \in m.cols => ConfigFits(m.val.type, m.val.cfg)

\* The second SELECT, in OwnedRepository.update.
Reread(r) ==
  /\ pc[r] = "reread"
  /\ LET row == SelectHabit(r, req[r].habit)
     IN /\ seen' = [seen EXCEPT ![r] = row]
        /\ Goto(r, IF row = NoRow THEN "commit" ELSE "flush")
  /\ UNCHANGED <<req, picked, writes>>

ColumnChanged(c, new, old) ==
  \/ c = "starts" /\ new.starts # old.starts
  \/ c = "ends" /\ new.ends # old.ends
  \/ c = "archived" /\ new.archived # old.archived
  \/ c = "type" /\ new.type # old.type
  \/ c = "cfg" /\ new.cfg # old.cfg

\* The ORM's UPDATE: only the columns whose value differs from the row just read.
\* A row deleted meanwhile is a StaleDataError.
Flush(r) ==
  /\ pc[r] = "flush"
  /\ LET p == req[r].patch
         dirty == {c \in p.cols : ColumnChanged(c, p.val, seen[r])}
         h == req[r].habit
     IN IF dirty = {}
        THEN Goto(r, "commit") /\ UNCHANGED <<req, seen, picked, writes>>
        ELSE /\ CanUpdateRows(r, {h})
             /\ IF habits[h] = NoRow THEN Abort(r)
                ELSE /\ writes' = [writes EXCEPT ![r].cols = dirty, ![r].val = p.val]
                     /\ Goto(r, "commit")
                     /\ UNCHANGED <<req, seen, picked>>

-----------------------------------------------------------------------------
(* complete_habit and incomplete_habit, for the request's own date.         *)

\* list_completion_dates, then the due rule on the row read before.
ListCompletions(r) ==
  /\ pc[r] = "listCompletions"
  /\ IF /\ ConfigFits(seen[r].type, seen[r].cfg)
        /\ IsHabitDue(seen[r], completions[req[r].habit], req[r].clock, FALSE, TRUE)
     THEN Goto(r, "addCheck") /\ UNCHANGED <<req, seen, picked, writes>>
     ELSE Abort(r)

\* add_completion: nothing to do for a habit that is gone or a date that is there.
AddCheck(r) ==
  /\ pc[r] = "addCheck"
  /\ Goto(r, IF \/ SelectHabit(r, req[r].habit) = NoRow
                \/ req[r].clock \in completions[req[r].habit]
             THEN "commit" ELSE "insert")
  /\ UNCHANGED <<req, seen, picked, writes>>

\* Mutant: the table has neither the unique constraint nor the foreign key.
InsertWithoutConstraints(r) ==
  /\ pc[r] = "insert"
  /\ writes' = [writes EXCEPT ![r].ins = TRUE]
  /\ req' = [req EXCEPT ![r].changed = TRUE]
  /\ Goto(r, "commit")
  /\ UNCHANGED <<seen, picked>>

\* The INSERT, under the unique constraint (habit_id, completed_on) and the
\* foreign key; their violation is an IntegrityError nobody handles.
Insert(r) ==
  /\ pc[r] = "insert"
  /\ LET h == req[r].habit
     IN /\ CanTouchCompletion(r, h, req[r].clock)
        /\ IF habits[h] = NoRow \/ req[r].clock \in completions[h] THEN Abort(r)
           ELSE /\ writes' = [writes EXCEPT ![r].ins = TRUE]
                /\ req' = [req EXCEPT ![r].changed = TRUE]
                /\ Goto(r, "commit")
                /\ UNCHANGED <<seen, picked>>

\* remove_completion: SELECT, then DELETE; the answer is the SELECT's.
RemoveCheck(r) ==
  /\ pc[r] = "removeCheck"
  /\ Goto(r, IF /\ SelectHabit(r, req[r].habit) # NoRow
                /\ req[r].clock \in completions[req[r].habit]
             THEN "remove" ELSE "commit")
  /\ UNCHANGED <<req, seen, picked, writes>>

Remove(r) ==
  /\ pc[r] = "remove"
  /\ CanTouchCompletion(r, req[r].habit, req[r].clock)
  /\ writes' = [writes EXCEPT ![r].del = req[r].clock \in completions[req[r].habit]]
  /\ req' = [req EXCEPT ![r].changed = TRUE]
  /\ Goto(r, "commit")
  /\ UNCHANGED <<seen, picked>>

-----------------------------------------------------------------------------

\* get_habit in update_habit: a missing habit, a body without columns and a
\* ValueError are answered without an exception, so the request still commits.
GetForUpdate(r) ==
  /\ pc[r] = "getHabit" /\ req[r].op = "update"
  /\ LET row == SelectHabit(r, req[r].habit)
         merged == MergedPatch(req[r].patch, row)
     IN IF row = NoRow \/ req[r].patch.cols = {}
        THEN Goto(r, "commit") /\ UNCHANGED req
        ELSE /\ req' = [req EXCEPT ![r].patch = merged]
             /\ Goto(r, IF PatchIsValid(merged) THEN "reread" ELSE "commit")
  /\ UNCHANGED <<seen, picked, writes>>

\* get_habit in complete_habit and incomplete_habit: errors are raised.
GetForCompletion(r) ==
  /\ pc[r] = "getHabit" /\ req[r].op \in {"complete", "incomplete"}
  /\ LET row == SelectHabit(r, req[r].habit)
     IN IF row = NoRow \/ row.archived THEN Abort(r)
        ELSE /\ seen' = [seen EXCEPT ![r] = row]
             /\ Goto(r, IF req[r].op = "complete" THEN "listCompletions" ELSE "removeCheck")
             /\ UNCHANGED <<req, picked, writes>>

-----------------------------------------------------------------------------
(* The end of the transaction.                                              *)

CommittedRow(r, h) ==
  LET w == writes[r]
      row == IF h \in w.arch THEN Archived(habits[h]) ELSE habits[h]
  IN CASE h = req[r].habit /\ w.new -> w.val
       [] h = req[r].habit /\ w.gone -> NoRow
       [] h = req[r].habit /\ ~w.new /\ ~w.gone /\ w.cols # {} -> Overlay(row, w.cols, w.val)
       [] OTHER -> row

\* Mutant: the completion is filed under the date after the request's.
CommittedDatesLate(r, h) ==
  IF h = req[r].habit /\ writes[r].ins THEN completions[h] \cup {req[r].clock + 1}
                                       ELSE completions[h]

CommittedDates(r, h) ==
  LET w == writes[r]
  IN CASE h # req[r].habit -> completions[h]
       [] h = req[r].habit /\ w.gone -> {}
       [] h = req[r].habit /\ w.ins /\ ~w.gone -> completions[h] \cup {req[r].clock}
       [] h = req[r].habit /\ w.del /\ ~w.ins /\ ~w.gone -> completions[h] \ {req[r].clock}
       [] OTHER -> completions[h]

Commit(r) ==
  /\ pc[r] = "commit"
  /\ habits' = [h \in Habit |-> CommittedRow(r, h)]
  /\ completions' = [h \in Habit |-> CommittedDates(r, h)]
  /\ Forget(r)
  /\ UNCHANGED <<used, today>>

\* A lost connection, a cancelled request or a crash of the server process.
Rollback(r) == pc[r] # "idle" /\ Abort(r)

\* Midnight, between any two statements.
Midnight ==
  /\ today < MaxDay
  /\ today' = today + 1
  /\ UNCHANGED <<habits, completions, used, pc, req, seen, picked, writes>>

Step(r) ==
  \/ Begin(r) \/ ArchiveSelect(r) \/ ArchiveUpdate(r)
  \/ InsertHabit(r) \/ DeleteHabit(r)
  \/ GetForUpdate(r) \/ Reread(r) \/ Flush(r)
  \/ GetForCompletion(r) \/ ListCompletions(r) \/ AddCheck(r) \/ Insert(r)
  \/ RemoveCheck(r) \/ Remove(r)
  \/ Commit(r) \/ Rollback(r)

Next == Midnight \/ \E r \in Request : Step(r)

Spec == Init /\ [][Next]_vars

-----------------------------------------------------------------------------

WritesType ==
  [arch : SUBSET Habit, cols : SUBSET Columns, val : Row,
   ins : BOOLEAN, del : BOOLEAN, gone : BOOLEAN, new : BOOLEAN]

ReqType ==
  [op : Operations, user : User, habit : Habit, patch : Patch,
   clock : Day, changed : BOOLEAN]

TypeOK ==
  /\ habits \in [Habit -> Row \cup {NoRow}]
  /\ completions \in [Habit -> SUBSET Day]
  /\ used \subseteq Habit
  /\ today \in Day
  /\ pc \in [Request -> Steps]
  /\ req \in [Request -> ReqType]
  /\ seen \in [Request -> Row \cup {NoRow}]
  /\ picked \in [Request -> SUBSET Habit]
  /\ writes \in [Request -> WritesType]

\* A completion never lies in the future, whatever midnights pass between the
\* statements of the request that adds it (complete_habit refuses such dates).
NoFutureCompletion == \A h \in Habit : \A d \in completions[h] : d <= today

\* A completion never outlives its habit, although DELETE and complete interleave
\* statement by statement (the foreign key and its cascade).
NoOrphanCompletion == \A h \in Habit : completions[h] # {} => habits[h] # NoRow

\* PATCH complete answers changed = true only if its commit adds the completion:
\* of all concurrent requests for one habit and day, one is told so.  (PATCH incomplete
\* gives no such promise: two that find the completion both answer changed = true.)
ChangedAddIsReal ==
  [][\A r \in Request :
       Commit(r) /\ req[r].op = "complete" /\ req[r].changed => completions' # completions]_vars

\* A commit touches only habits that are, or become, the requesting user's own: no id
\* in a path reaches the row or the completions of another user, although the archiving
\* UPDATE, the UPDATE of the ORM and the statements on completions name no owner and
\* rely on a SELECT some statements before (OwnedRepository, HabitRepository).
OwnHabitsOnly ==
  [][\A r \in Request : Commit(r) =>
       \A h \in Habit :
         habits'[h] # habits[h] \/ completions'[h] # completions[h] =>
           {row.owner : row \in {habits[h], habits'[h]} \ {NoRow}} = {req[r].user}]_vars

-----------------------------------------------------------------------------
(* The inductive invariant: what the locks and the constraints guarantee    *)
(* about the uncommitted writes.                                            *)

\* Until its last statement a request has written nothing but the archiving
\* UPDATE; the last statement makes one kind of write.
OneWriteAtMost(r) ==
  LET w == writes[r]
  IN /\ pc[r] \in {"idle", "archiveSelect", "archiveUpdate", "delete"} => w.arch = {}
     /\ pc[r] # "commit" => w.cols = {} /\ ~w.ins /\ ~w.del /\ ~w.gone /\ ~w.new
     /\ w.new => w.cols = {} /\ ~w.ins /\ ~w.del /\ ~w.gone
     /\ w.gone => w.cols = {} /\ ~w.ins /\ ~w.del /\ w.arch = {}
     /\ w.cols # {} => ~w.ins /\ ~w.del
     /\ ~(w.ins /\ w.del)

\* What a request has locked exists and belongs to its user.
LockedRowsExist(r) ==
  \A h \in RowLocks(r) \cup CompletionLocks(r) :
    habits[h] # NoRow /\ habits[h].owner = req[r].user

\* A pending INSERT is of a new date, a pending DELETE of an old one.
PendingDateFits(r) ==
  /\ writes[r].ins => req[r].clock \notin completions[req[r].habit]
  /\ writes[r].del => req[r].clock \in completions[req[r].habit]

\* A row being created has no predecessor.
NewIdIsFresh(r) ==
  writes[r].new => /\ req[r].habit \in used
                   /\ habits[req[r].habit] = NoRow
                   /\ writes[r].val.owner = req[r].user

Writing == {"insert", "remove", "flush"}

\* The habit a request is about to write to, if it is still there, is its user's.
TargetIsOwned(r) ==
  pc[r] \in Writing =>
    /\ req[r].habit \in used
    /\ habits[req[r].habit] # NoRow => habits[req[r].habit].owner = req[r].user

\* Two requests never hold conflicting locks.
LocksExclude(r, s) ==
  /\ RowLocks(r) \cap RowLocks(s) = {}
  /\ writes[s].gone => req[s].habit \notin CompletionLocks(r)
  /\ ~ /\ req[r].habit = req[s].habit /\ req[r].clock = req[s].clock
       /\ writes[r].ins \/ writes[r].del
       /\ writes[s].ins \/ writes[s].del

\* Nobody else creates, or is about to write to, a row that is being created.
NewIdIsPrivate(r, s) ==
  writes[s].new /\ req[r].habit = req[s].habit => ~writes[r].new /\ pc[r] \notin Writing

RequestInv(r) ==
  /\ req[r].clock <= today
  /\ OneWriteAtMost(r) /\ LockedRowsExist(r) /\ PendingDateFits(r)
  /\ NewIdIsFresh(r) /\ TargetIsOwned(r)

PairInv(r, s) == LocksExclude(r, s) /\ NewIdIsPrivate(r, s)

IInv ==
  /\ TypeOK /\ NoFutureCompletion /\ NoOrphanCompletion
  /\ \A h \in Habit : habits[h] # NoRow => h \in used
  /\ \A r \in Request : RequestInv(r)
  /\ \A r, s \in Request : r # s => PairInv(r, s)

\* A request that will answer changed = true to PATCH complete has its INSERT pending.
AnswerInv ==
  \A r \in Request :
    /\ pc[r] \in {"removeCheck", "remove"} => req[r].op = "incomplete"
    /\ req[r].op = "complete" /\ req[r].changed => writes[r].ins

-----------------------------------------------------------------------------

\* The requests, statement by statement, implement the book of habits in which
\* every request is one step of its user.
Book == INSTANCE HabitBook

ImplementsBook == Book!BookSpec

\* A stored habit is one that PUT and POST would accept: its window is not
\* inverted and its configuration fits its schedule type.
StoredHabitIsValid ==
  \A h \in Habit :
    habits[h] # NoRow =>
      /\ habits[h].starts # NoDate /\ habits[h].ends # NoDate
           => habits[h].starts <= habits[h].ends
      /\ ConfigFits(habits[h].type, habits[h].cfg)

=============================================================================
