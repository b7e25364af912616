-------------------------------- MODULE Themes --------------------------------
(***************************************************************************)
(* The requests on themes and tasks: ThemeService, TaskService and their   *)
(* repositories on PostgreSQL under READ COMMITTED, one SQL statement per  *)
(* step with the Python up to the next one.                                *)
(*                                                                         *)
(* A request makes at most one write, in its last statement before the     *)
(* commit; a request that returns or fails without a write just ends.  The *)
(* columns nobody checks (descriptions, priorities, the name of a task)    *)
(* are left out.  Habits are filed under themes as tasks are.              *)
(***************************************************************************)
EXTENDS Integers, FiniteSets

CONSTANTS
  Request,       \* request slots
  User,          \* owners
  Theme, Task,   \* ids of rows
  Name,          \* names of themes
  Color,         \* colors of themes
  NoThemeLabel,  \* what a page calls tasks without a theme; a theme may be called so, too
  HashColor,     \* the color that string_to_hex makes of a name, in upper case
  Bodies,        \* bodies of POST and PUT: the columns sent and their values
  Ops,           \* what requests do
  None           \* no row, no theme, no color: "choose one for me"

Operations ==
  {"createTheme", "updateTheme", "deleteTheme",
   "createTask", "updateTask", "completeTask", "incompleteTask", "deleteTask",
   "statistics"}

ThemeRow == [owner : User, name : Name, color : Color]
TaskRow == [owner : User, theme : Theme \cup {None}, done : BOOLEAN]
Body ==
  [sent : SUBSET {"name", "color"}, name : Name \cup {None}, color : Color \cup {None}]

ASSUME ThemesAssumption ==
  /\ Ops \subseteq Operations
  /\ Bodies \subseteq Body /\ \A b \in Bodies : "name" \in b.sent => b.name # None
  /\ HashColor \in [Name -> Color] /\ NoThemeLabel \in Name
  /\ Theme \cap Task = {}
  /\ None \notin User \cup Theme \cup Task \cup Name \cup Color \cup ThemeRow \cup TaskRow

VARIABLES
  themes,        \* themes[t]: the committed row, or None
  tasks,         \* tasks[k]: the committed row, or None
  used,          \* ids handed out so far: a uuid4 is never given twice
  pc,            \* the next statement of each request
  req,           \* what the request is about
  seen,          \* the row it read last, or the rows, or None
  write          \* its uncommitted write: the row with this id becomes row

vars == <<themes, tasks, used, pc, req, seen, write>>

Steps ==
  {"idle", "byName", "byColor", "generate", "insertTheme", "getTheme", "reread",
   "flushTheme", "deleteTheme", "findTheme", "insertTask", "getTask", "rereadTask",
   "flushTask", "deleteTask", "readTasks", "readNames", "commit"}

NoBody == [sent |-> {}, name |-> None, color |-> None]
NoReq == [op |-> "none", user |-> None, theme |-> None, task |-> None, body |-> NoBody]
NoWrite == [on |-> None, row |-> None]

Init ==
  /\ themes = [t \in Theme |-> None]
  /\ tasks = [k \in Task |-> None]
  /\ used = {}
  /\ pc = [r \in Request |-> "idle"]
  /\ req = [r \in Request |-> NoReq]
  /\ seen = [r \in Request |-> None]
  /\ write = [r \in Request |-> NoWrite]

Goto(r, step) == pc' = [pc EXCEPT ![r] = step]

\* The end of a request: a response, or an exception and its rollback.
End(r) ==
  /\ pc' = [pc EXCEPT ![r] = "idle"]
  /\ req' = [req EXCEPT ![r] = NoReq]
  /\ seen' = [seen EXCEPT ![r] = None]
  /\ write' = [write EXCEPT ![r] = NoWrite]

Proceed(r, step) == Goto(r, step) /\ UNCHANGED <<req, seen, write>>

Read(r, row, step) ==
  /\ seen' = [seen EXCEPT ![r] = row]
  /\ Goto(r, step) /\ UNCHANGED <<req, write>>

Write(r, id, row) ==
  /\ write' = [write EXCEPT ![r] = [on |-> id, row |-> row]]
  /\ Goto(r, "commit") /\ UNCHANGED <<req, seen>>

-----------------------------------------------------------------------------
(* What a statement sees: committed rows, within the user's own.            *)

\* Mutant: the SELECT is not scoped to the owner.
SelectAnyTheme(r, t) == themes[t]

SelectTheme(r, t) ==
  IF themes[t] # None /\ themes[t].owner = req[r].user THEN themes[t] ELSE None

SelectTask(r, k) ==
  IF tasks[k] # None /\ tasks[k].owner = req[r].user THEN tasks[k] ELSE None

OwnThemes(r) == {t \in Theme : SelectTheme(r, t) # None}

-----------------------------------------------------------------------------
(* What a statement waits for: the uncommitted writes of others.            *)

Others(r) == Request \ {r}

BeingWritten(r, id) == \E s \in Others(r) : write[s].on = id

\* A delete or a rename of the theme: it excludes new references to the row.
KeyBeingChanged(r, t) ==
  \E s \in Others(r) :
    /\ write[s].on = t
    /\ write[s].row = None \/ themes[t] = None \/ write[s].row.name # themes[t].name

\* A task newly filed under the theme: its foreign key shares the theme's row.
BeingFiledUnder(r, t) ==
  \E s \in Others(r) :
    LET w == write[s]
    IN /\ w.on \in Task /\ w.row # None /\ w.row.theme = t
       /\ tasks[w.on] = None \/ tasks[w.on].theme # t

\* The delete of a theme clears the references of its tasks.
BeingUnfiled(r, k) ==
  /\ tasks[k] # None /\ tasks[k].theme # None
  /\ \E s \in Others(r) : write[s].on = tasks[k].theme /\ write[s].row = None

\* The unique constraint (owner_id, name): an entry that comes or goes.
NamePending(r, name) ==
  \E s \in Others(r) :
    /\ write[s].on \in Theme
    /\ \E row \in {write[s].row, themes[write[s].on]} :
         row # None /\ row.owner = req[r].user /\ row.name = name

NameTaken(r, name, t) == \E other \in OwnThemes(r) \ {t} : themes[other].name = name

CanWriteTask(r, k) == ~BeingWritten(r, k) /\ ~BeingUnfiled(r, k)

CanFileUnder(r, t) == t = None \/ ~KeyBeingChanged(r, t)

-----------------------------------------------------------------------------

Creating(op) == {s \in Request : req[s].op = op}

Start(r, op, u, t, k, b, step) ==
  /\ op \in Ops
  /\ req' = [req EXCEPT ![r] =
               [op |-> op, user |-> u, theme |-> t, task |-> k, body |-> b]]
  /\ Goto(r, step)

\* Ids for new rows: neither handed out before nor about to be.
Fresh(ids) ==
  ids \ (used \cup {req[s].theme : s \in Creating("createTheme")}
              \cup {req[s].task : s \in Creating("createTask")})

\* A request of a signed-in user, with its path and body; one that creates a row
\* has its id from the start.
Begin(r) ==
  /\ pc[r] = "idle"
  /\ \E u \in User :
       \/ \E t \in Fresh(Theme), b \in Bodies :
            "name" \in b.sent /\ Start(r, "createTheme", u, t, None, b, "byName")
       \/ \E t \in Theme, b \in Bodies : Start(r, "updateTheme", u, t, None, b, "getTheme")
       \/ \E t \in Theme : Start(r, "deleteTheme", u, t, None, NoBody, "deleteTheme")
       \/ \E t \in Theme \cup {None}, k \in Fresh(Task) :
            Start(r, "createTask", u, t, k, NoBody, IF t = None THEN "insertTask" ELSE "findTheme")
       \/ \E k \in Task :
            \/ \E t \in Theme \cup {None} : Start(r, "updateTask", u, t, k, NoBody, "getTask")
            \/ Start(r, "completeTask", u, None, k, NoBody, "getTask")
            \/ Start(r, "incompleteTask", u, None, k, NoBody, "getTask")
            \/ Start(r, "deleteTask", u, None, k, NoBody, "deleteTask")
       \/ Start(r, "statistics", u, None, None, NoBody, "readTasks")
  /\ UNCHANGED <<themes, tasks, used, seen, write>>

-----------------------------------------------------------------------------
(* create_theme and update_theme.                                           *)

StoreStep(r) == IF req[r].op = "createTheme" THEN "insertTheme" ELSE "reread"

\* The color: one that is sent and new is looked up, none is generated.
ColorStep(r, old) ==
  LET b == req[r].body
  IN CASE req[r].op = "updateTheme" /\ "color" \notin b.sent -> "reread"
       [] req[r].op = "createTheme" /\ "color" \notin b.sent -> "generate"
       [] "color" \in b.sent /\ b.color = None -> "generate"
       [] OTHER -> IF old # None /\ b.color = old.color THEN "reread" ELSE "byColor"

\* PUT: a body without columns is answered with the row as it is.
GetTheme(r) ==
  /\ pc[r] = "getTheme"
  /\ LET row == SelectTheme(r, req[r].theme)
         b == req[r].body
     IN IF row = None \/ b.sent = {} THEN End(r)
        ELSE Read(r, row, IF "name" \in b.sent /\ b.name # row.name
                          THEN "byName" ELSE ColorStep(r, row))
  /\ UNCHANGED <<themes, tasks, used>>

ByName(r) ==
  /\ pc[r] = "byName"
  /\ IF \E t \in OwnThemes(r) : themes[t].name = req[r].body.name THEN End(r)
     ELSE Proceed(r, ColorStep(r, seen[r]))
  /\ UNCHANGED <<themes, tasks, used>>

ByColor(r) ==
  /\ pc[r] = "byColor"
  /\ IF \E t \in OwnThemes(r) : themes[t].color = req[r].body.color THEN End(r)
     ELSE Proceed(r, StoreStep(r))
  /\ UNCHANGED <<themes, tasks, used>>

TargetName(r) == IF "name" \in req[r].body.sent THEN req[r].body.name ELSE seen[r].name

Generates(r, color) ==
  /\ pc[r] = "generate"
  /\ req' = [req EXCEPT ![r].body.color = color]
  /\ Goto(r, StoreStep(r))
  /\ UNCHANGED <<themes, tasks, used, seen, write>>

\* Mutant: the generated color is not kept.
GenerateNothing(r) == Generates(r, req[r].body.color)

\* generate_color looks for the lower-case digits that string_to_hex has made.
\* They always have an e among them (saturation 70, lightness 60), and rows hold
\* upper-case digits: the SELECT finds nothing, and no other color is tried.
Generate(r) == Generates(r, HashColor[TargetName(r)])

NewTheme(r) ==
  [owner |-> req[r].user, name |-> req[r].body.name, color |-> req[r].body.color]

\* Mutant: the table has no unique constraint.
InsertThemeUnchecked(r) ==
  /\ pc[r] = "insertTheme"
  /\ Write(r, req[r].theme, NewTheme(r))
  /\ used' = used \cup {req[r].theme}
  /\ UNCHANGED <<themes, tasks>>

\* INSERT; a violation of the unique constraint is an error nobody handles.
InsertTheme(r) ==
  /\ pc[r] = "insertTheme"
  /\ ~NamePending(r, req[r].body.name)
  /\ IF NameTaken(r, req[r].body.name, None) THEN End(r) /\ UNCHANGED used
     ELSE Write(r, req[r].theme, NewTheme(r)) /\ used' = used \cup {req[r].theme}
  /\ UNCHANGED <<themes, tasks>>

\* The second SELECT, in OwnedRepository.update.
Reread(r) ==
  /\ pc[r] = "reread"
  /\ LET row == SelectTheme(r, req[r].theme)
     IN IF row = None THEN End(r) ELSE Read(r, row, "flushTheme")
  /\ UNCHANGED <<themes, tasks, used>>

Changed(r) ==
  LET b == req[r].body
  IN {c \in b.sent : \/ c = "name" /\ b.name # seen[r].name
                     \/ c = "color" /\ b.color # seen[r].color}

\* UPDATE of the columns that differ from the row just read.
FlushTheme(r) ==
  /\ pc[r] = "flushTheme"
  /\ LET t == req[r].theme
         b == req[r].body
         renames == "name" \in Changed(r)
         row == [themes[t] EXCEPT !.name = IF renames THEN b.name ELSE @,
                                  !.color = IF "color" \in Changed(r) THEN b.color ELSE @]
     IN IF Changed(r) = {} THEN End(r)
        ELSE /\ ~BeingWritten(r, t)
             /\ renames => ~BeingFiledUnder(r, t) /\ ~NamePending(r, b.name)
             /\ IF themes[t] = None \/ (renames /\ NameTaken(r, b.name, t)) THEN End(r)
                ELSE Write(r, t, row)
  /\ UNCHANGED <<themes, tasks, used>>

\* DELETE, clearing the theme_id of the theme's tasks.
DeleteTheme(r) ==
  /\ pc[r] = "deleteTheme"
  /\ LET t == req[r].theme
     IN IF SelectTheme(r, t) = None THEN End(r)
        ELSE /\ ~BeingWritten(r, t) /\ ~BeingFiledUnder(r, t)
             /\ \A k \in Task : tasks[k] # None /\ tasks[k].theme = t => ~BeingWritten(r, k)
             /\ Write(r, t, None)
  /\ UNCHANGED <<themes, tasks, used>>

-----------------------------------------------------------------------------
(* create_task, update_task, complete_task, incomplete_task, delete_task.   *)

\* The theme of the body, within the user's own.
FindTheme(r) ==
  /\ pc[r] = "findTheme"
  /\ IF SelectTheme(r, req[r].theme) = None THEN End(r)
     ELSE Proceed(r, IF req[r].op = "createTask" THEN "insertTask" ELSE "rereadTask")
  /\ UNCHANGED <<themes, tasks, used>>

ThemeIsGone(r) == req[r].theme # None /\ themes[req[r].theme] = None

\* INSERT; a violation of the foreign key is an error nobody handles.
InsertTask(r) ==
  /\ pc[r] = "insertTask"
  /\ CanFileUnder(r, req[r].theme)
  /\ IF ThemeIsGone(r) THEN End(r) /\ UNCHANGED used
     ELSE /\ Write(r, req[r].task,
                   [owner |-> req[r].user, theme |-> req[r].theme, done |-> FALSE])
          /\ used' = used \cup {req[r].task}
  /\ UNCHANGED <<themes, tasks>>

GetTask(r) ==
  /\ pc[r] = "getTask"
  /\ IF SelectTask(r, req[r].task) = None THEN End(r)
     ELSE Proceed(r, IF req[r].theme # None THEN "findTheme" ELSE "rereadTask")
  /\ UNCHANGED <<themes, tasks, used>>

\* The second SELECT, in OwnedRepository.update.
RereadTask(r) ==
  /\ pc[r] = "rereadTask"
  /\ LET row == SelectTask(r, req[r].task)
     IN IF row = None THEN End(r) ELSE Read(r, row, "flushTask")
  /\ UNCHANGED <<themes, tasks, used>>

\* The columns of a task that differ from the row just read; the time of a
\* completion always does.
Edited(r, row) ==
  CASE req[r].op = "updateTask" -> [row EXCEPT !.theme = req[r].theme]
    [] req[r].op = "completeTask" -> [row EXCEPT !.done = TRUE]
    [] OTHER -> [row EXCEPT !.done = FALSE]

\* The foreign key is checked when the theme of the task changes.
Refiles(r) ==
  /\ req[r].op = "updateTask" /\ tasks[req[r].task] # None
  /\ tasks[req[r].task].theme # req[r].theme

\* Mutant: the UPDATE writes every column, as it was read before.
FlushTaskWhole(r) ==
  /\ pc[r] = "flushTask"
  /\ LET k == req[r].task
     IN IF req[r].op # "completeTask" /\ Edited(r, seen[r]) = seen[r] THEN End(r)
        ELSE /\ CanWriteTask(r, k)
             /\ Refiles(r) => CanFileUnder(r, req[r].theme)
             /\ IF tasks[k] = None \/ ThemeIsGone(r) THEN End(r)
                ELSE Write(r, k, Edited(r, seen[r]))
  /\ UNCHANGED <<themes, tasks, used>>

\* UPDATE of the column that differs from the row just read.
FlushTask(r) ==
  /\ pc[r] = "flushTask"
  /\ LET k == req[r].task
     IN IF req[r].op # "completeTask" /\ Edited(r, seen[r]) = seen[r] THEN End(r)
        ELSE /\ CanWriteTask(r, k)
             /\ Refiles(r) => CanFileUnder(r, req[r].theme)
             /\ IF tasks[k] = None \/ ThemeIsGone(r) THEN End(r)
                ELSE Write(r, k, Edited(r, tasks[k]))
  /\ UNCHANGED <<themes, tasks, used>>

DeleteTask(r) ==
  /\ pc[r] = "deleteTask"
  /\ IF SelectTask(r, req[r].task) = None THEN End(r)
     ELSE CanWriteTask(r, req[r].task) /\ Write(r, req[r].task, None)
  /\ UNCHANGED <<themes, tasks, used>>

-----------------------------------------------------------------------------
(* The statistics of tasks by theme: two statements, two snapshots.         *)

\* get_tasks_for_statistics.
ReadTasks(r) ==
  /\ pc[r] = "readTasks"
  /\ Read(r, [k \in Task |-> SelectTask(r, k)], "readNames")
  /\ UNCHANGED <<themes, tasks, used>>

\* What a task that was read is counted under, by the names that are there now.
Label(r, k) ==
  LET t == seen[r][k].theme
  IN IF t \in OwnThemes(r) THEN themes[t].name ELSE NoThemeLabel

Figure(r, label) == Cardinality({k \in Task : seen[r][k] # None /\ Label(r, k) = label})

\* The names are read, and the figures made of them are the answer.
ReadNames(r) == pc[r] = "readNames" /\ End(r) /\ UNCHANGED <<themes, tasks, used>>

-----------------------------------------------------------------------------
(* The end of the transaction.                                              *)

CommittedTask(r, k) ==
  LET w == write[r]
      unfiled == tasks[k] # None /\ tasks[k].theme # None
                   /\ tasks[k].theme = w.on /\ w.row = None
  IN CASE k = w.on -> w.row
       [] k # w.on /\ unfiled -> [tasks[k] EXCEPT !.theme = None]
       [] OTHER -> tasks[k]

Commit(r) ==
  /\ pc[r] = "commit"
  /\ themes' = [t \in Theme |-> IF t = write[r].on THEN write[r].row ELSE themes[t]]
  /\ tasks' = [k \in Task |-> CommittedTask(r, k)]
  /\ End(r)
  /\ UNCHANGED used

\* A lost connection, a cancelled request or a crash of the server process.
Rollback(r) == pc[r] # "idle" /\ End(r) /\ UNCHANGED <<themes, tasks, used>>

Statement(r) ==
  \/ GetTheme(r) \/ ByName(r) \/ ByColor(r) \/ Generate(r)
  \/ InsertTheme(r) \/ Reread(r) \/ FlushTheme(r) \/ DeleteTheme(r)
  \/ FindTheme(r) \/ InsertTask(r) \/ GetTask(r) \/ RereadTask(r) \/ FlushTask(r)
  \/ DeleteTask(r) \/ ReadTasks(r) \/ ReadNames(r) \/ Commit(r)

Next == \E r \in Request : Begin(r) \/ Statement(r) \/ Rollback(r)

Spec == Init /\ [][Next]_vars

-----------------------------------------------------------------------------

ReqType ==
  [op : Operations \cup {"none"}, user : User \cup {None}, theme : Theme \cup {None},
   task : Task \cup {None}, body : Body]

WriteType ==
  [on : {None}, row : {None}] \cup [on : Theme, row : ThemeRow \cup {None}]
    \cup [on : Task, row : TaskRow \cup {None}]

TypeOK ==
  /\ themes \in [Theme -> ThemeRow \cup {None}]
  /\ tasks \in [Task -> TaskRow \cup {None}]
  /\ used \subseteq Theme \cup Task
  /\ pc \in [Request -> Steps]
  /\ req \in [Request -> ReqType]
  /\ DOMAIN seen = Request
  /\ \A r \in Request :
       seen[r] \in IF pc[r] = "readNames" THEN [Task -> TaskRow \cup {None}]
                   ELSE ThemeRow \cup TaskRow \cup {None}
  /\ write \in [Request -> WriteType]

\* A task is filed under a theme that is there and belongs to the task's owner,
\* although the theme is looked up some statements before the task is stored
\* (create_task, update_task) and themes are deleted in between.
FiledUnderOwnTheme ==
  \A k \in Task :
    tasks[k] # None /\ tasks[k].theme # None =>
      themes[tasks[k].theme] # None /\ themes[tasks[k].theme].owner = tasks[k].owner

\* No two themes of an owner have the same name, however creations and renames
\* interleave after their look-ups.
ThemeNamesDiffer ==
  \A t, other \in Theme :
    t # other /\ themes[t] # None /\ themes[other] # None
      /\ themes[t].owner = themes[other].owner => themes[t].name # themes[other].name

\* No update is lost: a request changes only what it was sent to change, although
\* it read the row some statements before.  Completing does not move a task back
\* under its former theme, moving it does not make it undone, and a new color
\* does not bring back an old name.
OthersWorkIsKept ==
  [][\A r \in Request : Commit(r) =>
       LET k == req[r].task
           t == req[r].theme
       IN CASE req[r].op = "updateTask" -> tasks'[k].done = tasks[k].done
            [] req[r].op \in {"completeTask", "incompleteTask"} -> tasks'[k].theme = tasks[k].theme
            [] req[r].op = "updateTheme" /\ "name" \notin req[r].body.sent
                 -> themes'[t].name = themes[t].name
            [] OTHER -> TRUE]_vars

\* Themes may be renamed, deleted and created while the figures are collected, and a
\* figure is kept under a name, not under a theme.  Still what is shown for a theme is
\* the number of tasks that were filed under it when the tasks were read; and a task
\* is counted as one without a theme only if it has had none, its theme is gone since,
\* or the theme is called so (StatisticsService._build_theme_statistics).
FiguresAreTrue ==
  \A r \in Request : pc[r] = "readNames" =>
    /\ \A t \in OwnThemes(r) : themes[t].name # NoThemeLabel =>
         Figure(r, themes[t].name)
           = Cardinality({k \in Task : seen[r][k] # None /\ seen[r][k].theme = t})
    /\ \A k \in Task : seen[r][k] # None /\ Label(r, k) = NoThemeLabel =>
         LET t == seen[r][k].theme
         IN t = None \/ themes[t] = None \/ themes[t].name = NoThemeLabel

\* No two themes of an owner have the same color.
ThemeColorsDiffer ==
  \A t, other \in Theme :
    t # other /\ themes[t] # None /\ themes[other] # None
      /\ themes[t].owner = themes[other].owner => themes[t].color # themes[other].color

-----------------------------------------------------------------------------

\* The requests, statement by statement, implement the catalog in which every
\* request is one step of its user.
Book == INSTANCE Catalog

ImplementsCatalog == Book!CatalogSpec

=============================================================================
