------------------------------- MODULE Catalog -------------------------------
(***************************************************************************)
(* What the tables of themes and tasks promise to whoever reads them:      *)
(* committed rows change by whole requests of one user, a theme's name is  *)
(* its own among its owner's themes, and a task is filed under a theme of  *)
(* its owner that is there.  Themes implements this specification.         *)
(***************************************************************************)

CONSTANTS
  User,          \* owners
  Theme, Task,   \* ids of rows
  None           \* no such row, no theme

VARIABLES
  themes,        \* themes[t]: owner, name and color of the committed row, or None
  tasks          \* tasks[k]: owner, theme and whether completed, or None

catalogVars == <<themes, tasks>>

OwnThemes(u) == {t \in Theme : themes[t] # None /\ themes[t].owner = u}
OwnTasks(u) == {k \in Task : tasks[k] # None /\ tasks[k].owner = u}

CatalogInit ==
  /\ themes = [t \in Theme |-> None]
  /\ tasks = [k \in Task |-> None]

\* A new theme, or new contents for one of the user's own, under a name that no
\* other of the user's themes has.
PutTheme(u, t) ==
  /\ themes[t] # None => t \in OwnThemes(u)
  /\ themes'[t] # None /\ themes'[t].owner = u
  /\ \A other \in OwnThemes(u) \ {t} : themes[other].name # themes'[t].name
  /\ themes' = [themes EXCEPT ![t] = themes'[t]]
  /\ UNCHANGED tasks

\* A theme disappears, and its tasks stay behind without a theme.
DropTheme(u, t) ==
  /\ t \in OwnThemes(u)
  /\ themes' = [themes EXCEPT ![t] = None]
  /\ tasks' = [k \in Task |-> IF tasks[k] # None /\ tasks[k].theme = t
                              THEN [tasks[k] EXCEPT !.theme = None] ELSE tasks[k]]

\* A new task, or new contents for one of the user's own, filed under no theme
\* or under one of the user's.
PutTask(u, k) ==
  /\ tasks[k] # None => k \in OwnTasks(u)
  /\ tasks'[k] # None /\ tasks'[k].owner = u
  /\ tasks'[k].theme \in OwnThemes(u) \cup {None}
  /\ tasks' = [tasks EXCEPT ![k] = tasks'[k]]
  /\ UNCHANGED themes

DropTask(u, k) ==
  /\ k \in OwnTasks(u)
  /\ tasks' = [tasks EXCEPT ![k] = None]
  /\ UNCHANGED themes

CatalogNext ==
  \E u \in User :
    \/ \E t \in Theme : PutTheme(u, t) \/ DropTheme(u, t)
    \/ \E k \in Task : PutTask(u, k) \/ DropTask(u, k)

CatalogSpec == CatalogInit /\ [][CatalogNext]_catalogVars

=============================================================================
