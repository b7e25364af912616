---------------------------- MODULE ThemesProofs ----------------------------
(***************************************************************************)
(* Theorems about Themes, for any number of requests, users, themes and    *)
(* tasks: type correctness, the safety invariants, no lost update, and     *)
(* that the statements implement the catalog.                              *)
(***************************************************************************)
EXTENDS Themes, TLAPS

(* The inductive invariant: what the look-ups of a request have found and   *)
(* what the locks and constraints guarantee about its uncommitted write.    *)

SeenType(r) ==
  IF pc[r] = "readNames" THEN [Task -> TaskRow \cup {None}]
  ELSE ThemeRow \cup TaskRow \cup {None}

LocalType(r) ==
  /\ pc[r] \in Steps /\ req[r] \in ReqType /\ write[r] \in WriteType
  /\ seen[r] \in SeenType(r)

ThemeOps == {"createTheme", "updateTheme", "deleteTheme"}
TaskOps == {"createTask", "updateTask", "completeTask", "incompleteTask", "deleteTask"}

\* Each step belongs to some kinds of requests, which name a theme, a task or both.
StepFits(r) ==
  LET q == req[r]
  IN /\ pc[r] # "idle" => q.op # "none"
     /\ q.op # "none" => q.user \in User
     /\ q.op \in ThemeOps => q.theme \in Theme
     /\ q.op \in TaskOps => q.task \in Task
     /\ q.op \in {"completeTask", "incompleteTask", "deleteTask"} => q.theme = None
     /\ pc[r] \in {"byName", "byColor", "generate"} => q.op \in {"createTheme", "updateTheme"}
     /\ pc[r] = "insertTheme" => q.op = "createTheme"
     /\ pc[r] \in {"getTheme", "reread", "flushTheme"} => q.op = "updateTheme"
     /\ pc[r] = "deleteTheme" => q.op = "deleteTheme"
     /\ pc[r] = "findTheme" => q.op \in {"createTask", "updateTask"} /\ q.theme \in Theme
     /\ pc[r] = "insertTask" => q.op = "createTask"
     /\ pc[r] \in {"getTask", "rereadTask", "flushTask"} =>
          q.op \in {"updateTask", "completeTask", "incompleteTask"}
     /\ pc[r] = "deleteTask" => q.op = "deleteTask"

\* A name that is sent is one, and a color has been chosen before a row is stored.
BodyFits(r) ==
  LET b == req[r].body
  IN /\ "name" \in b.sent => b.name # None
     /\ req[r].op = "createTheme" => "name" \in b.sent
     /\ pc[r] \in {"byColor", "insertTheme"} => b.color # None
     /\ pc[r] \in {"reread", "flushTheme"} /\ "color" \in b.sent => b.color # None

SeenFits(r) ==
  /\ pc[r] = "idle" => seen[r] = None
  /\ pc[r] = "byName" /\ req[r].op = "createTheme" => seen[r] = None
  /\ pc[r] \in {"byName", "byColor", "generate"} /\ req[r].op = "updateTheme" =>
       seen[r] \in ThemeRow
  /\ pc[r] = "flushTheme" => seen[r] \in ThemeRow
  /\ pc[r] = "flushTask" => seen[r] \in TaskRow

\* The theme is, or has been, one of the user's, and nobody is creating it.
Mine(t, u) ==
  /\ t \in used /\ (themes[t] # None => themes[t].owner = u)
  /\ \A s \in Request : req[s].op = "createTheme" => req[s].theme # t

MineTask(k, u) ==
  /\ k \in used /\ (tasks[k] # None => tasks[k].owner = u)
  /\ \A s \in Request : req[s].op = "createTask" => req[s].task # k

\* What a request has found within its user's rows, nobody else's can have become.
TargetsAreOwned(r) ==
  /\ pc[r] \in {"insertTask", "rereadTask", "flushTask"} /\ req[r].theme # None =>
       Mine(req[r].theme, req[r].user)
  /\ pc[r] = "flushTheme" => Mine(req[r].theme, req[r].user)
  /\ pc[r] = "flushTask" => MineTask(req[r].task, req[r].user)
  /\ pc[r] = "readNames" =>
       \A k \in Task : seen[r][k] # None /\ seen[r][k].theme # None =>
         Mine(seen[r][k].theme, req[r].user)

\* An id is used from the INSERT on; a row being created has no predecessor.
NewIdIsFresh(r) ==
  /\ req[r].op = "createTheme" =>
       themes[req[r].theme] = None /\ (pc[r] # "commit" => req[r].theme \notin used)
  /\ req[r].op = "createTask" =>
       tasks[req[r].task] = None /\ (pc[r] # "commit" => req[r].task \notin used)

\* A pending write of a theme is one of the user's own, under a free name; an update
\* that was sent no name keeps it.
ThemeWriteFits(r) ==
  LET w == write[r]
      u == req[r].user
  IN w.on \in Theme =>
       /\ w.on = req[r].theme /\ w.on \in used /\ req[r].op \in ThemeOps
       /\ themes[w.on] # None => themes[w.on].owner = u
       /\ themes[w.on] = None => w.row # None /\ req[r].op = "createTheme"
       /\ w.row # None =>
            /\ w.row.owner = u
            /\ \A t \in Theme \ {w.on} :
                 themes[t] # None /\ themes[t].owner = u => themes[t].name # w.row.name
       /\ req[r].op = "updateTheme" =>
            /\ w.row # None /\ themes[w.on] # None
            /\ "name" \notin req[r].body.sent => w.row.name = themes[w.on].name

\* A pending write of a task is one of the user's own, filed under one of the user's
\* themes, and an update changes only what it is about.
TaskWriteFits(r) ==
  LET w == write[r]
      u == req[r].user
  IN w.on \in Task =>
       /\ w.on = req[r].task /\ w.on \in used /\ req[r].op \in TaskOps
       /\ tasks[w.on] # None => tasks[w.on].owner = u
       /\ tasks[w.on] = None => w.row # None /\ req[r].op = "createTask"
       /\ w.row # None =>
            /\ w.row.owner = u
            /\ w.row.theme # None =>
                 themes[w.row.theme] # None /\ themes[w.row.theme].owner = u
       /\ req[r].op \in {"updateTask", "completeTask", "incompleteTask"} =>
            w.row # None /\ tasks[w.on] # None
       /\ req[r].op = "updateTask" => w.row.done = tasks[w.on].done
       /\ req[r].op \in {"completeTask", "incompleteTask"} =>
            w.row.theme = tasks[w.on].theme

\* The only write comes last.
OneWriteAtTheEnd(r) ==
  /\ pc[r] # "commit" => write[r] = NoWrite
  /\ pc[r] = "commit" => write[r].on # None

RequestInv(r) ==
  /\ LocalType(r) /\ StepFits(r) /\ BodyFits(r) /\ SeenFits(r)
  /\ TargetsAreOwned(r) /\ NewIdIsFresh(r)
  /\ OneWriteAtTheEnd(r) /\ ThemeWriteFits(r) /\ TaskWriteFits(r)

\* Two requests never write one row, never create one row, never put two themes of an
\* owner under one name, and none files a task under a theme that the other deletes.
LocksExclude(r, s) ==
  /\ write[r].on # None => write[r].on # write[s].on
  /\ write[r].on \in Theme /\ write[s].on \in Theme
       /\ write[r].row # None /\ write[s].row # None
       /\ write[r].row.owner = write[s].row.owner => write[r].row.name # write[s].row.name
  /\ write[r].on \in Task /\ write[r].row # None /\ write[r].row.theme # None =>
       ~(write[s].on = write[r].row.theme /\ write[s].row = None)

CreatorsDiffer(r, s) ==
  /\ req[r].op = "createTheme" /\ req[s].op = "createTheme" => req[r].theme # req[s].theme
  /\ req[r].op = "createTask" /\ req[s].op = "createTask" => req[r].task # req[s].task

PairInv(r, s) == LocksExclude(r, s) /\ CreatorsDiffer(r, s)

TablesType ==
  /\ themes \in [Theme -> ThemeRow \cup {None}]
  /\ tasks \in [Task -> TaskRow \cup {None}]
  /\ used \subseteq Theme \cup Task
  /\ pc \in [Request -> Steps]
  /\ req \in [Request -> ReqType]
  /\ write \in [Request -> WriteType]
  /\ seen = [r \in Request |-> seen[r]]

RowsAreUsed ==
  /\ \A t \in Theme : themes[t] # None => t \in used
  /\ \A k \in Task : tasks[k] # None => k \in used

IInv ==
  /\ TablesType /\ RowsAreUsed /\ FiledUnderOwnTheme /\ ThemeNamesDiffer
  /\ \A r \in Request : RequestInv(r)
  /\ \A r, s \in Request : r # s => PairInv(r, s)

-----------------------------------------------------------------------------
(* Types.                                                                   *)

LEMMA RowTypes ==
  /\ None \notin ThemeRow /\ None \notin TaskRow /\ None \notin Theme /\ None \notin Task
  /\ None \notin User /\ None \notin Name /\ None \notin Color
  /\ Theme \cap Task = {}
BY ThemesAssumption

LEMMA TypeOfWrite ==
  ASSUME NEW w \in WriteType
  PROVE  /\ w.on \in Theme \cup Task \cup {None}
         /\ w.on = None => w.row = None
         /\ w.on \in Theme => w.row \in ThemeRow \cup {None}
         /\ w.on \in Task => w.row \in TaskRow \cup {None}
BY RowTypes DEF WriteType

\* The invariant types every slot by its own step.
LEMMA InvIsTyped == IInv => TypeOK
BY DEF IInv, TablesType, TypeOK, RequestInv, LocalType, SeenType

-----------------------------------------------------------------------------
(* Steps that change nothing but the slot of their request.                 *)

Frame(r) ==
  /\ themes' = themes /\ tasks' = tasks
  /\ pc' = [pc EXCEPT ![r] = pc'[r]] /\ req' = [req EXCEPT ![r] = req'[r]]
  /\ seen' = [seen EXCEPT ![r] = seen'[r]] /\ write' = [write EXCEPT ![r] = write'[r]]

\* Only the INSERT of a request uses an id, its own.
UsesOwnId(r) ==
  \/ used' = used
  \/ /\ req[r].op = "createTheme" /\ pc[r] # "commit" /\ req[r].theme \in Theme
     /\ used' = used \cup {req[r].theme}
  \/ /\ req[r].op = "createTask" /\ pc[r] # "commit" /\ req[r].task \in Task
     /\ used' = used \cup {req[r].task}

\* A request that begins to create a row has an id of its own.
CreatesFresh(r) ==
  /\ req'[r].op = "createTheme" =>
       \/ req[r].op = "createTheme" /\ req'[r].theme = req[r].theme
       \/ req'[r].theme \notin used
  /\ req'[r].op = "createTask" =>
       \/ req[r].op = "createTask" /\ req'[r].task = req[r].task
       \/ req'[r].task \notin used

LEMMA MineStays ==
  ASSUME IInv, NEW r \in Request, Frame(r), UsesOwnId(r), CreatesFresh(r), NEW u
  PROVE  /\ \A t : Mine(t, u) => Mine(t, u)'
         /\ \A k : MineTask(k, u) => MineTask(k, u)'
<1>1. \A s \in Request \ {r} : req'[s] = req[s]
  BY DEF Frame, IInv, TablesType
<1>2. used \subseteq used'
  BY DEF UsesOwnId
<1> QED
  BY <1>1, <1>2 DEF Mine, MineTask, Frame, CreatesFresh

\* Such a step disturbs nothing that the invariant says of other requests.
LEMMA OthersKeep ==
  ASSUME IInv, NEW r \in Request, Frame(r), UsesOwnId(r), CreatesFresh(r),
         NEW s \in Request \ {r}
  PROVE  RequestInv(s)'
<1>1. /\ pc'[s] = pc[s] /\ req'[s] = req[s] /\ seen'[s] = seen[s] /\ write'[s] = write[s]
      /\ themes' = themes /\ tasks' = tasks
  BY DEF Frame, IInv, TablesType
<1>2. RequestInv(s) /\ CreatorsDiffer(r, s) /\ RequestInv(r)
  BY DEF IInv, PairInv
<1>3. LocalType(s)' /\ StepFits(s)' /\ BodyFits(s)' /\ SeenFits(s)' /\ OneWriteAtTheEnd(s)'
  BY <1>1, <1>2 DEF RequestInv, LocalType, SeenType, StepFits, BodyFits, SeenFits, OneWriteAtTheEnd
<1>4. TargetsAreOwned(s)'
  BY <1>1, <1>2, MineStays DEF RequestInv, TargetsAreOwned
<1>5. NewIdIsFresh(s)'
  <2>1. req[s].op = "createTheme" => req[s].theme \in Theme
    BY <1>2 DEF RequestInv, StepFits, ThemeOps
  <2>2. req[s].op = "createTask" => req[s].task \in Task
    BY <1>2 DEF RequestInv, StepFits, TaskOps
  <2>3. req[s].op = "createTheme" /\ req[s].theme \notin used => req[s].theme \notin used'
    BY <1>2, <2>1, RowTypes DEF UsesOwnId, CreatorsDiffer
  <2>4. req[s].op = "createTask" /\ req[s].task \notin used => req[s].task \notin used'
    BY <1>2, <2>2, RowTypes DEF UsesOwnId, CreatorsDiffer
  <2> QED
    BY <1>1, <1>2, <2>3, <2>4 DEF RequestInv, NewIdIsFresh
<1>6. used \subseteq used'
  BY DEF UsesOwnId
<1>7. ThemeWriteFits(s)'
  BY <1>1, <1>2, <1>6 DEF RequestInv, ThemeWriteFits
<1>8. TaskWriteFits(s)'
  BY <1>1, <1>2, <1>6 DEF RequestInv, TaskWriteFits
<1> QED
  BY <1>3, <1>4, <1>5, <1>7, <1>8 DEF RequestInv

LEMMA LocalStep ==
  ASSUME IInv, NEW r \in Request, Frame(r), UsesOwnId(r), CreatesFresh(r), RequestInv(r)',
         \A s \in Request \ {r} : PairInv(r, s)' /\ PairInv(s, r)'
  PROVE  IInv'
<1>1. \A s \in Request \ {r} : req'[s] = req[s] /\ write'[s] = write[s]
  BY DEF Frame, IInv, TablesType
<1>2. \A s \in Request : RequestInv(s)'
  BY OthersKeep
<1>3. \A s, q \in Request : s # q => PairInv(s, q)'
  <2>1. \A s, q \in Request \ {r} : s # q => PairInv(s, q)'
    BY <1>1 DEF IInv, PairInv, LocksExclude, CreatorsDiffer
  <2> QED
    BY <2>1
<1>4. TablesType'
  <2>1. pc'[r] \in Steps /\ req'[r] \in ReqType /\ write'[r] \in WriteType
    BY <1>2 DEF RequestInv, LocalType
  <2>2. used' \subseteq Theme \cup Task
    BY DEF UsesOwnId, IInv, TablesType
  <2> QED
    BY <2>1, <2>2 DEF Frame, IInv, TablesType
<1>5. RowsAreUsed' /\ FiledUnderOwnTheme' /\ ThemeNamesDiffer'
  BY DEF Frame, UsesOwnId, IInv, RowsAreUsed, FiledUnderOwnTheme, ThemeNamesDiffer
<1> QED
  BY <1>2, <1>3, <1>4, <1>5 DEF IInv

\* A step that leaves no write and creates what the request created before.
LEMMA QuietStep ==
  ASSUME IInv, NEW r \in Request, Frame(r), used' = used, RequestInv(r)', write'[r] = NoWrite,
         \/ req'[r].op \notin {"createTheme", "createTask"}
         \/ /\ req'[r].op = req[r].op
            /\ req'[r].theme = req[r].theme /\ req'[r].task = req[r].task
  PROVE  IInv'
<1>1. \A s \in Request \ {r} : req'[s] = req[s] /\ write'[s] = write[s]
  BY DEF Frame, IInv, TablesType
<1>2. ASSUME NEW s \in Request \ {r} PROVE PairInv(r, s)' /\ PairInv(s, r)'
  <2>1. PairInv(r, s) /\ PairInv(s, r)
    BY DEF IInv
  <2>2. CreatorsDiffer(r, s)' /\ CreatorsDiffer(s, r)'
    BY <1>1, <2>1 DEF PairInv, CreatorsDiffer
  <2>3. write[s] \in WriteType
    BY DEF IInv, TablesType
  <2>4. LocksExclude(r, s)' /\ LocksExclude(s, r)'
    BY <1>1, <2>3, RowTypes, TypeOfWrite DEF LocksExclude, NoWrite
  <2> QED
    BY <2>2, <2>4 DEF PairInv
<1>3. UsesOwnId(r) /\ CreatesFresh(r)
  BY DEF UsesOwnId, CreatesFresh
<1> QED
  BY <1>2, <1>3, LocalStep

-----------------------------------------------------------------------------
(* What the building blocks of the statements do to the slot.               *)

LEMMA EndMoves ==
  ASSUME IInv, NEW r \in Request, End(r), UNCHANGED <<themes, tasks>>
  PROVE  /\ Frame(r)
         /\ pc'[r] = "idle" /\ req'[r] = NoReq /\ seen'[r] = None /\ write'[r] = NoWrite
BY DEF End, Frame, IInv, TablesType

LEMMA ProceedMoves ==
  ASSUME IInv, NEW r \in Request, NEW step, Proceed(r, step), UNCHANGED <<themes, tasks>>
  PROVE  /\ Frame(r)
         /\ pc'[r] = step /\ req'[r] = req[r] /\ seen'[r] = seen[r] /\ write'[r] = write[r]
BY DEF Proceed, Goto, Frame, IInv, TablesType

LEMMA ReadMoves ==
  ASSUME IInv, NEW r \in Request, NEW step, NEW row, Read(r, row, step),
         UNCHANGED <<themes, tasks>>
  PROVE  /\ Frame(r)
         /\ pc'[r] = step /\ req'[r] = req[r] /\ seen'[r] = row /\ write'[r] = write[r]
BY DEF Read, Goto, Frame, IInv, TablesType

LEMMA WriteMoves ==
  ASSUME IInv, NEW r \in Request, NEW id, NEW row, Write(r, id, row),
         UNCHANGED <<themes, tasks>>
  PROVE  /\ Frame(r)
         /\ pc'[r] = "commit" /\ req'[r] = req[r] /\ seen'[r] = seen[r]
         /\ write'[r] = [on |-> id, row |-> row]
BY DEF Write, Goto, Frame, IInv, TablesType

\* An idle slot has nothing to keep.
LEMMA IdleFits ==
  ASSUME NEW r \in Request,
         pc[r] = "idle", req[r] = NoReq, seen[r] = None, write[r] = NoWrite
  PROVE  RequestInv(r)
<1>1. NoReq \in ReqType
  BY DEF NoReq, NoBody, ReqType, Body
<1>2. NoWrite \in WriteType
  BY DEF NoWrite, WriteType
<1>3. LocalType(r)
  BY <1>1, <1>2 DEF LocalType, SeenType, Steps
<1>4. StepFits(r) /\ BodyFits(r) /\ SeenFits(r) /\ TargetsAreOwned(r) /\ NewIdIsFresh(r)
  BY DEF StepFits, BodyFits, SeenFits, TargetsAreOwned, NewIdIsFresh, NoReq, NoBody,
         ThemeOps, TaskOps
<1>5. OneWriteAtTheEnd(r) /\ ThemeWriteFits(r) /\ TaskWriteFits(r)
  BY RowTypes DEF OneWriteAtTheEnd, ThemeWriteFits, TaskWriteFits, NoWrite
<1> QED
  BY <1>3, <1>4, <1>5 DEF RequestInv

LEMMA EndFits ==
  ASSUME NEW r \in Request,
         pc'[r] = "idle", req'[r] = NoReq, seen'[r] = None, write'[r] = NoWrite
  PROVE  RequestInv(r)'
<1>1. NoReq \in ReqType /\ NoWrite \in WriteType
  BY DEF NoReq, NoBody, ReqType, Body, NoWrite, WriteType
<1>2. LocalType(r)'
  BY <1>1 DEF LocalType, SeenType, Steps
<1>3. (StepFits(r) /\ BodyFits(r) /\ SeenFits(r) /\ TargetsAreOwned(r) /\ NewIdIsFresh(r))'
  BY DEF StepFits, BodyFits, SeenFits, TargetsAreOwned, NewIdIsFresh, NoReq, NoBody,
         ThemeOps, TaskOps
<1>4. (OneWriteAtTheEnd(r) /\ ThemeWriteFits(r) /\ TaskWriteFits(r))'
  BY RowTypes DEF OneWriteAtTheEnd, ThemeWriteFits, TaskWriteFits, NoWrite
<1> QED
  BY <1>2, <1>3, <1>4 DEF RequestInv

LEMMA EndStep ==
  ASSUME IInv, NEW r \in Request, End(r), UNCHANGED <<themes, tasks, used>>
  PROVE  IInv'
<1>1. /\ Frame(r)
      /\ pc'[r] = "idle" /\ req'[r] = NoReq /\ seen'[r] = None /\ write'[r] = NoWrite
  BY EndMoves
<1>2. RequestInv(r)'
  BY <1>1, EndFits
<1>3. req'[r].op \notin {"createTheme", "createTask"}
  BY <1>1 DEF NoReq
<1> QED
  BY <1>1, <1>2, <1>3, QuietStep

\* A statement that finds something and goes on, with the same aim.
LEMMA GoOnStep ==
  ASSUME IInv, NEW r \in Request, Frame(r), used' = used, write'[r] = write[r],
         pc[r] # "commit", pc'[r] \notin {"idle", "commit"},
         req'[r].op = req[r].op, req'[r].user = req[r].user,
         req'[r].theme = req[r].theme, req'[r].task = req[r].task,
         LocalType(r)', StepFits(r)', BodyFits(r)', SeenFits(r)', TargetsAreOwned(r)'
  PROVE  IInv'
<1>1. RequestInv(r)
  BY DEF IInv
<1>2. write'[r] = NoWrite
  BY <1>1 DEF RequestInv, OneWriteAtTheEnd
<1>3. OneWriteAtTheEnd(r)' /\ ThemeWriteFits(r)' /\ TaskWriteFits(r)'
  BY <1>2, RowTypes DEF OneWriteAtTheEnd, ThemeWriteFits, TaskWriteFits, NoWrite
<1>4. NewIdIsFresh(r)'
  BY <1>1 DEF RequestInv, NewIdIsFresh, Frame
<1>5. RequestInv(r)'
  BY <1>3, <1>4 DEF RequestInv
<1> QED
  BY <1>2, <1>5, QuietStep

LEMMA InitInv == Init => IInv
<1> SUFFICES ASSUME Init PROVE IInv
  OBVIOUS
<1>1. NoReq \in ReqType /\ NoWrite \in WriteType
  BY DEF NoReq, NoBody, ReqType, Body, NoWrite, WriteType
<1>2. TablesType
  BY <1>1 DEF Init, TablesType, Steps
<1>3. RowsAreUsed /\ FiledUnderOwnTheme /\ ThemeNamesDiffer
  BY DEF Init, RowsAreUsed, FiledUnderOwnTheme, ThemeNamesDiffer
<1>4. ASSUME NEW r \in Request PROVE RequestInv(r)
  BY IdleFits DEF Init
<1>5. \A r, s \in Request : r # s => PairInv(r, s)
  BY RowTypes DEF Init, PairInv, LocksExclude, CreatorsDiffer, NoWrite, NoReq
<1> QED
  BY <1>2, <1>3, <1>4, <1>5 DEF IInv

-----------------------------------------------------------------------------
(* The statements that only read.                                           *)

\* What is known of every request.
LEMMA SlotTypes ==
  ASSUME IInv, NEW r \in Request
  PROVE  /\ RequestInv(r)
         /\ req[r] \in ReqType /\ req[r].body \in Body
         /\ req[r].body.sent \subseteq {"name", "color"}
         /\ req[r].op \in ThemeOps => req[r].theme \in Theme
         /\ req[r].op \in TaskOps => req[r].task \in Task
         /\ req[r].op # "none" => req[r].user \in User
BY DEF IInv, RequestInv, LocalType, StepFits, ReqType, Body

LEMMA OwnedTheme ==
  ASSUME IInv, NEW r \in Request, NEW t \in Theme, SelectTheme(r, t) # None
  PROVE  /\ SelectTheme(r, t) = themes[t] /\ themes[t] \in ThemeRow
         /\ Mine(t, req[r].user)
<1>1. themes[t] # None /\ themes[t].owner = req[r].user /\ SelectTheme(r, t) = themes[t]
  BY DEF SelectTheme
<1>2. themes[t] \in ThemeRow /\ t \in used
  BY <1>1 DEF IInv, TablesType, RowsAreUsed
<1>3. \A s \in Request : req[s].op = "createTheme" => req[s].theme # t
  BY <1>1 DEF IInv, RequestInv, NewIdIsFresh
<1> QED
  BY <1>1, <1>2, <1>3 DEF Mine

LEMMA OwnedTask ==
  ASSUME IInv, NEW r \in Request, NEW k \in Task, SelectTask(r, k) # None
  PROVE  /\ SelectTask(r, k) = tasks[k] /\ tasks[k] \in TaskRow
         /\ MineTask(k, req[r].user)
<1>1. tasks[k] # None /\ tasks[k].owner = req[r].user /\ SelectTask(r, k) = tasks[k]
  BY DEF SelectTask
<1>2. tasks[k] \in TaskRow /\ k \in used
  BY <1>1 DEF IInv, TablesType, RowsAreUsed
<1>3. \A s \in Request : req[s].op = "createTask" => req[s].task # k
  BY <1>1 DEF IInv, RequestInv, NewIdIsFresh
<1> QED
  BY <1>1, <1>2, <1>3 DEF MineTask

\* Where the choice of a color leads: a row is stored with a color only.
LEMMA ColorStepFits ==
  ASSUME IInv, NEW r \in Request, NEW old \in ThemeRow \cup {None},
         req[r].op \in {"createTheme", "updateTheme"},
         req[r].op = "createTheme" => old = None
  PROVE  /\ ColorStep(r, old) \in {"reread", "generate", "byColor"}
         /\ ColorStep(r, old) = "reread" => req[r].op = "updateTheme"
         /\ ColorStep(r, old) \in {"reread", "byColor"} /\ "color" \in req[r].body.sent =>
              req[r].body.color # None
         /\ ColorStep(r, old) = "byColor" => "color" \in req[r].body.sent
BY DEF ColorStep

LEMMA GetThemeStep == ASSUME IInv, NEW r \in Request, GetTheme(r) PROVE IInv'
<1> DEFINE row == SelectTheme(r, req[r].theme)
           step == IF "name" \in req[r].body.sent /\ req[r].body.name # row.name
                   THEN "byName" ELSE ColorStep(r, row)
<1>1. pc[r] = "getTheme" /\ UNCHANGED <<themes, tasks, used>>
  BY DEF GetTheme
<1>2. CASE End(r)
  BY <1>1, <1>2, EndStep
<1>3. CASE row # None /\ Read(r, row, step)
  <2>1. RequestInv(r) /\ req[r].op = "updateTheme" /\ req[r].theme \in Theme
    BY <1>1, SlotTypes DEF RequestInv, StepFits, ThemeOps
  <2>2. row \in ThemeRow
    BY <1>3, <2>1, OwnedTheme
  <2>3. /\ Frame(r)
        /\ pc'[r] = step /\ req'[r] = req[r] /\ seen'[r] = row /\ write'[r] = write[r]
    BY <1>1, <1>3, ReadMoves
  <2>4. /\ step \in {"byName", "reread", "generate", "byColor"}
        /\ step \in {"reread", "byColor"} /\ "color" \in req[r].body.sent =>
             req[r].body.color # None
        /\ step = "byColor" => "color" \in req[r].body.sent
    BY <2>1, <2>2, ColorStepFits
  <2> HIDE DEF row, step
  <2>5. LocalType(r)'
    BY <2>1, <2>2, <2>3, <2>4 DEF RequestInv, LocalType, SeenType, Steps
  <2>6. StepFits(r)' /\ BodyFits(r)' /\ SeenFits(r)' /\ TargetsAreOwned(r)'
    BY <2>1, <2>2, <2>3, <2>4 DEF RequestInv, StepFits, BodyFits, SeenFits, TargetsAreOwned
  <2> QED
    BY <1>1, <2>3, <2>4, <2>5, <2>6, GoOnStep
<1> QED
  BY <1>2, <1>3 DEF GetTheme

LEMMA ByNameStep == ASSUME IInv, NEW r \in Request, ByName(r) PROVE IInv'
<1> DEFINE step == ColorStep(r, seen[r])
<1>1. pc[r] = "byName" /\ UNCHANGED <<themes, tasks, used>>
  BY DEF ByName
<1>2. CASE End(r)
  BY <1>1, <1>2, EndStep
<1>3. CASE Proceed(r, step)
  <2>1. RequestInv(r) /\ req[r].op \in {"createTheme", "updateTheme"}
    BY <1>1, SlotTypes DEF RequestInv, StepFits
  <2>2. /\ seen[r] \in ThemeRow \cup {None}
        /\ req[r].op = "createTheme" => seen[r] = None
        /\ req[r].op = "updateTheme" => seen[r] \in ThemeRow
    BY <1>1, <2>1 DEF RequestInv, SeenFits
  <2>3. /\ Frame(r)
        /\ pc'[r] = step /\ req'[r] = req[r] /\ seen'[r] = seen[r] /\ write'[r] = write[r]
    BY <1>1, <1>3, ProceedMoves
  <2>4. /\ step \in {"reread", "generate", "byColor"}
        /\ step = "reread" => req[r].op = "updateTheme"
        /\ step \in {"reread", "byColor"} /\ "color" \in req[r].body.sent =>
             req[r].body.color # None
        /\ step = "byColor" => "color" \in req[r].body.sent
    BY <2>1, <2>2, ColorStepFits
  <2> HIDE DEF step
  <2>5. LocalType(r)'
    BY <2>1, <2>2, <2>3, <2>4 DEF RequestInv, LocalType, SeenType, Steps
  <2>6. StepFits(r)' /\ BodyFits(r)' /\ SeenFits(r)' /\ TargetsAreOwned(r)'
    BY <2>1, <2>2, <2>3, <2>4 DEF RequestInv, StepFits, BodyFits, SeenFits, TargetsAreOwned
  <2> QED
    BY <1>1, <2>3, <2>4, <2>5, <2>6, GoOnStep
<1> QED
  BY <1>2, <1>3 DEF ByName

LEMMA ByColorStep == ASSUME IInv, NEW r \in Request, ByColor(r) PROVE IInv'
<1>1. pc[r] = "byColor" /\ UNCHANGED <<themes, tasks, used>>
  BY DEF ByColor
<1>2. CASE End(r)
  BY <1>1, <1>2, EndStep
<1>3. CASE Proceed(r, StoreStep(r))
  <2>1. RequestInv(r) /\ req[r].op \in {"createTheme", "updateTheme"}
    BY <1>1, SlotTypes DEF RequestInv, StepFits
  <2>2. /\ Frame(r) /\ pc'[r] = StoreStep(r)
        /\ req'[r] = req[r] /\ seen'[r] = seen[r] /\ write'[r] = write[r]
    BY <1>1, <1>3, ProceedMoves
  <2>3. LocalType(r)'
    BY <1>1, <2>1, <2>2 DEF RequestInv, LocalType, SeenType, Steps, StoreStep
  <2>4. StepFits(r)' /\ BodyFits(r)' /\ SeenFits(r)' /\ TargetsAreOwned(r)'
    BY <1>1, <2>1, <2>2
    DEF RequestInv, StepFits, BodyFits, SeenFits, TargetsAreOwned, StoreStep
  <2> QED
    BY <1>1, <2>2, <2>3, <2>4, GoOnStep DEF StoreStep
<1> QED
  BY <1>2, <1>3 DEF ByColor

LEMMA GenerateStep == ASSUME IInv, NEW r \in Request, Generate(r) PROVE IInv'
<1> DEFINE color == HashColor[TargetName(r)]
<1>1. /\ pc[r] = "generate" /\ UNCHANGED <<themes, tasks, used, seen, write>>
      /\ req' = [req EXCEPT ![r].body.color = color] /\ Goto(r, StoreStep(r))
  BY DEF Generate, Generates
<1>2. RequestInv(r) /\ req[r].op \in {"createTheme", "updateTheme"} /\ req[r] \in ReqType
  BY <1>1, SlotTypes DEF RequestInv, StepFits
<1>3. color \in Color
  <2>1. TargetName(r) \in Name
    BY <1>1, <1>2 DEF TargetName, RequestInv, BodyFits, SeenFits, ReqType, Body, ThemeRow
  <2> QED
    BY <2>1, ThemesAssumption
<1> HIDE DEF color
<1>4. /\ Frame(r) /\ pc'[r] = StoreStep(r)
      /\ req'[r] = [req[r] EXCEPT !.body.color = color]
      /\ seen'[r] = seen[r] /\ write'[r] = write[r]
  BY <1>1 DEF Goto, Frame, IInv, TablesType
<1>5. req'[r] \in ReqType
  BY <1>2, <1>3, <1>4 DEF ReqType, Body
<1>6. /\ req'[r].op = req[r].op /\ req'[r].user = req[r].user
      /\ req'[r].theme = req[r].theme /\ req'[r].task = req[r].task
      /\ req'[r].body.sent = req[r].body.sent /\ req'[r].body.name = req[r].body.name
      /\ req'[r].body.color # None
  BY <1>2, <1>3, <1>4, RowTypes DEF ReqType, Body
<1>7. LocalType(r)'
  BY <1>1, <1>2, <1>4, <1>5 DEF RequestInv, LocalType, SeenType, Steps, StoreStep
<1>8. StepFits(r)' /\ BodyFits(r)' /\ SeenFits(r)' /\ TargetsAreOwned(r)'
  BY <1>1, <1>2, <1>4, <1>6
  DEF RequestInv, StepFits, BodyFits, SeenFits, TargetsAreOwned, StoreStep
<1> QED
  BY <1>1, <1>4, <1>6, <1>7, <1>8, GoOnStep DEF StoreStep

LEMMA RereadStep == ASSUME IInv, NEW r \in Request, Reread(r) PROVE IInv'
<1> DEFINE row == SelectTheme(r, req[r].theme)
<1>1. pc[r] = "reread" /\ UNCHANGED <<themes, tasks, used>>
  BY DEF Reread
<1>2. CASE End(r)
  BY <1>1, <1>2, EndStep
<1>3. CASE row # None /\ Read(r, row, "flushTheme")
  <2>1. RequestInv(r) /\ req[r].op = "updateTheme" /\ req[r].theme \in Theme
    BY <1>1, SlotTypes DEF RequestInv, StepFits, ThemeOps
  <2>2. row \in ThemeRow /\ Mine(req[r].theme, req[r].user)
    BY <1>3, <2>1, OwnedTheme
  <2>3. /\ Frame(r) /\ pc'[r] = "flushTheme"
        /\ req'[r] = req[r] /\ seen'[r] = row /\ write'[r] = write[r]
    BY <1>1, <1>3, ReadMoves
  <2> HIDE DEF row
  <2>4. Mine(req[r].theme, req[r].user)'
    BY <1>1, <2>2, <2>3, MineStays DEF UsesOwnId, CreatesFresh
  <2>5. LocalType(r)'
    BY <2>1, <2>2, <2>3 DEF RequestInv, LocalType, SeenType, Steps
  <2>6. StepFits(r)' /\ BodyFits(r)' /\ SeenFits(r)' /\ TargetsAreOwned(r)'
    BY <1>1, <2>1, <2>2, <2>3, <2>4
    DEF RequestInv, StepFits, BodyFits, SeenFits, TargetsAreOwned
  <2> QED
    BY <1>1, <2>3, <2>5, <2>6, GoOnStep
<1> QED
  BY <1>2, <1>3 DEF Reread

LEMMA FindThemeStep == ASSUME IInv, NEW r \in Request, FindTheme(r) PROVE IInv'
<1> DEFINE step == IF req[r].op = "createTask" THEN "insertTask" ELSE "rereadTask"
<1>1. pc[r] = "findTheme" /\ UNCHANGED <<themes, tasks, used>>
  BY DEF FindTheme
<1>2. CASE End(r)
  BY <1>1, <1>2, EndStep
<1>3. CASE SelectTheme(r, req[r].theme) # None /\ Proceed(r, step)
  <2>1. RequestInv(r) /\ req[r].op \in {"createTask", "updateTask"} /\ req[r].theme \in Theme
    BY <1>1, SlotTypes DEF RequestInv, StepFits
  <2>2. Mine(req[r].theme, req[r].user)
    BY <1>3, <2>1, OwnedTheme
  <2>3. /\ Frame(r) /\ pc'[r] = step
        /\ req'[r] = req[r] /\ seen'[r] = seen[r] /\ write'[r] = write[r]
    BY <1>1, <1>3, ProceedMoves
  <2>4. Mine(req[r].theme, req[r].user)'
    BY <1>1, <2>2, <2>3, MineStays DEF UsesOwnId, CreatesFresh
  <2>5. LocalType(r)'
    BY <1>1, <2>1, <2>3 DEF RequestInv, LocalType, SeenType, Steps
  <2>6. StepFits(r)' /\ BodyFits(r)' /\ SeenFits(r)' /\ TargetsAreOwned(r)'
    BY <1>1, <2>1, <2>3, <2>4 DEF RequestInv, StepFits, BodyFits, SeenFits, TargetsAreOwned
  <2> QED
    BY <1>1, <2>3, <2>5, <2>6, GoOnStep
<1> QED
  BY <1>2, <1>3 DEF FindTheme

LEMMA GetTaskStep == ASSUME IInv, NEW r \in Request, GetTask(r) PROVE IInv'
<1> DEFINE step == IF req[r].theme # None THEN "findTheme" ELSE "rereadTask"
<1>1. pc[r] = "getTask" /\ UNCHANGED <<themes, tasks, used>>
  BY DEF GetTask
<1>2. CASE End(r)
  BY <1>1, <1>2, EndStep
<1>3. CASE Proceed(r, step)
  <2>1. RequestInv(r) /\ req[r].op \in {"updateTask", "completeTask", "incompleteTask"}
    BY <1>1, SlotTypes DEF RequestInv, StepFits
  <2>2. req[r].theme # None => req[r].op = "updateTask" /\ req[r].theme \in Theme
    BY <2>1, SlotTypes DEF RequestInv, StepFits, ReqType
  <2>3. /\ Frame(r) /\ pc'[r] = step
        /\ req'[r] = req[r] /\ seen'[r] = seen[r] /\ write'[r] = write[r]
    BY <1>1, <1>3, ProceedMoves
  <2>4. LocalType(r)'
    BY <1>1, <2>1, <2>3 DEF RequestInv, LocalType, SeenType, Steps
  <2>5. StepFits(r)' /\ BodyFits(r)' /\ SeenFits(r)' /\ TargetsAreOwned(r)'
    BY <1>1, <2>1, <2>2, <2>3 DEF RequestInv, StepFits, BodyFits, SeenFits, TargetsAreOwned
  <2> QED
    BY <1>1, <2>3, <2>4, <2>5, GoOnStep
<1> QED
  BY <1>2, <1>3 DEF GetTask

LEMMA RereadTaskStep == ASSUME IInv, NEW r \in Request, RereadTask(r) PROVE IInv'
<1> DEFINE row == SelectTask(r, req[r].task)
<1>1. pc[r] = "rereadTask" /\ UNCHANGED <<themes, tasks, used>>
  BY DEF RereadTask
<1>2. CASE End(r)
  BY <1>1, <1>2, EndStep
<1>3. CASE row # None /\ Read(r, row, "flushTask")
  <2>1. /\ RequestInv(r) /\ req[r].op \in {"updateTask", "completeTask", "incompleteTask"}
        /\ req[r].task \in Task
    BY <1>1, SlotTypes DEF RequestInv, StepFits, TaskOps
  <2>2. row \in TaskRow /\ MineTask(req[r].task, req[r].user)
    BY <1>3, <2>1, OwnedTask
  <2>3. req[r].theme # None => Mine(req[r].theme, req[r].user)
    BY <1>1, <2>1 DEF RequestInv, TargetsAreOwned
  <2>4. /\ Frame(r) /\ pc'[r] = "flushTask"
        /\ req'[r] = req[r] /\ seen'[r] = row /\ write'[r] = write[r]
    BY <1>1, <1>3, ReadMoves
  <2> HIDE DEF row
  <2>5. /\ MineTask(req[r].task, req[r].user)'
        /\ req[r].theme # None => Mine(req[r].theme, req[r].user)'
    BY <1>1, <2>2, <2>3, <2>4, MineStays DEF UsesOwnId, CreatesFresh
  <2>6. LocalType(r)'
    BY <2>1, <2>2, <2>4 DEF RequestInv, LocalType, SeenType, Steps
  <2>7. StepFits(r)' /\ BodyFits(r)' /\ SeenFits(r)' /\ TargetsAreOwned(r)'
    BY <1>1, <2>1, <2>2, <2>4, <2>5
    DEF RequestInv, StepFits, BodyFits, SeenFits, TargetsAreOwned
  <2> QED
    BY <1>1, <2>4, <2>6, <2>7, GoOnStep
<1> QED
  BY <1>2, <1>3 DEF RereadTask

LEMMA ReadTasksStep == ASSUME IInv, NEW r \in Request, ReadTasks(r) PROVE IInv'
<1> DEFINE rows == [k \in Task |-> SelectTask(r, k)]
<1>1. /\ pc[r] = "readTasks" /\ UNCHANGED <<themes, tasks, used>>
      /\ Read(r, rows, "readNames") /\ RequestInv(r)
  BY SlotTypes DEF ReadTasks
<1>2. rows \in [Task -> TaskRow \cup {None}]
  BY OwnedTask
<1>3. ASSUME NEW k \in Task, rows[k] # None, rows[k].theme # None
      PROVE  Mine(rows[k].theme, req[r].user)
  <2>1. SelectTask(r, k) # None
    BY <1>3
  <2>2. tasks[k] # None /\ tasks[k].owner = req[r].user /\ rows[k] = tasks[k]
    BY <2>1 DEF SelectTask
  <2>3. tasks[k].theme \in Theme /\ tasks[k].theme # None
    BY <1>3, <2>1, <2>2, OwnedTask DEF TaskRow
  <2>4. themes[tasks[k].theme] # None /\ themes[tasks[k].theme].owner = req[r].user
    BY <2>2, <2>3 DEF IInv, FiledUnderOwnTheme
  <2>5. SelectTheme(r, tasks[k].theme) # None
    BY <2>4 DEF SelectTheme
  <2> QED
    BY <2>2, <2>3, <2>5, OwnedTheme
<1>4. /\ Frame(r) /\ pc'[r] = "readNames"
      /\ req'[r] = req[r] /\ seen'[r] = rows /\ write'[r] = write[r]
  BY <1>1, ReadMoves
<1> HIDE DEF rows
<1>5. \A k \in Task : seen'[r][k] # None /\ seen'[r][k].theme # None =>
        Mine(seen[r][k].theme, req[r].user)'
  BY <1>1, <1>3, <1>4, MineStays DEF UsesOwnId, CreatesFresh
<1>6. LocalType(r)'
  BY <1>1, <1>2, <1>4 DEF RequestInv, LocalType, SeenType, Steps
<1>7. StepFits(r)' /\ BodyFits(r)' /\ SeenFits(r)' /\ TargetsAreOwned(r)'
  BY <1>1, <1>4, <1>5 DEF RequestInv, StepFits, BodyFits, SeenFits, TargetsAreOwned
<1> QED
  BY <1>1, <1>4, <1>6, <1>7, GoOnStep

-----------------------------------------------------------------------------
(* The beginning of a request.                                              *)

FirstSteps ==
  {<<"createTheme", "byName">>, <<"updateTheme", "getTheme">>, <<"deleteTheme", "deleteTheme">>,
   <<"createTask", "insertTask">>, <<"createTask", "findTheme">>, <<"updateTask", "getTask">>,
   <<"completeTask", "getTask">>, <<"incompleteTask", "getTask">>,
   <<"deleteTask", "deleteTask">>, <<"statistics", "readTasks">>}

StartFits(op, t, k, b, step) ==
  /\ <<op, step>> \in FirstSteps
  /\ t \in Theme \cup {None} /\ k \in Task \cup {None} /\ b \in Body
  /\ "name" \in b.sent => b.name # None
  /\ op \in ThemeOps => t \in Theme
  /\ op \in TaskOps => k \in Task
  /\ op \in {"completeTask", "incompleteTask", "deleteTask"} => t = None
  /\ step = "findTheme" => t # None
  /\ step = "insertTask" => t = None
  /\ op = "createTheme" => "name" \in b.sent /\ t \in Fresh(Theme)
  /\ op = "createTask" => k \in Fresh(Task)

LEMMA BodiesFit ==
  /\ NoBody \in Body /\ "name" \notin NoBody.sent
  /\ \A b \in Bodies : b \in Body /\ ("name" \in b.sent => b.name # None)
BY ThemesAssumption DEF NoBody, Body

LEMMA BeginFits ==
  ASSUME NEW r \in Request, Begin(r)
  PROVE  \E u \in User : \E op, t, k, b, step :
           Start(r, op, u, t, k, b, step) /\ StartFits(op, t, k, b, step)
<1> USE BodiesFit, RowTypes DEF StartFits, FirstSteps, ThemeOps, TaskOps
<1>1. PICK u \in User :
        \/ \E t \in Fresh(Theme), b \in Bodies :
             "name" \in b.sent /\ Start(r, "createTheme", u, t, None, b, "byName")
        \/ \E t \in Theme, b \in Bodies : Start(r, "updateTheme", u, t, None, b, "getTheme")
        \/ \E t \in Theme : Start(r, "deleteTheme", u, t, None, NoBody, "deleteTheme")
        \/ \E t \in Theme \cup {None}, k \in Fresh(Task) :
             Start(r, "createTask", u, t, k, NoBody, IF t = None THEN "insertTask" ELSE "findTheme")
        \/ \E k \in Task :
             \/ \E t \in Theme \cup {None} : Start(r, "updateTask", u, t, k, NoBody, "getTask")
             \/ Start(r, "completeTask", u, None, k, NoBody, "getTask")
             \/ Start(r, "incompleteTask", u, None, k, NoBody, "getTask")
             \/ Start(r, "deleteTask", u, None, k, NoBody, "deleteTask")
        \/ Start(r, "statistics", u, None, None, NoBody, "readTasks")
  BY DEF Begin
<1>2. Fresh(Theme) \subseteq Theme /\ Fresh(Task) \subseteq Task
  BY DEF Fresh
<1>3. CASE \E t \in Fresh(Theme), b \in Bodies :
             "name" \in b.sent /\ Start(r, "createTheme", u, t, None, b, "byName")
  BY <1>2, <1>3
<1>4. CASE \E t \in Theme, b \in Bodies : Start(r, "updateTheme", u, t, None, b, "getTheme")
  BY <1>4
<1>5. CASE \E t \in Theme : Start(r, "deleteTheme", u, t, None, NoBody, "deleteTheme")
  BY <1>5
<1>6. CASE \E t \in Theme \cup {None}, k \in Fresh(Task) :
             Start(r, "createTask", u, t, k, NoBody, IF t = None THEN "insertTask" ELSE "findTheme")
  BY <1>2, <1>6
<1>7. CASE \E k \in Task :
             \/ \E t \in Theme \cup {None} : Start(r, "updateTask", u, t, k, NoBody, "getTask")
             \/ Start(r, "completeTask", u, None, k, NoBody, "getTask")
             \/ Start(r, "incompleteTask", u, None, k, NoBody, "getTask")
             \/ Start(r, "deleteTask", u, None, k, NoBody, "deleteTask")
  BY <1>7
<1>8. CASE Start(r, "statistics", u, None, None, NoBody, "readTasks")
  BY <1>8
<1> QED
  BY <1>1, <1>3, <1>4, <1>5, <1>6, <1>7, <1>8

LEMMA BeginStep == ASSUME IInv, NEW r \in Request, Begin(r) PROVE IInv'
<1>0. PICK u \in User : \E op, t, k, b, step :
        Start(r, op, u, t, k, b, step) /\ StartFits(op, t, k, b, step)
  BY BeginFits
<1>1. PICK op, t, k, b, step :
        Start(r, op, u, t, k, b, step) /\ StartFits(op, t, k, b, step)
  BY <1>0
<1>2. pc[r] = "idle" /\ UNCHANGED <<themes, tasks, used, seen, write>> /\ RequestInv(r)
  BY SlotTypes DEF Begin
<1>3. /\ Frame(r) /\ pc'[r] = step /\ seen'[r] = None /\ write'[r] = NoWrite
      /\ req'[r] = [op |-> op, user |-> u, theme |-> t, task |-> k, body |-> b]
  BY <1>1, <1>2
  DEF Start, Goto, Frame, IInv, TablesType, RequestInv, SeenFits, OneWriteAtTheEnd
<1>4. step \notin {"idle", "commit", "byColor", "generate", "insertTheme", "reread",
                   "flushTheme", "rereadTask", "flushTask", "readNames"}
  BY <1>1 DEF StartFits, FirstSteps
<1>5. RequestInv(r)'
  <2>1. req'[r] \in ReqType /\ write'[r] \in WriteType
    BY <1>1, <1>3
    DEF ReqType, StartFits, FirstSteps, Operations, WriteType, NoWrite
  <2>2. LocalType(r)'
    BY <1>1, <1>3, <1>4, <2>1
    DEF LocalType, SeenType, StartFits, FirstSteps, Steps
  <2>3. StepFits(r)'
    BY <1>1, <1>3 DEF StepFits, StartFits, FirstSteps, ThemeOps, TaskOps
  <2>4. BodyFits(r)' /\ SeenFits(r)' /\ TargetsAreOwned(r)'
    BY <1>1, <1>3, <1>4
    DEF BodyFits, SeenFits, TargetsAreOwned, StartFits, FirstSteps
  <2>5. NewIdIsFresh(r)'
    BY <1>1, <1>2, <1>3 DEF NewIdIsFresh, StartFits, Fresh, IInv, RowsAreUsed
  <2>6. OneWriteAtTheEnd(r)' /\ ThemeWriteFits(r)' /\ TaskWriteFits(r)'
    BY <1>3, <1>4, RowTypes DEF OneWriteAtTheEnd, ThemeWriteFits, TaskWriteFits, NoWrite
  <2> QED
    BY <2>2, <2>3, <2>4, <2>5, <2>6 DEF RequestInv
<1>6. ASSUME NEW s \in Request \ {r} PROVE PairInv(r, s)' /\ PairInv(s, r)'
  <2>1. req'[s] = req[s] /\ write'[s] = write[s] /\ write[s] \in WriteType
    BY <1>3 DEF Frame, IInv, TablesType
  <2>2. LocksExclude(r, s)' /\ LocksExclude(s, r)'
    BY <1>3, <2>1, RowTypes, TypeOfWrite DEF LocksExclude, NoWrite
  <2>3. CreatorsDiffer(r, s)' /\ CreatorsDiffer(s, r)'
    BY <1>1, <1>3, <2>1 DEF CreatorsDiffer, StartFits, Fresh, Creating
  <2> QED
    BY <2>2, <2>3 DEF PairInv
<1>7. UsesOwnId(r) /\ CreatesFresh(r)
  BY <1>1, <1>2, <1>3 DEF UsesOwnId, CreatesFresh, StartFits, Fresh
<1> QED
  BY <1>3, <1>5, <1>6, <1>7, LocalStep

-----------------------------------------------------------------------------
(* The statements that write.                                               *)

LEMMA WriteStep ==
  ASSUME IInv, NEW r \in Request, NEW id, NEW row, Write(r, id, row),
         UNCHANGED <<themes, tasks>>, UsesOwnId(r),
         pc[r] \notin {"idle", "readNames"}, id # None, [on |-> id, row |-> row] \in WriteType,
         ThemeWriteFits(r)', TaskWriteFits(r)',
         \A s \in Request \ {r} : LocksExclude(r, s)' /\ LocksExclude(s, r)'
  PROVE  IInv'
<1>1. /\ Frame(r) /\ pc'[r] = "commit" /\ req'[r] = req[r] /\ seen'[r] = seen[r]
      /\ write'[r] = [on |-> id, row |-> row]
  BY WriteMoves
<1>2. RequestInv(r)
  BY SlotTypes
<1>3. LocalType(r)' /\ StepFits(r)' /\ BodyFits(r)' /\ SeenFits(r)'
  BY <1>1, <1>2 DEF RequestInv, LocalType, SeenType, Steps, StepFits, BodyFits, SeenFits
<1>4. TargetsAreOwned(r)' /\ NewIdIsFresh(r)' /\ OneWriteAtTheEnd(r)'
  BY <1>1, <1>2 DEF RequestInv, TargetsAreOwned, NewIdIsFresh, OneWriteAtTheEnd, Frame
<1>5. RequestInv(r)'
  BY <1>3, <1>4 DEF RequestInv
<1>6. ASSUME NEW s \in Request \ {r} PROVE PairInv(r, s)' /\ PairInv(s, r)'
  <2>1. req'[s] = req[s] /\ PairInv(r, s) /\ PairInv(s, r)
    BY <1>1 DEF Frame, IInv, TablesType
  <2> QED
    BY <1>1, <2>1 DEF PairInv, CreatorsDiffer
<1>7. CreatesFresh(r)
  BY <1>1 DEF CreatesFresh
<1> QED
  BY <1>1, <1>5, <1>6, <1>7, LocalStep

\* What another request holds, as far as the locks of this one are concerned.
LEMMA OthersWrite ==
  ASSUME IInv, NEW r \in Request, NEW s \in Request \ {r},
         NEW id, NEW row, Write(r, id, row)
  PROVE  /\ s \in Others(r) /\ RequestInv(s)
         /\ write'[r] = [on |-> id, row |-> row] /\ write'[s] = write[s]
         /\ write[s] \in WriteType
         /\ write[s].on \in used \cup {None}
         /\ write[s].on \in Theme => write[s].row \in ThemeRow \cup {None}
         /\ write[s].on \in Task => write[s].row \in TaskRow \cup {None}
<1>1. s \in Others(r) /\ RequestInv(s) /\ write[s] \in WriteType
  BY DEF Others, IInv, TablesType
<1>2. write'[r] = [on |-> id, row |-> row] /\ write'[s] = write[s]
  BY DEF Write, IInv, TablesType
<1>3. write[s].on \in used \cup {None}
  BY <1>1, TypeOfWrite DEF RequestInv, ThemeWriteFits, TaskWriteFits
<1> QED
  BY <1>1, <1>2, <1>3, TypeOfWrite

LEMMA InsertThemeStep == ASSUME IInv, NEW r \in Request, InsertTheme(r) PROVE IInv'
<1> DEFINE t == req[r].theme
           u == req[r].user
           row == NewTheme(r)
<1>1. /\ pc[r] = "insertTheme" /\ UNCHANGED <<themes, tasks>>
      /\ ~NamePending(r, req[r].body.name)
  BY DEF InsertTheme
<1>2. CASE End(r) /\ UNCHANGED used
  BY <1>1, <1>2, EndStep
<1>3. CASE /\ ~NameTaken(r, req[r].body.name, None)
           /\ Write(r, t, row) /\ used' = used \cup {t}
  <2>1. /\ RequestInv(r) /\ req[r] \in ReqType /\ req[r].op = "createTheme"
        /\ t \in Theme /\ u \in User
    BY <1>1, SlotTypes DEF RequestInv, StepFits, ThemeOps
  <2>2. row \in ThemeRow /\ row.owner = u /\ row.name = req[r].body.name /\ row # None
    BY <1>1, <2>1, RowTypes
    DEF RequestInv, BodyFits, NewTheme, ThemeRow, ReqType, Body
  <2>3. t \notin used /\ themes[t] = None
    BY <1>1, <2>1 DEF RequestInv, NewIdIsFresh
  <2>4. write'[r] = [on |-> t, row |-> row] /\ req'[r] = req[r]
    BY <1>1, <1>3, WriteMoves
  <2>5. UsesOwnId(r) /\ t # None /\ t \notin Task /\ [on |-> t, row |-> row] \in WriteType
    BY <1>1, <1>3, <2>1, <2>2, RowTypes DEF UsesOwnId, WriteType
  <2>6. \A other \in Theme :
          themes[other] # None /\ themes[other].owner = u => themes[other].name # row.name
    BY <1>3, <2>2, RowTypes DEF NameTaken, OwnThemes, SelectTheme
  <2> HIDE DEF row
  <2>7. ThemeWriteFits(r)' /\ TaskWriteFits(r)'
    BY <1>1, <1>3, <2>1, <2>2, <2>3, <2>4, <2>5, <2>6
    DEF ThemeWriteFits, TaskWriteFits, ThemeOps
  <2>8. ASSUME NEW s \in Request \ {r} PROVE LocksExclude(r, s)' /\ LocksExclude(s, r)'
    <3>1. write'[s] = write[s] /\ write[s].on # t /\ s \in Others(r)
      BY <1>3, <2>3, <2>5, OthersWrite
    <3>2. write[s].on \in Theme /\ write[s].row # None /\ write[s].row.owner = u =>
            write[s].row.name # row.name
      BY <1>1, <2>2, <3>1 DEF NamePending
    <3> QED
      BY <2>1, <2>2, <2>4, <2>5, <3>1, <3>2 DEF LocksExclude
  <2> QED
    BY <1>1, <1>3, <2>5, <2>7, <2>8, WriteStep
<1> QED
  BY <1>2, <1>3 DEF InsertTheme

LEMMA FlushThemeStep == ASSUME IInv, NEW r \in Request, FlushTheme(r) PROVE IInv'
<1> DEFINE t == req[r].theme
           u == req[r].user
           b == req[r].body
           renames == "name" \in Changed(r)
           row == [themes[t] EXCEPT !.name = IF renames THEN b.name ELSE @,
                                    !.color = IF "color" \in Changed(r) THEN b.color ELSE @]
<1>1. pc[r] = "flushTheme" /\ UNCHANGED <<themes, tasks, used>>
  BY DEF FlushTheme
<1>2. CASE End(r)
  BY <1>1, <1>2, EndStep
<1>3. CASE /\ ~BeingWritten(r, t) /\ (renames => ~NamePending(r, b.name))
           /\ themes[t] # None /\ ~(renames /\ NameTaken(r, b.name, t))
           /\ Write(r, t, row)
  <2>1. /\ RequestInv(r) /\ req[r] \in ReqType /\ req[r].op = "updateTheme"
        /\ t \in Theme /\ u \in User
    BY <1>1, SlotTypes DEF RequestInv, StepFits, ThemeOps
  <2>2. t \in used /\ themes[t] \in ThemeRow /\ themes[t].owner = u
    BY <1>1, <1>3, <2>1 DEF RequestInv, TargetsAreOwned, Mine, IInv, TablesType
  <2>3. /\ renames => "name" \in b.sent /\ b.name \in Name
        /\ "color" \in Changed(r) => b.color \in Color
    BY <1>1, <2>1 DEF Changed, RequestInv, BodyFits, ReqType, Body
  <2>4. /\ row \in ThemeRow /\ row.owner = u
        /\ renames => row.name = b.name
        /\ ~renames => row.name = themes[t].name
    BY <2>2, <2>3 DEF ThemeRow
  <2>5. write'[r] = [on |-> t, row |-> row] /\ req'[r] = req[r]
    BY <1>1, <1>3, WriteMoves
  <2>6. UsesOwnId(r) /\ t # None /\ t \notin Task /\ [on |-> t, row |-> row] \in WriteType
    BY <1>1, <2>1, <2>4, RowTypes DEF UsesOwnId, WriteType
  <2> HIDE DEF row
  <2>7. \A other \in Theme \ {t} :
          themes[other] # None /\ themes[other].owner = u => themes[other].name # row.name
    <3>1. CASE renames
      BY <1>3, <2>4, <3>1 DEF NameTaken, OwnThemes, SelectTheme
    <3>2. CASE ~renames
      BY <1>3, <2>1, <2>2, <2>4, <3>2 DEF IInv, ThemeNamesDiffer
    <3> QED
      BY <3>1, <3>2
  <2>8. ThemeWriteFits(r)' /\ TaskWriteFits(r)'
    BY <1>1, <1>3, <2>1, <2>2, <2>3, <2>4, <2>5, <2>6, <2>7, RowTypes
    DEF ThemeWriteFits, TaskWriteFits, ThemeOps
  <2>9. ASSUME NEW s \in Request \ {r} PROVE LocksExclude(r, s)' /\ LocksExclude(s, r)'
    <3>1. /\ write'[s] = write[s] /\ write[s].on # t /\ s \in Others(r) /\ RequestInv(s)
      BY <1>3, OthersWrite DEF BeingWritten
    <3>2. write[s].on \in Theme /\ write[s].row # None /\ write[s].row.owner = u =>
            write[s].row.name # row.name
      <4>1. CASE renames
        BY <1>3, <2>4, <3>1, <4>1 DEF NamePending
      <4>2. CASE ~renames
        BY <1>3, <2>1, <2>2, <2>4, <3>1, <4>2 DEF RequestInv, ThemeWriteFits
      <4> QED
        BY <4>1, <4>2
    <3> QED
      BY <2>1, <2>4, <2>5, <2>6, <3>1, <3>2, RowTypes DEF LocksExclude
  <2> QED
    BY <1>1, <1>3, <2>6, <2>8, <2>9, WriteStep
<1> QED
  BY <1>2, <1>3 DEF FlushTheme

LEMMA DeleteThemeStep == ASSUME IInv, NEW r \in Request, DeleteTheme(r) PROVE IInv'
<1> DEFINE t == req[r].theme
           u == req[r].user
<1>1. pc[r] = "deleteTheme" /\ UNCHANGED <<themes, tasks, used>>
  BY DEF DeleteTheme
<1>2. CASE End(r)
  BY <1>1, <1>2, EndStep
<1>3. CASE /\ SelectTheme(r, t) # None /\ ~BeingWritten(r, t) /\ ~BeingFiledUnder(r, t)
           /\ \A k \in Task : tasks[k] # None /\ tasks[k].theme = t => ~BeingWritten(r, k)
           /\ Write(r, t, None)
  <2>1. RequestInv(r) /\ req[r].op = "deleteTheme" /\ t \in Theme
    BY <1>1, SlotTypes DEF RequestInv, StepFits, ThemeOps
  <2>2. t \in used /\ themes[t] # None /\ themes[t].owner = u
    BY <1>3, <2>1, OwnedTheme DEF Mine, SelectTheme
  <2>3. write'[r] = [on |-> t, row |-> None] /\ req'[r] = req[r]
    BY <1>1, <1>3, WriteMoves
  <2>4. UsesOwnId(r) /\ t # None /\ t \notin Task /\ [on |-> t, row |-> None] \in WriteType
    BY <1>1, <2>1, RowTypes DEF UsesOwnId, WriteType
  <2>5. ThemeWriteFits(r)' /\ TaskWriteFits(r)'
    BY <1>1, <2>1, <2>2, <2>3, <2>4 DEF ThemeWriteFits, TaskWriteFits, ThemeOps
  <2>6. ASSUME NEW s \in Request \ {r} PROVE LocksExclude(r, s)' /\ LocksExclude(s, r)'
    <3>1. write'[s] = write[s] /\ write[s].on # t /\ s \in Others(r)
      BY <1>3, OthersWrite DEF BeingWritten
    <3>2. write[s].on \in Task /\ write[s].row # None => write[s].row.theme # t
      BY <1>3, <3>1 DEF BeingFiledUnder, BeingWritten
    <3> QED
      BY <2>1, <2>3, <2>4, <3>1, <3>2 DEF LocksExclude
  <2> QED
    BY <1>1, <1>3, <2>4, <2>5, <2>6, WriteStep
<1> QED
  BY <1>2, <1>3 DEF DeleteTheme

\* What a task may be filed under: nothing, or a theme of the user that nobody deletes.
LEMMA FiledSafely ==
  ASSUME IInv, NEW r \in Request, req[r].theme \in Theme,
         pc[r] \in {"insertTask", "flushTask"}, CanFileUnder(r, req[r].theme), ~ThemeIsGone(r)
  PROVE  /\ themes[req[r].theme] # None /\ themes[req[r].theme].owner = req[r].user
         /\ \A s \in Others(r) : write[s].on = req[r].theme => write[s].row # None
<1>1. RequestInv(r) /\ req[r].theme # None
  BY SlotTypes, RowTypes
<1>2. themes[req[r].theme] # None
  BY <1>1 DEF ThemeIsGone
<1>3. Mine(req[r].theme, req[r].user)
  BY <1>1 DEF RequestInv, TargetsAreOwned
<1> QED
  BY <1>1, <1>2, <1>3 DEF Mine, CanFileUnder, KeyBeingChanged

LEMMA InsertTaskStep == ASSUME IInv, NEW r \in Request, InsertTask(r) PROVE IInv'
<1> DEFINE k == req[r].task
           t == req[r].theme
           u == req[r].user
           row == [owner |-> u, theme |-> t, done |-> FALSE]
<1>1. pc[r] = "insertTask" /\ UNCHANGED <<themes, tasks>> /\ CanFileUnder(r, t)
  BY DEF InsertTask
<1>2. CASE End(r) /\ UNCHANGED used
  BY <1>1, <1>2, EndStep
<1>3. CASE ~ThemeIsGone(r) /\ Write(r, k, row) /\ used' = used \cup {k}
  <2>1. /\ RequestInv(r) /\ req[r] \in ReqType /\ req[r].op = "createTask"
        /\ k \in Task /\ u \in User /\ t \in Theme \cup {None}
    BY <1>1, SlotTypes DEF RequestInv, StepFits, TaskOps, ReqType
  <2>2. row \in TaskRow /\ row # None /\ row.owner = u /\ row.theme = t
    <3>1. row \in TaskRow
      BY <2>1, FALSE \in BOOLEAN, Zenon DEF TaskRow
    <3> QED
      BY <3>1, RowTypes
  <2> HIDE DEF row
  <2>3. k \notin used /\ tasks[k] = None
    BY <1>1, <2>1 DEF RequestInv, NewIdIsFresh
  <2>4. write'[r] = [on |-> k, row |-> row] /\ req'[r] = req[r]
    BY <1>1, <1>3, WriteMoves
  <2>5. UsesOwnId(r) /\ k # None /\ k \notin Theme /\ [on |-> k, row |-> row] \in WriteType
    BY <1>1, <1>3, <2>1, <2>2, RowTypes DEF UsesOwnId, WriteType
  <2>6. t # None => /\ themes[t] # None /\ themes[t].owner = u
                    /\ \A s \in Others(r) : write[s].on = t => write[s].row # None
    BY <1>1, <1>3, <2>1, FiledSafely
  <2>7. ThemeWriteFits(r)' /\ TaskWriteFits(r)'
    BY <1>1, <1>3, <2>1, <2>2, <2>3, <2>4, <2>5, <2>6
    DEF ThemeWriteFits, TaskWriteFits, TaskOps
  <2>8. ASSUME NEW s \in Request \ {r} PROVE LocksExclude(r, s)' /\ LocksExclude(s, r)'
    <3>1. write'[s] = write[s] /\ write[s].on # k /\ s \in Others(r)
      BY <1>3, <2>3, <2>5, OthersWrite
    <3> QED
      BY <2>2, <2>4, <2>5, <2>6, <3>1 DEF LocksExclude
  <2> QED
    BY <1>1, <1>3, <2>5, <2>7, <2>8, WriteStep
<1> QED
  BY <1>2, <1>3 DEF InsertTask

LEMMA FlushTaskStep == ASSUME IInv, NEW r \in Request, FlushTask(r) PROVE IInv'
<1> DEFINE k == req[r].task
           t == req[r].theme
           u == req[r].user
           row == Edited(r, tasks[k])
<1>1. pc[r] = "flushTask" /\ UNCHANGED <<themes, tasks, used>>
  BY DEF FlushTask
<1>2. CASE End(r)
  BY <1>1, <1>2, EndStep
<1>3. CASE /\ CanWriteTask(r, k) /\ (Refiles(r) => CanFileUnder(r, t))
           /\ tasks[k] # None /\ ~ThemeIsGone(r) /\ Write(r, k, row)
  <2>1. /\ RequestInv(r) /\ req[r] \in ReqType /\ k \in Task /\ t \in Theme \cup {None}
        /\ req[r].op \in {"updateTask", "completeTask", "incompleteTask"}
    BY <1>1, SlotTypes DEF RequestInv, StepFits, TaskOps, ReqType
  <2>2. k \in used /\ tasks[k] \in TaskRow /\ tasks[k].owner = u
    BY <1>1, <1>3, <2>1 DEF RequestInv, TargetsAreOwned, MineTask, IInv, TablesType
  <2>3. /\ row \in TaskRow /\ row.owner = u /\ row # None
        /\ req[r].op = "updateTask" => row.theme = t /\ row.done = tasks[k].done
        /\ req[r].op # "updateTask" => row.theme = tasks[k].theme
    BY <2>1, <2>2, RowTypes DEF Edited, TaskRow
  <2>4. write'[r] = [on |-> k, row |-> row] /\ req'[r] = req[r]
    BY <1>1, <1>3, WriteMoves
  <2>5. UsesOwnId(r) /\ k # None /\ k \notin Theme /\ [on |-> k, row |-> row] \in WriteType
    BY <1>1, <2>1, <2>3, RowTypes DEF UsesOwnId, WriteType
  <2> HIDE DEF row
  <2>6. row.theme # None =>
          /\ themes[row.theme] # None /\ themes[row.theme].owner = u
          /\ \A s \in Others(r) : write[s].on = row.theme => write[s].row # None
    <3>1. CASE Refiles(r)
      BY <1>1, <1>3, <2>1, <2>3, <3>1, FiledSafely DEF Refiles
    <3>2. CASE ~Refiles(r)
      <4>1. row.theme = tasks[k].theme
        BY <1>3, <2>3, <3>2 DEF Refiles
      <4>2. row.theme # None => themes[row.theme] # None /\ themes[row.theme].owner = u
        BY <1>3, <2>1, <2>2, <4>1 DEF IInv, FiledUnderOwnTheme
      <4> QED
        BY <1>3, <4>1, <4>2 DEF CanWriteTask, BeingUnfiled
    <3> QED
      BY <3>1, <3>2
  <2>7. ThemeWriteFits(r)' /\ TaskWriteFits(r)'
    BY <1>1, <1>3, <2>1, <2>2, <2>3, <2>4, <2>5, <2>6
    DEF ThemeWriteFits, TaskWriteFits, TaskOps
  <2>8. ASSUME NEW s \in Request \ {r} PROVE LocksExclude(r, s)' /\ LocksExclude(s, r)'
    <3>1. write'[s] = write[s] /\ write[s].on # k /\ s \in Others(r)
      BY <1>3, OthersWrite DEF CanWriteTask, BeingWritten
    <3> QED
      BY <2>3, <2>4, <2>5, <2>6, <3>1 DEF LocksExclude
  <2> QED
    BY <1>1, <1>3, <2>5, <2>7, <2>8, WriteStep
<1> QED
  BY <1>2, <1>3 DEF FlushTask

LEMMA DeleteTaskStep == ASSUME IInv, NEW r \in Request, DeleteTask(r) PROVE IInv'
<1> DEFINE k == req[r].task
           u == req[r].user
<1>1. pc[r] = "deleteTask" /\ UNCHANGED <<themes, tasks, used>>
  BY DEF DeleteTask
<1>2. CASE End(r)
  BY <1>1, <1>2, EndStep
<1>3. CASE SelectTask(r, k) # None /\ CanWriteTask(r, k) /\ Write(r, k, None)
  <2>1. RequestInv(r) /\ req[r].op = "deleteTask" /\ k \in Task
    BY <1>1, SlotTypes DEF RequestInv, StepFits, TaskOps
  <2>2. k \in used /\ tasks[k] # None /\ tasks[k].owner = u
    BY <1>3, <2>1, OwnedTask DEF MineTask, SelectTask
  <2>3. write'[r] = [on |-> k, row |-> None] /\ req'[r] = req[r]
    BY <1>1, <1>3, WriteMoves
  <2>4. UsesOwnId(r) /\ k # None /\ k \notin Theme /\ [on |-> k, row |-> None] \in WriteType
    BY <1>1, <2>1, RowTypes DEF UsesOwnId, WriteType
  <2>5. ThemeWriteFits(r)' /\ TaskWriteFits(r)'
    BY <1>1, <2>1, <2>2, <2>3, <2>4 DEF ThemeWriteFits, TaskWriteFits, TaskOps
  <2>6. ASSUME NEW s \in Request \ {r} PROVE LocksExclude(r, s)' /\ LocksExclude(s, r)'
    <3>1. /\ write'[s] = write[s] /\ write[s].on # k /\ s \in Others(r)
          /\ write[s].on \in Task => write[s].row \in TaskRow \cup {None}
      BY <1>3, OthersWrite DEF CanWriteTask, BeingWritten
    <3>2. write[s].on \in Task /\ write[s].row # None => write[s].row.theme # k
      BY <2>1, <2>4, <3>1, RowTypes DEF TaskRow
    <3> QED
      BY <2>1, <2>3, <2>4, <3>1, <3>2 DEF LocksExclude
  <2> QED
    BY <1>1, <1>3, <2>4, <2>5, <2>6, WriteStep
<1> QED
  BY <1>2, <1>3 DEF DeleteTask

-----------------------------------------------------------------------------
(* The commit.                                                              *)

LEMMA CommitMoves ==
  ASSUME IInv, NEW r \in Request, Commit(r)
  PROVE  /\ pc[r] = "commit" /\ used' = used
         /\ pc'[r] = "idle" /\ req'[r] = NoReq /\ seen'[r] = None /\ write'[r] = NoWrite
         /\ \A s \in Request \ {r} : /\ pc'[s] = pc[s] /\ req'[s] = req[s]
                                     /\ seen'[s] = seen[s] /\ write'[s] = write[s]
         /\ pc' \in [Request -> Steps] /\ req' \in [Request -> ReqType]
         /\ write' \in [Request -> WriteType] /\ seen' = [s \in Request |-> seen'[s]]
<1>1. NoReq \in ReqType /\ NoWrite \in WriteType /\ "idle" \in Steps
  BY DEF NoReq, NoBody, ReqType, Body, NoWrite, WriteType, Steps
<1> QED
  BY <1>1 DEF Commit, End, IInv, TablesType

LEMMA WhatIsCommitted ==
  ASSUME IInv, NEW r \in Request, Commit(r)
  PROVE  /\ RequestInv(r) /\ write[r].on \in Theme \cup Task
         /\ write[r].on \in Theme => write[r].row \in ThemeRow \cup {None}
         /\ write[r].on \in Task => write[r].row \in TaskRow \cup {None}
         /\ ThemeWriteFits(r) /\ TaskWriteFits(r)
<1>1. RequestInv(r) /\ write[r] \in WriteType /\ pc[r] = "commit"
  BY SlotTypes, CommitMoves DEF IInv, TablesType
<1> QED
  BY <1>1, TypeOfWrite DEF RequestInv, OneWriteAtTheEnd

LEMMA CommitOfTheme ==
  ASSUME IInv, NEW r \in Request, Commit(r), write[r].on \in Theme
  PROVE  /\ themes' = [themes EXCEPT ![write[r].on] = write[r].row]
         /\ themes' \in [Theme -> ThemeRow \cup {None}]
         /\ tasks' = [k \in Task |->
                        IF write[r].row = None /\ tasks[k] # None /\ tasks[k].theme = write[r].on
                        THEN [tasks[k] EXCEPT !.theme = None] ELSE tasks[k]]
         /\ tasks' \in [Task -> TaskRow \cup {None}]
<1> DEFINE w == write[r]
<1>1. /\ w.row \in ThemeRow \cup {None} /\ w.on # None /\ w.on \notin Task
      /\ themes \in [Theme -> ThemeRow \cup {None}] /\ tasks \in [Task -> TaskRow \cup {None}]
  BY WhatIsCommitted, RowTypes DEF IInv, TablesType
<1>2. themes' = [themes EXCEPT ![w.on] = w.row]
  BY <1>1 DEF Commit
<1>3. themes' \in [Theme -> ThemeRow \cup {None}]
  BY <1>1, <1>2
<1>4. \A k \in Task : CommittedTask(r, k) =
        IF w.row = None /\ tasks[k] # None /\ tasks[k].theme = w.on
        THEN [tasks[k] EXCEPT !.theme = None] ELSE tasks[k]
  BY <1>1 DEF CommittedTask
<1>5. tasks' = [k \in Task |->
                  IF w.row = None /\ tasks[k] # None /\ tasks[k].theme = w.on
                  THEN [tasks[k] EXCEPT !.theme = None] ELSE tasks[k]]
  BY <1>4 DEF Commit
<1>6. \A k \in Task : tasks[k] # None => [tasks[k] EXCEPT !.theme = None] \in TaskRow
  BY <1>1 DEF TaskRow
<1>7. tasks' \in [Task -> TaskRow \cup {None}]
  BY <1>1, <1>5, <1>6
<1> QED
  BY <1>2, <1>3, <1>5, <1>7

LEMMA CommitOfTask ==
  ASSUME IInv, NEW r \in Request, Commit(r), write[r].on \in Task
  PROVE  /\ themes' = themes
         /\ tasks' = [tasks EXCEPT ![write[r].on] = write[r].row]
         /\ tasks' \in [Task -> TaskRow \cup {None}]
<1> DEFINE w == write[r]
<1>1. /\ w.row \in TaskRow \cup {None} /\ w.on # None /\ w.on \notin Theme
      /\ themes \in [Theme -> ThemeRow \cup {None}] /\ tasks \in [Task -> TaskRow \cup {None}]
  BY WhatIsCommitted, RowTypes DEF IInv, TablesType
<1>2. themes' = themes
  BY <1>1 DEF Commit
<1>3. ASSUME NEW k \in Task PROVE CommittedTask(r, k) = IF k = w.on THEN w.row ELSE tasks[k]
  <2>1. ~(tasks[k] # None /\ tasks[k].theme # None /\ tasks[k].theme = w.on)
    BY <1>1 DEF TaskRow
  <2> QED
    BY <2>1 DEF CommittedTask
<1>4. tasks' = [tasks EXCEPT ![w.on] = w.row]
  BY <1>1, <1>3 DEF Commit
<1> QED
  BY <1>1, <1>2, <1>4

LEMMA CommitKeepsMine ==
  ASSUME IInv, NEW r \in Request, Commit(r), NEW u
  PROVE  /\ \A t \in Theme : Mine(t, u) => Mine(t, u)'
         /\ \A k \in Task : MineTask(k, u) => MineTask(k, u)'
<1> DEFINE w == write[r]
<1>1. /\ used' = used /\ req'[r].op = "none"
      /\ \A s \in Request \ {r} : req'[s] = req[s]
  BY CommitMoves DEF NoReq
<1>2. ThemeWriteFits(r) /\ TaskWriteFits(r) /\ w.on \in Theme \cup Task
  BY WhatIsCommitted
<1>3. CASE w.on \in Theme
  <2>1. /\ themes' = [themes EXCEPT ![w.on] = w.row] /\ DOMAIN themes = Theme
        /\ \A k \in Task : tasks'[k] # None =>
             tasks[k] # None /\ tasks'[k].owner = tasks[k].owner
    <3>1. /\ themes' = [themes EXCEPT ![w.on] = w.row] /\ DOMAIN themes = Theme
          /\ tasks \in [Task -> TaskRow \cup {None}]
      BY <1>3, CommitOfTheme DEF IInv, TablesType
    <3>2. \A k \in Task :
            tasks'[k] = IF w.row = None /\ tasks[k] # None /\ tasks[k].theme = w.on
                        THEN [tasks[k] EXCEPT !.theme = None] ELSE tasks[k]
      BY <1>3, CommitOfTheme
    <3> QED
      BY <3>1, <3>2 DEF TaskRow
  <2>2. ASSUME NEW t \in Theme, Mine(t, u) PROVE Mine(t, u)'
    <3>1. CASE t = w.on
      <4>1. w.row # None => w.row.owner = u
        BY <1>2, <1>3, <2>2, <3>1 DEF ThemeWriteFits, Mine
      <4> QED
        BY <1>1, <2>1, <2>2, <3>1, <4>1 DEF Mine
    <3>2. CASE t # w.on
      BY <1>1, <2>1, <2>2, <3>2 DEF Mine
    <3> QED
      BY <3>1, <3>2
  <2>3. \A k \in Task : MineTask(k, u) => MineTask(k, u)'
    BY <1>1, <2>1 DEF MineTask
  <2> QED
    BY <2>2, <2>3
<1>4. CASE w.on \in Task
  <2>1. /\ themes' = themes /\ tasks' = [tasks EXCEPT ![w.on] = w.row] /\ DOMAIN tasks = Task
    BY <1>4, CommitOfTask DEF IInv, TablesType
  <2>2. ASSUME NEW k \in Task, MineTask(k, u) PROVE MineTask(k, u)'
    <3>1. CASE k = w.on
      <4>1. w.row # None => w.row.owner = u
        BY <1>2, <1>4, <2>2, <3>1 DEF TaskWriteFits, MineTask
      <4> QED
        BY <1>1, <2>1, <2>2, <3>1, <4>1 DEF MineTask
    <3>2. CASE k # w.on
      BY <1>1, <2>1, <2>2, <3>2 DEF MineTask
    <3> QED
      BY <3>1, <3>2
  <2>3. \A t \in Theme : Mine(t, u) => Mine(t, u)'
    BY <1>1, <2>1 DEF Mine
  <2> QED
    BY <2>2, <2>3
<1> QED
  BY <1>2, <1>3, <1>4

\* A request that creates a row is the only one to write it, until the commit.
LEMMA CommitKeepsFresh ==
  ASSUME IInv, NEW r \in Request, Commit(r), NEW s \in Request \ {r}
  PROVE  NewIdIsFresh(s)'
<1> DEFINE w == write[r]
           t == req[s].theme
           k == req[s].task
<1>1. /\ used' = used /\ req'[s] = req[s] /\ pc'[s] = pc[s]
      /\ w.on \in Theme \cup Task /\ w.on \in used
      /\ RequestInv(s) /\ LocksExclude(r, s)
      /\ write[s] \in WriteType
  BY CommitMoves, WhatIsCommitted, SlotTypes
  DEF IInv, TablesType, PairInv, ThemeWriteFits, TaskWriteFits
<1>2. req[s].op = "createTheme" => t \in Theme /\ w.on # t
  <2> SUFFICES ASSUME req[s].op = "createTheme", w.on = t PROVE FALSE
    BY SlotTypes DEF ThemeOps
  <2>1. t \in Theme /\ pc[s] = "commit"
    BY <1>1, SlotTypes DEF ThemeOps, RequestInv, NewIdIsFresh
  <2>2. write[s].on \in Theme \cup Task
    BY <1>1, <2>1, TypeOfWrite DEF RequestInv, OneWriteAtTheEnd
  <2>3. write[s].on = t
    BY <1>1, <2>2 DEF RequestInv, ThemeWriteFits, TaskWriteFits, TaskOps
  <2> QED
    BY <1>1, <2>1, <2>3, RowTypes DEF LocksExclude
<1>3. req[s].op = "createTask" => k \in Task /\ w.on # k
  <2> SUFFICES ASSUME req[s].op = "createTask", w.on = k PROVE FALSE
    BY SlotTypes DEF TaskOps
  <2>1. k \in Task /\ pc[s] = "commit"
    BY <1>1, SlotTypes DEF TaskOps, RequestInv, NewIdIsFresh
  <2>2. write[s].on \in Theme \cup Task
    BY <1>1, <2>1, TypeOfWrite DEF RequestInv, OneWriteAtTheEnd
  <2>3. write[s].on = k
    BY <1>1, <2>2 DEF RequestInv, ThemeWriteFits, TaskWriteFits, ThemeOps
  <2> QED
    BY <1>1, <2>1, <2>3, RowTypes DEF LocksExclude
<1>4. CASE w.on \in Theme
  <2>1. \A x \in Theme : x # w.on => themes'[x] = themes[x]
    BY <1>4, CommitOfTheme DEF IInv, TablesType
  <2>2. \A x \in Task : tasks[x] = None => tasks'[x] = None
    BY <1>4, CommitOfTheme
  <2> QED
    BY <1>1, <1>2, <1>3, <2>1, <2>2 DEF RequestInv, NewIdIsFresh
<1>5. CASE w.on \in Task
  <2>1. themes' = themes /\ \A x \in Task : x # w.on => tasks'[x] = tasks[x]
    BY <1>5, CommitOfTask DEF IInv, TablesType
  <2> QED
    BY <1>1, <1>2, <1>3, <2>1 DEF RequestInv, NewIdIsFresh
<1> QED
  BY <1>1, <1>4, <1>5

LEMMA CommitKeepsThemeWrite ==
  ASSUME IInv, NEW r \in Request, Commit(r), NEW s \in Request \ {r}
  PROVE  ThemeWriteFits(s)'
<1> DEFINE w == write[r]
           v == write[s]
           u == req[s].user
<1>1. /\ used' = used /\ req'[s] = req[s] /\ write'[s] = v
      /\ ThemeWriteFits(r) /\ w.on \in Theme \cup Task
      /\ RequestInv(s) /\ LocksExclude(r, s)
  BY CommitMoves, WhatIsCommitted, SlotTypes DEF IInv, PairInv
<1> SUFFICES ASSUME v.on \in Theme PROVE ThemeWriteFits(s)'
  BY <1>1 DEF ThemeWriteFits
<1>2. CASE w.on \in Task
  BY <1>1, <1>2, CommitOfTask DEF RequestInv, ThemeWriteFits
<1>3. CASE w.on \in Theme
  <2>1. /\ w.on # v.on /\ themes'[w.on] = w.row
        /\ \A t \in Theme \ {w.on} : themes'[t] = themes[t]
    BY <1>1, <1>3, CommitOfTheme, RowTypes DEF LocksExclude, IInv, TablesType
  <2>2. v.row # None =>
          \A t \in Theme \ {v.on} :
            themes'[t] # None /\ themes'[t].owner = u => themes'[t].name # v.row.name
    <3> SUFFICES ASSUME v.row # None, NEW t \in Theme \ {v.on},
                        themes'[t] # None, themes'[t].owner = u
                 PROVE  themes'[t].name # v.row.name
      OBVIOUS
    <3>1. v.row.owner = u
      BY <1>1 DEF RequestInv, ThemeWriteFits
    <3>2. CASE t = w.on
      BY <1>1, <1>3, <2>1, <3>1, <3>2 DEF LocksExclude
    <3>3. CASE t # w.on
      BY <1>1, <2>1, <3>3 DEF RequestInv, ThemeWriteFits
    <3> QED
      BY <3>2, <3>3
  <2>3. themes'[v.on] = themes[v.on]
    BY <2>1
  <2> QED
    BY <1>1, <2>2, <2>3 DEF RequestInv, ThemeWriteFits
<1> QED
  BY <1>1, <1>2, <1>3

LEMMA CommitKeepsTaskWrite ==
  ASSUME IInv, NEW r \in Request, Commit(r), NEW s \in Request \ {r}
  PROVE  TaskWriteFits(s)'
<1> DEFINE w == write[r]
           v == write[s]
           u == req[s].user
<1>1. /\ used' = used /\ req'[s] = req[s] /\ write'[s] = v
      /\ ThemeWriteFits(r) /\ w.on \in Theme \cup Task
      /\ RequestInv(s) /\ LocksExclude(r, s) /\ LocksExclude(s, r)
  BY CommitMoves, WhatIsCommitted, SlotTypes DEF IInv, PairInv
<1> SUFFICES ASSUME v.on \in Task PROVE TaskWriteFits(s)'
  BY <1>1 DEF TaskWriteFits
<1>2. /\ TaskWriteFits(s) /\ v \in WriteType /\ v.row \in TaskRow \cup {None}
      /\ tasks[v.on] \in TaskRow \cup {None}
  BY <1>1, TypeOfWrite DEF RequestInv, IInv, TablesType
<1>3. CASE w.on \in Task
  <2>1. w.on # v.on
    BY <1>1, <1>3, RowTypes DEF LocksExclude
  <2>2. themes' = themes /\ tasks'[v.on] = tasks[v.on]
    BY <1>3, <2>1, CommitOfTask DEF IInv, TablesType
  <2> QED
    BY <1>1, <1>2, <2>2 DEF TaskWriteFits
<1>4. CASE w.on \in Theme
  <2>1. /\ themes'[w.on] = w.row
        /\ \A t \in Theme \ {w.on} : themes'[t] = themes[t]
    BY <1>4, CommitOfTheme DEF IInv, TablesType
  <2>2. tasks'[v.on] = IF w.row = None /\ tasks[v.on] # None /\ tasks[v.on].theme = w.on
                       THEN [tasks[v.on] EXCEPT !.theme = None] ELSE tasks[v.on]
    BY <1>4, CommitOfTheme
  <2>3. /\ tasks'[v.on] = None <=> tasks[v.on] = None
        /\ tasks[v.on] # None => /\ tasks'[v.on].owner = tasks[v.on].owner
                                 /\ tasks'[v.on].done = tasks[v.on].done
        /\ tasks'[v.on] = tasks[v.on]
             \/ (w.row = None /\ tasks[v.on].theme = w.on)
    BY <1>2, <2>2, RowTypes DEF TaskRow
  <2>4. v.row # None /\ v.row.theme = w.on => w.row # None
    BY <1>1, <1>4, RowTypes DEF LocksExclude
  <2>5. v.row # None /\ v.row.theme # None =>
          themes'[v.row.theme] # None /\ themes'[v.row.theme].owner = u
    <3> SUFFICES ASSUME v.row # None, v.row.theme # None
                 PROVE  themes'[v.row.theme] # None /\ themes'[v.row.theme].owner = u
      OBVIOUS
    <3>1. /\ v.row.theme \in Theme
          /\ themes[v.row.theme] # None /\ themes[v.row.theme].owner = u
      BY <1>2 DEF TaskWriteFits, TaskRow
    <3>2. CASE v.row.theme = w.on
      BY <1>1, <1>4, <2>1, <2>4, <3>1, <3>2 DEF ThemeWriteFits
    <3>3. CASE v.row.theme # w.on
      BY <2>1, <3>1, <3>3
    <3> QED
      BY <3>2, <3>3
  <2>6. req[s].op \in {"completeTask", "incompleteTask"} => v.row.theme = tasks'[v.on].theme
    BY <1>2, <1>4, <2>3, <2>4, RowTypes DEF TaskWriteFits
  <2> QED
    BY <1>1, <1>2, <2>3, <2>5, <2>6 DEF TaskWriteFits
<1> QED
  BY <1>1, <1>3, <1>4

\* The tables after a commit: types, ids, foreign keys and unique names.
LEMMA CommitKeepsTables ==
  ASSUME IInv, NEW r \in Request, Commit(r)
  PROVE  TablesType' /\ RowsAreUsed' /\ FiledUnderOwnTheme' /\ ThemeNamesDiffer'
<1> DEFINE w == write[r]
<1>1. /\ used' = used /\ w.on \in Theme \cup Task
      /\ ThemeWriteFits(r) /\ TaskWriteFits(r)
      /\ RowsAreUsed /\ FiledUnderOwnTheme /\ ThemeNamesDiffer /\ TablesType
      /\ w.on \in Theme => w.row \in ThemeRow \cup {None}
      /\ w.on \in Task => w.row \in TaskRow \cup {None}
  BY CommitMoves, WhatIsCommitted DEF IInv
<1>2. TablesType'
  BY <1>1, CommitMoves, CommitOfTheme, CommitOfTask DEF TablesType
<1>3. CASE w.on \in Task
  <2>1. /\ themes' = themes /\ tasks'[w.on] = w.row
        /\ \A k \in Task \ {w.on} : tasks'[k] = tasks[k]
    BY <1>1, <1>3, CommitOfTask DEF TablesType
  <2>2. RowsAreUsed' /\ ThemeNamesDiffer'
    BY <1>1, <1>3, <2>1 DEF RowsAreUsed, ThemeNamesDiffer, TaskWriteFits
  <2>3. FiledUnderOwnTheme'
    BY <1>1, <1>3, <2>1 DEF FiledUnderOwnTheme, TaskWriteFits
  <2> QED
    BY <1>2, <2>2, <2>3
<1>4. CASE w.on \in Theme
  <2>1. /\ themes'[w.on] = w.row
        /\ \A t \in Theme \ {w.on} : themes'[t] = themes[t]
    BY <1>1, <1>4, CommitOfTheme DEF TablesType
  <2>2. \A k \in Task :
          tasks'[k] = IF w.row = None /\ tasks[k] # None /\ tasks[k].theme = w.on
                      THEN [tasks[k] EXCEPT !.theme = None] ELSE tasks[k]
    BY <1>4, CommitOfTheme
  <2>3. ASSUME NEW k \in Task, tasks'[k] # None
        PROVE  /\ tasks[k] # None /\ tasks'[k].owner = tasks[k].owner
               /\ tasks'[k].theme # None =>
                    /\ tasks'[k].theme = tasks[k].theme /\ tasks[k].theme \in Theme
                    /\ w.row = None => tasks[k].theme # w.on
    <3>1. tasks[k] \in TaskRow
      BY <1>1, <2>2, <2>3 DEF TablesType
    <3> QED
      BY <2>2, <2>3, <3>1, RowTypes DEF TaskRow
  <2>4. RowsAreUsed'
    BY <1>1, <1>4, <2>1, <2>3 DEF RowsAreUsed, ThemeWriteFits
  <2>5. ThemeNamesDiffer'
    <3> SUFFICES ASSUME NEW t \in Theme, NEW other \in Theme, t # other,
                        themes'[t] # None, themes'[other] # None,
                        themes'[t].owner = themes'[other].owner
                 PROVE  themes'[t].name # themes'[other].name
      BY DEF ThemeNamesDiffer
    <3>1. CASE t = w.on
      BY <1>1, <1>4, <2>1, <3>1 DEF ThemeWriteFits
    <3>2. CASE other = w.on
      BY <1>1, <1>4, <2>1, <3>2 DEF ThemeWriteFits
    <3>3. CASE t # w.on /\ other # w.on
      BY <1>1, <2>1, <3>3 DEF ThemeNamesDiffer
    <3> QED
      BY <3>1, <3>2, <3>3
  <2>6. FiledUnderOwnTheme'
    <3> SUFFICES ASSUME NEW k \in Task, tasks'[k] # None, tasks'[k].theme # None
                 PROVE  /\ themes'[tasks'[k].theme] # None
                        /\ themes'[tasks'[k].theme].owner = tasks'[k].owner
      BY DEF FiledUnderOwnTheme
    <3>1. /\ tasks[k] # None /\ tasks'[k].owner = tasks[k].owner
          /\ tasks'[k].theme = tasks[k].theme /\ tasks[k].theme \in Theme /\ tasks[k].theme # None
          /\ w.row = None => tasks[k].theme # w.on
      BY <2>3
    <3>2. themes[tasks[k].theme] # None /\ themes[tasks[k].theme].owner = tasks[k].owner
      BY <1>1, <3>1 DEF FiledUnderOwnTheme
    <3>3. CASE tasks[k].theme = w.on
      BY <1>1, <1>4, <2>1, <3>1, <3>2, <3>3 DEF ThemeWriteFits
    <3>4. CASE tasks[k].theme # w.on
      BY <2>1, <3>1, <3>2, <3>4
    <3> QED
      BY <3>3, <3>4
  <2> QED
    BY <1>2, <2>4, <2>5, <2>6
<1> QED
  BY <1>1, <1>3, <1>4

LEMMA CommitStep == ASSUME IInv, NEW r \in Request, Commit(r) PROVE IInv'
<1>1. /\ used' = used
      /\ pc'[r] = "idle" /\ req'[r] = NoReq /\ seen'[r] = None /\ write'[r] = NoWrite
      /\ \A s \in Request \ {r} : /\ pc'[s] = pc[s] /\ req'[s] = req[s]
                                  /\ seen'[s] = seen[s] /\ write'[s] = write[s]
  BY CommitMoves
<1>2. ASSUME NEW s \in Request \ {r} PROVE RequestInv(s)'
  <2>1. RequestInv(s) /\ pc'[s] = pc[s] /\ req'[s] = req[s] /\ seen'[s] = seen[s]
        /\ write'[s] = write[s]
    BY <1>1, SlotTypes
  <2>2. LocalType(s)' /\ StepFits(s)' /\ BodyFits(s)' /\ SeenFits(s)' /\ OneWriteAtTheEnd(s)'
    BY <2>1
    DEF RequestInv, LocalType, SeenType, StepFits, BodyFits, SeenFits, OneWriteAtTheEnd
  <2>3. TargetsAreOwned(s)'
    <3>1. /\ req[s].theme \in Theme \cup {None}
          /\ req[s].op \in ThemeOps => req[s].theme \in Theme
          /\ req[s].op \in TaskOps => req[s].task \in Task
          /\ pc[s] = "flushTheme" => req[s].op \in ThemeOps
          /\ pc[s] = "flushTask" => req[s].op \in TaskOps
      BY <2>1, SlotTypes DEF ReqType, RequestInv, StepFits, ThemeOps, TaskOps
    <3>2. pc[s] = "readNames" =>
            \A k \in Task : seen[s][k] # None => seen[s][k].theme \in Theme \cup {None}
      BY <2>1 DEF RequestInv, LocalType, SeenType, TaskRow
    <3> QED
      BY <2>1, <3>1, <3>2, CommitKeepsMine DEF RequestInv, TargetsAreOwned
  <2> QED
    BY <2>2, <2>3, CommitKeepsFresh, CommitKeepsThemeWrite, CommitKeepsTaskWrite
    DEF RequestInv
<1>3. RequestInv(r)'
  BY <1>1, EndFits
<1>4. ASSUME NEW s \in Request, NEW q \in Request, s # q PROVE PairInv(s, q)'
  <2>1. CASE s # r /\ q # r
    BY <1>1, <1>4, <2>1 DEF IInv, PairInv, LocksExclude, CreatorsDiffer
  <2>2. CASE s = r
    BY <1>1, <1>4, <2>2, RowTypes DEF PairInv, LocksExclude, CreatorsDiffer, NoWrite, NoReq
  <2>3. CASE q = r
    <3>1. write[s] \in WriteType /\ write'[s] = write[s]
      BY <1>1, <1>4, <2>3 DEF IInv, TablesType
    <3>2. write[s].on \in Task /\ write[s].row # None /\ write[s].row.theme # None =>
            write[s].row.theme # NoWrite.on
      BY DEF NoWrite
    <3> QED
      BY <1>1, <1>4, <2>3, <3>1, <3>2, RowTypes
      DEF PairInv, LocksExclude, CreatorsDiffer, NoWrite, NoReq
  <2> QED
    BY <2>1, <2>2, <2>3
<1> QED
  BY <1>2, <1>3, <1>4, CommitKeepsTables DEF IInv

LEMMA NextInv == IInv /\ [Next]_vars => IInv'
<1> SUFFICES ASSUME IInv, [Next]_vars PROVE IInv'
  OBVIOUS
<1>1. CASE UNCHANGED vars
  BY <1>1
  DEF vars, IInv, TablesType, RowsAreUsed, FiledUnderOwnTheme, ThemeNamesDiffer, RequestInv,
      LocalType, SeenType, StepFits, BodyFits, SeenFits, TargetsAreOwned, Mine, MineTask,
      NewIdIsFresh, OneWriteAtTheEnd, ThemeWriteFits, TaskWriteFits, PairInv, LocksExclude,
      CreatorsDiffer
<1>2. ASSUME NEW r \in Request, Begin(r) PROVE IInv'
  BY <1>2, BeginStep
<1>3. ASSUME NEW r \in Request, Statement(r) PROVE IInv'
  BY <1>3, GetThemeStep, ByNameStep, ByColorStep, GenerateStep, InsertThemeStep, RereadStep,
     FlushThemeStep, DeleteThemeStep, FindThemeStep, InsertTaskStep, GetTaskStep,
     RereadTaskStep, FlushTaskStep, DeleteTaskStep, ReadTasksStep, EndStep, CommitStep
  DEF Statement, ReadNames
<1>4. ASSUME NEW r \in Request, Rollback(r) PROVE IInv'
  BY <1>4, EndStep DEF Rollback
<1> QED
  BY <1>1, <1>2, <1>3, <1>4 DEF Next

-----------------------------------------------------------------------------
(* The theorems.                                                            *)

\* The inductive invariant holds in every reachable state.
THEOREM Invariant == Spec => []IInv
BY InitInv, NextInv, PTL DEF Spec

\* Every column keeps its type, and what a request has read fits its next statement.
THEOREM TypeCorrect == Spec => []TypeOK
BY Invariant, InvIsTyped, PTL

\* No interleaving of deletions with look-ups, the foreign key's locks being what they
\* are, leaves a task under a theme that is gone or somebody else's.
THEOREM TasksHaveOwnThemes == Spec => []FiledUnderOwnTheme
<1>1. IInv => FiledUnderOwnTheme
  BY DEF IInv
<1> QED
  BY <1>1, Invariant, PTL

\* The unique constraint makes up for the look-up of the name, whatever happens between
\* the two.
THEOREM NamesDiffer == Spec => []ThemeNamesDiffer
<1>1. IInv => ThemeNamesDiffer
  BY DEF IInv
<1> QED
  BY <1>1, Invariant, PTL

\* The figures by theme are those of the themes, although they are kept by name and the
\* names are read after the tasks.
THEOREM FiguresAreOfThemes == Spec => []FiguresAreTrue
<1>1. ASSUME IInv, NEW r \in Request, pc[r] = "readNames", NEW k \in Task, seen[r][k] # None
      PROVE  /\ seen[r][k].theme \in OwnThemes(r) => Label(r, k) = themes[seen[r][k].theme].name
             /\ seen[r][k].theme \notin OwnThemes(r) => Label(r, k) = NoThemeLabel
             /\ seen[r][k].theme = None \/ themes[seen[r][k].theme] = None
                  \/ seen[r][k].theme \in OwnThemes(r)
  <2>1. RequestInv(r)
    BY <1>1, SlotTypes
  <2>2. seen[r][k].theme \in Theme \cup {None}
    BY <1>1, <2>1 DEF RequestInv, LocalType, SeenType, TaskRow
  <2>3. seen[r][k].theme # None => Mine(seen[r][k].theme, req[r].user)
    BY <1>1, <2>1 DEF RequestInv, TargetsAreOwned
  <2>4. seen[r][k].theme = None \/ themes[seen[r][k].theme] = None
          \/ seen[r][k].theme \in OwnThemes(r)
    BY <2>2, <2>3 DEF Mine, OwnThemes, SelectTheme
  <2> QED
    BY <2>4 DEF Label
<1>2. ASSUME IInv, NEW r \in Request, pc[r] = "readNames", NEW t \in OwnThemes(r),
             themes[t].name # NoThemeLabel
      PROVE  Figure(r, themes[t].name)
               = Cardinality({k \in Task : seen[r][k] # None /\ seen[r][k].theme = t})
  <2>1. ASSUME NEW x \in OwnThemes(r), themes[x].name = themes[t].name PROVE x = t
    BY <1>2, <2>1 DEF OwnThemes, SelectTheme, IInv, ThemeNamesDiffer
  <2>2. ASSUME NEW k \in Task, seen[r][k] # None
        PROVE  Label(r, k) = themes[t].name <=> seen[r][k].theme = t
    BY <1>1, <1>2, <2>1, <2>2
  <2>3. {k \in Task : seen[r][k] # None /\ Label(r, k) = themes[t].name}
          = {k \in Task : seen[r][k] # None /\ seen[r][k].theme = t}
    BY <2>2
  <2> QED
    BY <2>3 DEF Figure
<1>3. IInv => FiguresAreTrue
  BY <1>1, <1>2 DEF FiguresAreTrue
<1> QED
  BY <1>3, Invariant, PTL

\* No update is lost, however many statements lie between the SELECT and the UPDATE.
THEOREM UpdatesKeepOthersWork == Spec => OthersWorkIsKept
<1>1. ASSUME IInv, NEW r \in Request, Commit(r)
      PROVE  LET k == req[r].task
                 t == req[r].theme
             IN CASE req[r].op = "updateTask" -> tasks'[k].done = tasks[k].done
                  [] req[r].op \in {"completeTask", "incompleteTask"} ->
                       tasks'[k].theme = tasks[k].theme
                  [] req[r].op = "updateTheme" /\ "name" \notin req[r].body.sent
                       -> themes'[t].name = themes[t].name
                  [] OTHER -> TRUE
  <2>1. /\ write[r].on \in Theme \cup Task
        /\ ThemeWriteFits(r) /\ TaskWriteFits(r)
    BY <1>1, WhatIsCommitted
  <2>2. CASE write[r].on \in Theme
    <3>1. themes'[write[r].on] = write[r].row
      BY <1>1, <2>2, CommitOfTheme DEF IInv, TablesType
    <3> QED
      BY <2>1, <2>2, <3>1 DEF ThemeWriteFits, ThemeOps
  <2>3. CASE write[r].on \in Task
    <3>1. tasks'[write[r].on] = write[r].row
      BY <1>1, <2>3, CommitOfTask DEF IInv, TablesType
    <3> QED
      BY <2>1, <2>3, <3>1 DEF TaskWriteFits, TaskOps
  <2> QED
    BY <2>1, <2>2, <2>3
<1> DEFINE Kept ==
      \A r \in Request : Commit(r) =>
       LET k == req[r].task
           t == req[r].theme
       IN CASE req[r].op = "updateTask" -> tasks'[k].done = tasks[k].done
            [] req[r].op \in {"completeTask", "incompleteTask"} -> tasks'[k].theme = tasks[k].theme
            [] req[r].op = "updateTheme" /\ "name" \notin req[r].body.sent
                 -> themes'[t].name = themes[t].name
            [] OTHER -> TRUE
<1>2. IInv => Kept
  BY <1>1
<1>3. IInv /\ [Next]_vars => [Kept]_vars
  BY <1>2
<1> HIDE DEF Kept
<1>4. Spec => [][Kept]_vars
  BY <1>3, Invariant, PTL DEF Spec
<1> QED
  BY <1>4 DEF Kept, OthersWorkIsKept

\* Whatever the interleaving, readers of committed rows see whole requests of one user.
THEOREM StatementsImplementCatalog == Spec => ImplementsCatalog
<1>1. Init => Book!CatalogInit
  BY DEF Init, Book!CatalogInit
<1>2. ASSUME IInv, NEW r \in Request, Commit(r) PROVE Book!CatalogNext
  <2> DEFINE w == write[r]
             u == req[r].user
  <2>1. /\ w.on \in Theme \cup Task /\ ThemeWriteFits(r) /\ TaskWriteFits(r)
        /\ themes \in [Theme -> ThemeRow \cup {None}] /\ tasks \in [Task -> TaskRow \cup {None}]
        /\ pc[r] = "commit" /\ u \in User
    BY <1>2, WhatIsCommitted, CommitMoves
    DEF IInv, TablesType, RequestInv, StepFits
  <2>2. CASE w.on \in Theme /\ w.row # None
    <3>1. themes' = [themes EXCEPT ![w.on] = w.row] /\ tasks' = tasks
      BY <1>2, <2>1, <2>2, CommitOfTheme
    <3>2. Book!PutTheme(u, w.on)
      BY <2>1, <2>2, <3>1 DEF Book!PutTheme, Book!OwnThemes, ThemeWriteFits
    <3> QED
      BY <2>1, <2>2, <3>2 DEF Book!CatalogNext
  <2>3. CASE w.on \in Theme /\ w.row = None
    <3>1. /\ themes' = [themes EXCEPT ![w.on] = None]
          /\ tasks' = [k \in Task |-> IF tasks[k] # None /\ tasks[k].theme = w.on
                                      THEN [tasks[k] EXCEPT !.theme = None] ELSE tasks[k]]
      BY <1>2, <2>3, CommitOfTheme
    <3>2. Book!DropTheme(u, w.on)
      BY <2>1, <2>3, <3>1 DEF Book!DropTheme, Book!OwnThemes, ThemeWriteFits
    <3> QED
      BY <2>1, <2>3, <3>2 DEF Book!CatalogNext
  <2>4. CASE w.on \in Task /\ w.row # None
    <3>1. themes' = themes /\ tasks' = [tasks EXCEPT ![w.on] = w.row]
          /\ w.row \in TaskRow
      BY <1>2, <2>4, CommitOfTask, WhatIsCommitted
    <3>2. w.row.theme \in Book!OwnThemes(u) \cup {None} /\ w.row.owner = u
      BY <2>1, <2>4, <3>1 DEF Book!OwnThemes, TaskWriteFits, TaskRow
    <3>3. Book!PutTask(u, w.on)
      BY <2>1, <2>4, <3>1, <3>2 DEF Book!PutTask, Book!OwnTasks, TaskWriteFits
    <3> QED
      BY <2>1, <2>4, <3>3 DEF Book!CatalogNext
  <2>5. CASE w.on \in Task /\ w.row = None
    <3>1. themes' = themes /\ tasks' = [tasks EXCEPT ![w.on] = None]
      BY <1>2, <2>5, CommitOfTask
    <3>2. Book!DropTask(u, w.on)
      BY <2>1, <2>5, <3>1 DEF Book!DropTask, Book!OwnTasks, TaskWriteFits
    <3> QED
      BY <2>1, <2>5, <3>2 DEF Book!CatalogNext
  <2> QED
    BY <2>1, <2>2, <2>3, <2>4, <2>5
<1>3. ASSUME IInv, [Next]_vars PROVE [Book!CatalogNext]_(Book!catalogVars)
  <2>1. ASSUME NEW r \in Request, Begin(r) \/ Statement(r) \/ Rollback(r), ~Commit(r)
        PROVE  UNCHANGED <<themes, tasks>>
    BY <2>1
    DEF Begin, Statement, Rollback, GetTheme, ByName, ByColor, Generate, Generates, InsertTheme,
        Reread, FlushTheme, DeleteTheme, FindTheme, InsertTask, GetTask, RereadTask, FlushTask,
        DeleteTask, ReadTasks, ReadNames
  <2> QED
    BY <1>2, <1>3, <2>1 DEF Next, vars, Book!catalogVars
<1> QED
  BY <1>1, <1>3, Invariant, PTL DEF Spec, ImplementsCatalog, Book!CatalogSpec

=============================================================================
