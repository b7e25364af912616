------------------------- MODULE HabitRequestsProofs -------------------------
(***************************************************************************)
(* Proofs about HabitRequests, for any number of requests, habits, users,  *)
(* any bodies of PUT and POST, and any last day MaxDay.                    *)
(***************************************************************************)
EXTENDS HabitRequests, TLAPS

-----------------------------------------------------------------------------
(* Rows.                                                                    *)

\* Archiving, overlaying columns and creating make rows of rows, and the first
\* two keep the owner.
LEMMA ArchivedRow ==
  ASSUME NEW row \in Row
  PROVE  Archived(row) \in Row /\ Archived(row).owner = row.owner
BY DEF Archived, Row

LEMMA OverlayRow ==
  ASSUME NEW row \in Row, NEW val \in Row, NEW cols
  PROVE  Overlay(row, cols, val) \in Row /\ Overlay(row, cols, val).owner = row.owner
BY ZenonT(40) DEF Overlay, Row

LEMMA CreatedRow ==
  ASSUME NEW row \in Row, NEW u \in User, NEW d \in Day
  PROVE  LET new == [row EXCEPT !.owner = u, !.created = d,
                                !.archived = ShouldBeArchived(row, d)]
         IN new \in Row /\ new.owner = u
BY DEF Row, ShouldBeArchived

\* Forgotten requests and empty transactions are well typed.
LEMMA Defaults ==
  /\ SomeRow \in Row /\ SomeRow.owner \in User
  /\ NoPatch \in Patch
  /\ NoReq \in ReqType /\ NoReq.clock = 1
  /\ NoWrites \in WritesType
<1>1. SomeRow \in NewRows
  BY RequestsAssumption DEF SomeRow
<1>2. SomeRow \in Row /\ SomeRow.owner \in User
  BY <1>1, RequestsAssumption DEF Row
<1>3. (CHOOSE h \in Habit : TRUE) \in Habit
  BY RequestsAssumption
<1>4. NoPatch \in Patch
  BY <1>2 DEF NoPatch, Patch
<1>5. 1 \in Day
  BY RequestsAssumption DEF Day
<1>6. NoReq \in ReqType /\ NoReq.clock = 1
  BY <1>2, <1>3, <1>4, <1>5 DEF NoReq, ReqType, Operations
<1>7. NoWrites \in WritesType
  BY <1>2 DEF NoWrites, WritesType, Columns
<1> QED
  BY <1>2, <1>4, <1>6, <1>7

-----------------------------------------------------------------------------
(* Type correctness of the operators that compute rows.                     *)

\* An owner-scoped SELECT returns a row of the user, or none.
LEMMA SelectedRow ==
  ASSUME TypeOK, NEW r \in Request, NEW h \in Habit
  PROVE  /\ SelectHabit(r, h) \in Row \cup {NoRow}
         /\ SelectHabit(r, h) # NoRow =>
              habits[h] # NoRow /\ habits[h].owner = req[r].user
<1>1. CASE habits[h] # NoRow /\ habits[h].owner = req[r].user
  <2>1. habits[h] \in Row
    BY <1>1 DEF TypeOK
  <2>2. Archived(habits[h]) \in Row
    BY <2>1, ArchivedRow
  <2> QED
    BY <1>1, <2>1, <2>2 DEF SelectHabit
<1>2. CASE ~(habits[h] # NoRow /\ habits[h].owner = req[r].user)
  BY <1>2 DEF SelectHabit
<1> QED
  BY <1>1, <1>2

\* Normalizing twice is normalizing for the second type.
LEMMA NormalizedType ==
  ASSUME NEW type \in ScheduleTypes, NEW cfg \in Configs
  PROVE  Normalized(type, cfg) \in Configs
<1>1. CASE cfg \in Sent
  BY <1>1 DEF Configs
<1>2. CASE cfg \notin Sent
  <2>1. PICK former \in ScheduleTypes, sent \in Sent : cfg = Normalized(former, sent)
    BY <1>2 DEF Configs
  <2>2. CASE Fields[type] \subseteq DOMAIN cfg
    <3>1. /\ cfg = [f \in Fields[former] |-> sent[f]]
          /\ Fields[former] \subseteq DOMAIN sent
      BY <1>2, <2>1 DEF Normalized
    <3>2. Fields[type] \subseteq Fields[former] /\ Fields[type] \subseteq DOMAIN sent
      BY <2>2, <3>1
    <3>3. [f \in Fields[type] |-> cfg[f]] = [f \in Fields[type] |-> sent[f]]
      BY <3>1, <3>2
    <3>4. Normalized(type, cfg) = Normalized(type, sent)
      BY <2>2, <3>2, <3>3 DEF Normalized
    <3> QED
      BY <3>4 DEF Configs
  <2>3. CASE ~(Fields[type] \subseteq DOMAIN cfg)
    BY <2>3 DEF Normalized
  <2> QED
    BY <2>2, <2>3
<1> QED
  BY <1>1, <1>2

\* The body of a PUT merged with a row is again the body of a PUT.
LEMMA MergedPatchType ==
  ASSUME NEW p \in Patch, NEW row \in Row
  PROVE  MergedPatch(p, row) \in Patch
<1> DEFINE sent == Overlay(row, p.cols, p.val)
           normal == [sent EXCEPT !.cfg = Normalized(sent.type, sent.cfg)]
           val == IF p.cols \cap {"type", "cfg"} = {} THEN sent ELSE normal
<1>1. p.val \in Row /\ p.cols \subseteq Columns
  BY DEF Patch
<1>2. val \in Row
  <2>1. sent \in Row
    BY <1>1, OverlayRow
  <2> HIDE DEF sent
  <2>2. Normalized(sent.type, sent.cfg) \in Configs
    BY <2>1, NormalizedType DEF Row
  <2>3. normal \in Row
    BY <2>1, <2>2 DEF Row
  <2> QED
    BY <2>1, <2>3
<1>3. Archived(val) \in Row
  BY <1>2, ArchivedRow
<1>4. MergedPatch(p, row).val \in Row
  BY <1>2, <1>3 DEF MergedPatch
<1>5. MergedPatch(p, row).cols \in SUBSET Columns
  BY <1>1 DEF MergedPatch, Columns
<1>6. MergedPatch(p, row) = [cols |-> MergedPatch(p, row).cols, val |-> MergedPatch(p, row).val]
  BY DEF MergedPatch
<1> QED
  BY <1>4, <1>5, <1>6 DEF Patch

\* What a commit leaves of a habit is a row or none, because what the request
\* has locked exists.
LEMMA CommittedType ==
  ASSUME TypeOK, NEW r \in Request, NEW h \in Habit,
         OneWriteAtMost(r), LockedRowsExist(r)
  PROVE  /\ CommittedRow(r, h) \in Row \cup {NoRow}
         /\ CommittedDates(r, h) \in SUBSET Day
<1> DEFINE w == writes[r]
           row == IF h \in w.arch THEN Archived(habits[h]) ELSE habits[h]
<1>1. /\ w \in WritesType /\ req[r] \in ReqType
      /\ habits[h] \in Row \cup {NoRow} /\ completions[h] \in SUBSET Day
  BY DEF TypeOK
<1>2. w.val \in Row /\ req[r].clock \in Day
  BY <1>1 DEF WritesType, ReqType
<1>3. h \in w.arch => habits[h] \in Row
  BY <1>1 DEF LockedRowsExist, RowLocks
<1>4. row \in Row \cup {NoRow}
  BY <1>1, <1>3, ArchivedRow
<1>5. h = req[r].habit /\ w.cols # {} => habits[h] \in Row
  BY <1>1 DEF LockedRowsExist, RowLocks
<1>6. h = req[r].habit /\ w.cols # {} => row \in Row
  BY <1>3, <1>5, ArchivedRow
<1>7. h = req[r].habit /\ w.cols # {} => Overlay(row, w.cols, w.val) \in Row
  BY <1>2, <1>6, OverlayRow
<1>8. CommittedRow(r, h) \in Row \cup {NoRow}
  BY <1>2, <1>4, <1>7 DEF CommittedRow
<1>9. CommittedDates(r, h) \in SUBSET Day
  BY <1>1, <1>2 DEF CommittedDates
<1> QED
  BY <1>8, <1>9

-----------------------------------------------------------------------------
(* Type correctness of a step.                                              *)

LEMMA ForgetType ==
  ASSUME TypeOK, NEW r \in Request, Forget(r)
  PROVE  /\ pc' \in [Request -> Steps]
         /\ req' \in [Request -> ReqType]
         /\ seen' \in [Request -> Row \cup {NoRow}]
         /\ picked' \in [Request -> SUBSET Habit]
         /\ writes' \in [Request -> WritesType]
BY Defaults DEF TypeOK, Forget, Steps

LEMMA AbortType ==
  ASSUME TypeOK, NEW r \in Request, Abort(r)
  PROVE  TypeOK'
BY ForgetType DEF TypeOK, Abort

\* Going on to another statement, with the other variables well typed.
LEMMA GotoType ==
  ASSUME TypeOK, NEW r \in Request, NEW step \in Steps, Goto(r, step),
         req' \in [Request -> ReqType],
         seen' \in [Request -> Row \cup {NoRow}],
         picked' \in [Request -> SUBSET Habit],
         writes' \in [Request -> WritesType]
  PROVE  TypeOK'
BY DEF TypeOK, Goto

LEMMA BeginType ==
  ASSUME TypeOK, NEW r \in Request, Begin(r)
  PROVE  TypeOK'
<1>1. PICK op \in Ops, u \in User, h \in Habit, p \in Patches \cup {NoPatch} :
        /\ req' = [req EXCEPT ![r] = [op |-> op, user |-> u, habit |-> h, patch |-> p,
                                      clock |-> today, changed |-> FALSE]]
        /\ Goto(r, IF op = "delete" THEN "delete" ELSE "archiveSelect")
  BY DEF Begin
<1>2. op \in Operations /\ p \in Patch
  BY RequestsAssumption, Defaults
<1>3. req' \in [Request -> ReqType]
  BY <1>1, <1>2 DEF TypeOK, ReqType
<1>4. UNCHANGED <<seen, picked, writes>>
  BY DEF Begin
<1>5. (IF op = "delete" THEN "delete" ELSE "archiveSelect") \in Steps
  BY DEF Steps
<1> QED
  BY <1>1, <1>3, <1>4, <1>5, GotoType DEF TypeOK

LEMMA AfterArchiveType ==
  ASSUME NEW r \in Request
  PROVE  AfterArchive(r) \in {"commit", "insertHabit", "getHabit"}
BY DEF AfterArchive

LEMMA ArchiveType ==
  ASSUME TypeOK, NEW r \in Request, ArchiveSelect(r) \/ ArchiveUpdate(r)
  PROVE  TypeOK'
<1>1. AfterArchive(r) \in Steps /\ "archiveUpdate" \in Steps
  BY AfterArchiveType DEF Steps
<1>2. CASE ArchiveSelect(r)
  <2>1. ExpiredHabits(r) \in SUBSET Habit
    BY DEF ExpiredHabits
  <2> QED
    BY <1>1, <1>2, <2>1, GotoType DEF ArchiveSelect, TypeOK
<1>3. CASE ArchiveUpdate(r)
  <2>1. picked[r] \in SUBSET Habit /\ writes[r] \in WritesType
    BY DEF TypeOK
  <2>2. writes' \in [Request -> WritesType]
    BY <1>3, <2>1 DEF ArchiveUpdate, TypeOK, WritesType
  <2>3. picked' \in [Request -> SUBSET Habit]
    BY <1>3 DEF ArchiveUpdate, TypeOK
  <2> QED
    BY <1>1, <1>3, <2>2, <2>3, GotoType DEF ArchiveUpdate, TypeOK
<1> QED
  BY <1>2, <1>3

LEMMA InsertHabitType ==
  ASSUME TypeOK, NEW r \in Request, InsertHabit(r)
  PROVE  TypeOK'
<1>1. PICK row \in NewRows :
        writes' = [writes EXCEPT ![r].new = TRUE, ![r].val =
          [row EXCEPT !.owner = req[r].user, !.created = today,
                      !.archived = ShouldBeArchived(row, today)]]
  BY DEF InsertHabit
<1>2. row \in Row /\ req[r] \in ReqType /\ today \in Day /\ writes[r] \in WritesType
  BY RequestsAssumption DEF TypeOK
<1>3. req[r].user \in User /\ req[r].habit \in Habit
  BY <1>2 DEF ReqType
<1>4. [row EXCEPT !.owner = req[r].user, !.created = today,
                  !.archived = ShouldBeArchived(row, today)] \in Row
  BY <1>2, <1>3, CreatedRow
<1>5. writes' \in [Request -> WritesType]
  BY ZenonT(40), <1>1, <1>2, <1>4 DEF TypeOK, WritesType
<1> QED
  BY <1>3, <1>5 DEF InsertHabit, TypeOK, Steps

LEMMA DeleteHabitType ==
  ASSUME TypeOK, NEW r \in Request, DeleteHabit(r)
  PROVE  TypeOK'
<1>1. CASE Abort(r)
  BY <1>1, AbortType
<1>2. CASE /\ writes' = [writes EXCEPT ![r].gone = TRUE]
           /\ Goto(r, "commit")
           /\ UNCHANGED <<req, seen, picked>>
  <2>1. writes' \in [Request -> WritesType] /\ "commit" \in Steps
    BY ZenonT(30), <1>2 DEF TypeOK, WritesType, Steps
  <2> QED
    BY <1>2, <2>1, GotoType DEF TypeOK
<1> QED
  BY <1>1, <1>2 DEF DeleteHabit

LEMMA UpdateType ==
  ASSUME TypeOK, NEW r \in Request, GetForUpdate(r) \/ Reread(r) \/ Flush(r)
  PROVE  TypeOK'
<1>1. /\ "commit" \in Steps /\ "reread" \in Steps /\ "flush" \in Steps
      /\ req[r] \in ReqType /\ writes[r] \in WritesType
  BY DEF Steps, TypeOK
<1>2. req[r].habit \in Habit /\ req[r].patch \in Patch
  BY <1>1 DEF ReqType
<1> DEFINE row == SelectHabit(r, req[r].habit)
           merged == MergedPatch(req[r].patch, row)
<1>3. row \in Row \cup {NoRow}
  BY <1>2, SelectedRow
<1>4. CASE GetForUpdate(r)
  <2>1. CASE row = NoRow \/ req[r].patch.cols = {}
    BY <1>1, <1>4, <2>1, GotoType DEF GetForUpdate, TypeOK
  <2>2. CASE ~(row = NoRow \/ req[r].patch.cols = {})
    <3>1. merged \in Patch
      BY <1>2, <1>3, <2>2, MergedPatchType
    <3>2. /\ req' = [req EXCEPT ![r].patch = merged]
          /\ Goto(r, IF PatchIsValid(merged) THEN "reread" ELSE "commit")
          /\ UNCHANGED <<seen, picked, writes>>
      BY <1>4, <2>2 DEF GetForUpdate
    <3>3. req' \in [Request -> ReqType]
      BY <1>1, <3>1, <3>2 DEF TypeOK, ReqType
    <3>4. (IF PatchIsValid(merged) THEN "reread" ELSE "commit") \in Steps
      BY <1>1
    <3> QED
      BY <3>2, <3>3, <3>4, GotoType DEF TypeOK
  <2> QED
    BY <2>1, <2>2
<1>5. CASE Reread(r)
  <2>1. /\ seen' = [seen EXCEPT ![r] = row]
        /\ Goto(r, IF row = NoRow THEN "commit" ELSE "flush")
        /\ UNCHANGED <<req, picked, writes>>
    BY <1>5 DEF Reread
  <2>2. seen' \in [Request -> Row \cup {NoRow}]
    BY <1>3, <2>1 DEF TypeOK
  <2>3. (IF row = NoRow THEN "commit" ELSE "flush") \in Steps
    BY <1>1
  <2> QED
    BY <2>1, <2>2, <2>3, GotoType DEF TypeOK
<1>6. CASE Flush(r)
  <2> DEFINE dirty == {c \in req[r].patch.cols : ColumnChanged(c, req[r].patch.val, seen[r])}
  <2>1. CASE Abort(r)
    BY <2>1, AbortType
  <2>2. CASE Goto(r, "commit") /\ UNCHANGED <<req, seen, picked, writes>>
    BY <1>1, <2>2, GotoType DEF TypeOK
  <2>3. CASE /\ writes' = [writes EXCEPT ![r].cols = dirty, ![r].val = req[r].patch.val]
             /\ Goto(r, "commit")
             /\ UNCHANGED <<req, seen, picked>>
    <3>1. dirty \in SUBSET Columns /\ req[r].patch.val \in Row
      BY <1>2 DEF Patch
    <3>2. writes' \in [Request -> WritesType]
      BY <1>1, <2>3, <3>1 DEF TypeOK, WritesType
    <3> QED
      BY <1>1, <2>3, <3>2, GotoType DEF TypeOK
  <2> QED
    BY <1>6, <2>1, <2>2, <2>3 DEF Flush
<1> QED
  BY <1>4, <1>5, <1>6

LEMMA CompletionType ==
  ASSUME TypeOK, NEW r \in Request,
         \/ GetForCompletion(r) \/ ListCompletions(r) \/ AddCheck(r) \/ Insert(r)
         \/ RemoveCheck(r) \/ Remove(r)
  PROVE  TypeOK'
<1>1. /\ {"commit", "listCompletions", "removeCheck", "addCheck", "insert", "remove"} \subseteq Steps
      /\ req[r] \in ReqType /\ writes[r] \in WritesType
  BY DEF Steps, TypeOK
<1>2. req[r].habit \in Habit
  BY <1>1 DEF ReqType
<1>3. CASE GetForCompletion(r)
  <2> DEFINE row == SelectHabit(r, req[r].habit)
             next == IF req[r].op = "complete" THEN "listCompletions" ELSE "removeCheck"
  <2>1. CASE Abort(r)
    BY <2>1, AbortType
  <2>2. CASE ~Abort(r)
    <3>1. /\ seen' = [seen EXCEPT ![r] = row]
          /\ Goto(r, next)
          /\ UNCHANGED <<req, picked, writes>>
      BY <1>3, <2>2 DEF GetForCompletion
    <3>2. seen' \in [Request -> Row \cup {NoRow}] /\ next \in Steps
      BY <1>1, <1>2, <3>1, SelectedRow DEF TypeOK
    <3> QED
      BY <3>1, <3>2, GotoType DEF TypeOK
  <2> QED
    BY <2>1, <2>2
<1>4. CASE ListCompletions(r)
  BY <1>1, <1>4, AbortType, GotoType DEF ListCompletions, TypeOK
<1>5. CASE AddCheck(r)
  BY <1>1, <1>5, GotoType DEF AddCheck, TypeOK
<1>6. CASE RemoveCheck(r)
  BY <1>1, <1>6, GotoType DEF RemoveCheck, TypeOK
<1>7. CASE Insert(r)
  <2>1. CASE Abort(r)
    BY <2>1, AbortType
  <2>2. CASE /\ writes' = [writes EXCEPT ![r].ins = TRUE]
             /\ req' = [req EXCEPT ![r].changed = TRUE]
             /\ Goto(r, "commit")
             /\ UNCHANGED <<seen, picked>>
    <3>1. writes' \in [Request -> WritesType] /\ req' \in [Request -> ReqType]
      BY <1>1, <2>2 DEF TypeOK, WritesType, ReqType
    <3> QED
      BY <1>1, <2>2, <3>1, GotoType DEF TypeOK
  <2> QED
    BY <1>7, <2>1, <2>2 DEF Insert
<1>8. CASE Remove(r)
  <2> DEFINE removed == req[r].clock \in completions[req[r].habit]
  <2>1. removed \in BOOLEAN
    OBVIOUS
  <2>2. writes' = [writes EXCEPT ![r].del = removed]
    BY <1>8 DEF Remove
  <2> HIDE DEF removed
  <2>3. writes' \in [Request -> WritesType]
    BY <1>1, <2>1, <2>2 DEF TypeOK, WritesType
  <2>4. req' \in [Request -> ReqType]
    BY <1>1, <1>8 DEF Remove, TypeOK, ReqType
  <2> QED
    BY <1>1, <1>8, <2>3, <2>4, GotoType DEF Remove, TypeOK
<1> QED
  BY <1>3, <1>4, <1>5, <1>6, <1>7, <1>8

\* Every step keeps the types.  Only a commit needs more than the types: that a
\* row is never archived or overlaid after it was deleted.
LEMMA StepType ==
  ASSUME IInv, NEW r \in Request, Step(r)
  PROVE  TypeOK'
<1> TypeOK /\ OneWriteAtMost(r) /\ LockedRowsExist(r)
  BY DEF IInv, RequestInv
<1>1. CASE Commit(r)
  <2>1. habits' \in [Habit -> Row \cup {NoRow}] /\ completions' \in [Habit -> SUBSET Day]
    BY <1>1, CommittedType DEF Commit
  <2> QED
    BY <1>1, <2>1, ForgetType DEF Commit, TypeOK
<1>2. CASE Rollback(r)
  BY <1>2, AbortType DEF Rollback
<1> QED
  BY <1>1, <1>2, BeginType, ArchiveType, InsertHabitType, DeleteHabitType, UpdateType,
     CompletionType DEF Step

-----------------------------------------------------------------------------
(* The inductive invariant: steps that commit nothing.                      *)

\* A step of one request that leaves the tables alone only has to keep what the
\* invariant says of that request, alone and against each other one.
LEMMA LocalStep ==
  ASSUME IInv, TypeOK', NEW r \in Request,
         UNCHANGED <<habits, completions, today>>, used \subseteq used',
         \A s \in Others(r) : pc'[s] = pc[s] /\ req'[s] = req[s] /\ writes'[s] = writes[s],
         RequestInv(r)',
         \A s \in Others(r) : PairInv(r, s)' /\ PairInv(s, r)'
  PROVE  IInv'
<1>1. NoFutureCompletion' /\ NoOrphanCompletion'
  BY DEF IInv, NoFutureCompletion, NoOrphanCompletion
<1>2. \A h \in Habit : habits'[h] # NoRow => h \in used'
  BY DEF IInv
<1>3. ASSUME NEW s \in Request PROVE RequestInv(s)'
  <2>1. CASE s = r
    BY <2>1
  <2>2. CASE s # r
    <3>1. RequestInv(s)
      BY DEF IInv
    <3>2. pc'[s] = pc[s] /\ req'[s] = req[s] /\ writes'[s] = writes[s]
      BY <2>2 DEF Others
    <3>3. OneWriteAtMost(s)' /\ LockedRowsExist(s)' /\ PendingDateFits(s)'
      BY <3>1, <3>2 DEF RequestInv, OneWriteAtMost, LockedRowsExist, PendingDateFits,
         RowLocks, CompletionLocks
    <3>4. NewIdIsFresh(s)' /\ TargetIsOwned(s)'
      BY <3>1, <3>2 DEF RequestInv, NewIdIsFresh, TargetIsOwned
    <3> QED
      BY <3>1, <3>2, <3>3, <3>4 DEF RequestInv
  <2> QED
    BY <2>1, <2>2
<1>4. ASSUME NEW q \in Request, NEW s \in Request, q # s PROVE PairInv(q, s)'
  <2>1. CASE q = r \/ s = r
    BY <1>4, <2>1 DEF Others
  <2>2. CASE q # r /\ s # r
    <3>1. PairInv(q, s)
      BY <1>4 DEF IInv
    <3>2. /\ pc'[q] = pc[q] /\ req'[q] = req[q] /\ writes'[q] = writes[q]
          /\ pc'[s] = pc[s] /\ req'[s] = req[s] /\ writes'[s] = writes[s]
      BY <2>2 DEF Others
    <3> QED
      BY <3>1, <3>2 DEF PairInv, LocksExclude, NewIdIsPrivate, RowLocks, CompletionLocks
  <2> QED
    BY <2>1, <2>2
<1> QED
  BY <1>1, <1>2, <1>3, <1>4 DEF IInv

\* A request that has nothing pending and is not about to write conflicts with
\* nobody.
LEMMA NothingPending ==
  ASSUME TypeOK', NEW r \in Request,
         req'[r].clock <= today',
         pc'[r] \notin Writing,
         /\ writes'[r].arch = {} /\ writes'[r].cols = {}
         /\ ~writes'[r].ins /\ ~writes'[r].del /\ ~writes'[r].gone /\ ~writes'[r].new
  PROVE  RequestInv(r)' /\ \A s \in Others(r) : PairInv(r, s)' /\ PairInv(s, r)'
<1>1. RowLocks(r)' = {} /\ CompletionLocks(r)' = {}
  BY DEF RowLocks, CompletionLocks
<1>2. OneWriteAtMost(r)' /\ LockedRowsExist(r)' /\ PendingDateFits(r)'
  BY <1>1 DEF OneWriteAtMost, LockedRowsExist, PendingDateFits
<1>3. NewIdIsFresh(r)' /\ TargetIsOwned(r)'
  BY DEF NewIdIsFresh, TargetIsOwned
<1>4. ASSUME NEW s \in Others(r) PROVE PairInv(r, s)' /\ PairInv(s, r)'
  BY <1>1 DEF PairInv, LocksExclude, NewIdIsPrivate
<1> QED
  BY <1>2, <1>3, <1>4 DEF RequestInv

LEMMA AbortInv ==
  ASSUME IInv, TypeOK', NEW r \in Request, Abort(r)
  PROVE  IInv'
<1>1. /\ pc'[r] = "idle" /\ req'[r] = NoReq /\ writes'[r] = NoWrites
      /\ \A s \in Others(r) : pc'[s] = pc[s] /\ req'[s] = req[s] /\ writes'[s] = writes[s]
  BY DEF IInv, TypeOK, Abort, Forget, Others
<1>2. req'[r].clock <= today'
  BY <1>1, Defaults DEF TypeOK, Day
<1>3. RequestInv(r)' /\ \A s \in Others(r) : PairInv(r, s)' /\ PairInv(s, r)'
  BY <1>1, <1>2, NothingPending DEF Writing, NoWrites
<1> QED
  BY <1>1, <1>3, LocalStep DEF Abort

\* What a step of r that goes on to another statement leaves alone.
LEMMA GotoFrame ==
  ASSUME TypeOK, NEW r \in Request, NEW step, Goto(r, step)
  PROVE  /\ pc'[r] = step
         /\ \A s \in Others(r) : pc'[s] = pc[s]
         /\ UNCHANGED <<habits, completions, used, today>>
BY DEF TypeOK, Goto, Others

LEMMA BeginInv ==
  ASSUME IInv, TypeOK', NEW r \in Request, Begin(r)
  PROVE  IInv'
<1>1. PICK op \in Ops, u \in User, h \in Habit, p \in Patches \cup {NoPatch} :
        /\ req' = [req EXCEPT ![r] = [op |-> op, user |-> u, habit |-> h, patch |-> p,
                                      clock |-> today, changed |-> FALSE]]
        /\ Goto(r, IF op = "delete" THEN "delete" ELSE "archiveSelect")
  BY DEF Begin
<1>2. /\ pc'[r] \in {"delete", "archiveSelect"}
      /\ \A s \in Others(r) : pc'[s] = pc[s]
      /\ UNCHANGED <<habits, completions, used, today, writes>>
  BY <1>1, GotoFrame DEF IInv, Begin
<1>3. req'[r].clock = today /\ \A s \in Others(r) : req'[s] = req[s]
  BY <1>1 DEF IInv, TypeOK, Others
<1>4. RequestInv(r) /\ pc[r] = "idle"
  BY DEF IInv, Begin
<1>5. today \in Nat
  BY DEF IInv, TypeOK, Day
<1>6. RequestInv(r)' /\ \A s \in Others(r) : PairInv(r, s)' /\ PairInv(s, r)'
  BY <1>2, <1>3, <1>4, <1>5, NothingPending DEF RequestInv, OneWriteAtMost, Writing
<1> QED
  BY <1>2, <1>3, <1>6, LocalStep

LEMMA ArchiveSelectInv ==
  ASSUME IInv, TypeOK', NEW r \in Request, ArchiveSelect(r)
  PROVE  IInv'
<1>1. /\ pc'[r] \in {"commit", "insertHabit", "getHabit", "archiveUpdate"}
      /\ \A s \in Others(r) : pc'[s] = pc[s]
      /\ UNCHANGED <<habits, completions, used, today, req, writes>>
  BY GotoFrame, AfterArchiveType DEF IInv, ArchiveSelect
<1>2. RequestInv(r) /\ pc[r] = "archiveSelect"
  BY DEF IInv, ArchiveSelect
<1>3. RequestInv(r)' /\ \A s \in Others(r) : PairInv(r, s)' /\ PairInv(s, r)'
  BY <1>1, <1>2, NothingPending DEF RequestInv, OneWriteAtMost, Writing
<1> QED
  BY <1>1, <1>3, LocalStep

LEMMA ArchiveUpdateInv ==
  ASSUME IInv, TypeOK', NEW r \in Request, ArchiveUpdate(r)
  PROVE  IInv'
<1>1. /\ pc'[r] \in {"commit", "insertHabit", "getHabit"}
      /\ \A s \in Others(r) : pc'[s] = pc[s]
      /\ UNCHANGED <<habits, completions, used, today, req>>
  BY GotoFrame, AfterArchiveType DEF IInv, ArchiveUpdate
<1> DEFINE locked == {h \in picked[r] : habits[h] # NoRow /\ habits[h].owner = req[r].user}
<1>2. /\ writes' = [writes EXCEPT ![r].arch = locked]
      /\ \A s \in Others(r) : RowLocks(s) \cap picked[r] = {}
  BY DEF ArchiveUpdate, CanUpdateRows
<1>3. writes[r] \in WritesType /\ RequestInv(r) /\ pc[r] = "archiveUpdate"
  BY DEF IInv, TypeOK, ArchiveUpdate
<1>4. /\ writes'[r].arch = locked /\ writes'[r].cols = {}
      /\ ~writes'[r].ins /\ ~writes'[r].del /\ ~writes'[r].gone /\ ~writes'[r].new
      /\ \A s \in Others(r) : writes'[s] = writes[s]
  BY <1>2, <1>3 DEF IInv, TypeOK, WritesType, RequestInv, OneWriteAtMost, Others
<1>5. RowLocks(r)' = locked /\ CompletionLocks(r)' = {}
  BY <1>4 DEF RowLocks, CompletionLocks
<1>6. OneWriteAtMost(r)' /\ LockedRowsExist(r)' /\ PendingDateFits(r)'
  BY <1>1, <1>4, <1>5 DEF OneWriteAtMost, LockedRowsExist, PendingDateFits
<1>7. NewIdIsFresh(r)' /\ TargetIsOwned(r)' /\ req'[r].clock <= today'
  BY <1>1, <1>3, <1>4 DEF NewIdIsFresh, TargetIsOwned, Writing, RequestInv
<1>8. ASSUME NEW s \in Others(r) PROVE PairInv(r, s)' /\ PairInv(s, r)'
  <2>1. RowLocks(s)' = RowLocks(s) /\ CompletionLocks(s)' = CompletionLocks(s)
    BY <1>1, <1>4 DEF RowLocks, CompletionLocks
  <2>2. LocksExclude(r, s)' /\ LocksExclude(s, r)'
    BY <1>2, <1>4, <1>5, <2>1 DEF LocksExclude
  <2>3. NewIdIsPrivate(r, s)' /\ NewIdIsPrivate(s, r)'
    BY <1>1, <1>4 DEF NewIdIsPrivate, Writing
  <2> QED
    BY <2>2, <2>3 DEF PairInv
<1> QED
  BY <1>1, <1>4, <1>6, <1>7, <1>8, LocalStep DEF RequestInv

\* Going on to a statement that writes nothing, with the same habit, user and
\* date and no new write.
LEMMA GotoInv ==
  ASSUME IInv, TypeOK', NEW r \in Request, NEW step \in Steps, Goto(r, step),
         writes' = writes,
         \A s \in Others(r) : req'[s] = req[s],
         req'[r].habit = req[r].habit, req'[r].user = req[r].user,
         req'[r].clock = req[r].clock,
         pc[r] \notin {"idle", "archiveSelect", "archiveUpdate", "delete", "commit"},
         step \notin {"idle", "archiveSelect", "archiveUpdate", "delete"},
         step \in Writing => habits[req[r].habit] # NoRow
                             /\ habits[req[r].habit].owner = req[r].user
  PROVE  IInv'
<1>1. /\ pc'[r] = step
      /\ \A s \in Others(r) : pc'[s] = pc[s]
      /\ UNCHANGED <<habits, completions, used, today>>
  BY DEF IInv, TypeOK, Goto, Others
<1>2. RequestInv(r)
  BY DEF IInv
<1>3. /\ writes[r].cols = {} /\ ~writes[r].ins /\ ~writes[r].del
      /\ ~writes[r].gone /\ ~writes[r].new
  BY <1>2 DEF RequestInv, OneWriteAtMost
<1>4. OneWriteAtMost(r)' /\ PendingDateFits(r)' /\ NewIdIsFresh(r)'
  BY <1>1, <1>3 DEF OneWriteAtMost, PendingDateFits, NewIdIsFresh
<1>5. LockedRowsExist(r)'
  BY <1>1, <1>2 DEF RequestInv, LockedRowsExist, RowLocks, CompletionLocks
<1>6. TargetIsOwned(r)'
  <2>1. req[r].habit \in Habit
    BY DEF IInv, TypeOK, ReqType
  <2> QED
    BY <1>1, <2>1 DEF TargetIsOwned, IInv
<1>7. ASSUME NEW s \in Others(r) PROVE PairInv(r, s)' /\ PairInv(s, r)'
  <2>1. PairInv(r, s) /\ PairInv(s, r)
    BY DEF IInv, Others
  <2>2. LocksExclude(r, s)' /\ LocksExclude(s, r)'
    BY <1>1, <2>1 DEF PairInv, LocksExclude, RowLocks, CompletionLocks
  <2>3. RequestInv(s)
    BY DEF IInv, Others
  <2>4. NewIdIsPrivate(r, s)' /\ NewIdIsPrivate(s, r)'
    BY <1>1, <1>3, <2>1, <2>3 DEF PairInv, NewIdIsPrivate, RequestInv, NewIdIsFresh
  <2> QED
    BY <2>2, <2>4 DEF PairInv
<1>8. req'[r].clock <= today'
  BY <1>1, <1>2 DEF RequestInv
<1> QED
  BY <1>1, <1>4, <1>5, <1>6, <1>7, <1>8, LocalStep DEF RequestInv

\* The statements that only read, or that fail.
LEMMA ReadInv ==
  ASSUME IInv, TypeOK', NEW r \in Request,
         \/ GetForUpdate(r) \/ Reread(r)
         \/ GetForCompletion(r) \/ ListCompletions(r) \/ AddCheck(r) \/ RemoveCheck(r)
  PROVE  IInv'
<1>1. /\ TypeOK /\ req[r].habit \in Habit
      /\ {"commit", "reread", "flush", "listCompletions", "removeCheck", "addCheck",
          "insert", "remove"} \subseteq Steps
  BY DEF IInv, TypeOK, ReqType, Steps
<1>2. SelectHabit(r, req[r].habit) # NoRow =>
        habits[req[r].habit] # NoRow /\ habits[req[r].habit].owner = req[r].user
  BY <1>1, SelectedRow
<1>3. CASE GetForUpdate(r)
  <2> DEFINE merged == MergedPatch(req[r].patch, SelectHabit(r, req[r].habit))
             next == IF PatchIsValid(merged) THEN "reread" ELSE "commit"
  <2>1. CASE Goto(r, "commit") /\ UNCHANGED <<req, writes>>
    BY <1>1, <1>3, <2>1, GotoInv DEF GetForUpdate, Writing
  <2>2. CASE /\ req' = [req EXCEPT ![r].patch = merged]
             /\ Goto(r, next) /\ writes' = writes
    <3>1. /\ \A s \in Others(r) : req'[s] = req[s]
          /\ req'[r].habit = req[r].habit /\ req'[r].user = req[r].user
          /\ req'[r].clock = req[r].clock
      BY <1>1, <2>2 DEF TypeOK, Others
    <3>2. next \in Steps /\ next \notin Writing
      BY <1>1 DEF Writing
    <3> HIDE DEF next
    <3>3. next \notin {"idle", "archiveSelect", "archiveUpdate", "delete"}
      BY DEF next
    <3> QED
      BY <1>3, <2>2, <3>1, <3>2, <3>3, GotoInv DEF GetForUpdate
  <2> QED
    BY <1>3, <2>1, <2>2 DEF GetForUpdate
<1>4. CASE Reread(r)
  BY <1>1, <1>2, <1>4, GotoInv DEF Reread, Writing
<1>5. CASE GetForCompletion(r)
  <2>1. CASE Abort(r)
    BY <2>1, AbortInv
  <2>2. CASE ~Abort(r)
    BY <1>1, <1>5, <2>2, GotoInv DEF GetForCompletion, Writing
  <2> QED
    BY <2>1, <2>2
<1>6. CASE ListCompletions(r)
  BY <1>1, <1>6, AbortInv, GotoInv DEF ListCompletions, Writing
<1>7. CASE AddCheck(r)
  BY <1>1, <1>2, <1>7, GotoInv DEF AddCheck, Writing
<1>8. CASE RemoveCheck(r)
  BY <1>1, <1>2, <1>8, GotoInv DEF RemoveCheck, Writing
<1> QED
  BY <1>3, <1>4, <1>5, <1>6, <1>7, <1>8

\* The id of a new row is not used yet, and whoever is creating or writing to a
\* row has an id that is.
LEMMA InsertHabitInv ==
  ASSUME IInv, TypeOK', NEW r \in Request, InsertHabit(r)
  PROVE  IInv'
<1>1. PICK row \in NewRows :
        writes' = [writes EXCEPT ![r].new = TRUE, ![r].val =
          [row EXCEPT !.owner = req[r].user, !.created = today,
                      !.archived = ShouldBeArchived(row, today)]]
  BY DEF InsertHabit
<1>2. /\ row \in Row /\ writes[r] \in WritesType /\ req[r] \in ReqType /\ today \in Day
      /\ RequestInv(r) /\ pc[r] = "insertHabit"
  BY RequestsAssumption DEF IInv, TypeOK, InsertHabit
<1>3. req[r].habit \in Habit /\ req[r].user \in User
  BY <1>2 DEF ReqType
<1>4. writes'[r].val.owner = req[r].user
  <2> DEFINE created == [row EXCEPT !.owner = req[r].user, !.created = today,
                                    !.archived = ShouldBeArchived(row, today)]
  <2>1. created.owner = req[r].user
    BY <1>2 DEF Row
  <2>2. writes' = [writes EXCEPT ![r].new = TRUE, ![r].val = created]
    BY <1>1
  <2> HIDE DEF created
  <2> QED
    BY <1>2, <2>1, <2>2 DEF IInv, TypeOK, WritesType
<1>5. /\ writes'[r].arch = writes[r].arch /\ writes'[r].cols = {}
      /\ ~writes'[r].ins /\ ~writes'[r].del /\ ~writes'[r].gone /\ writes'[r].new
      /\ \A s \in Others(r) : writes'[s] = writes[s]
  BY <1>1, <1>2 DEF IInv, TypeOK, WritesType, RequestInv, OneWriteAtMost, Others
<1>6. /\ pc'[r] = "commit" /\ \A s \in Others(r) : pc'[s] = pc[s]
      /\ UNCHANGED <<habits, completions, today, req>>
      /\ req[r].habit \notin used /\ used' = used \cup {req[r].habit}
  BY DEF InsertHabit, IInv, TypeOK, Others
<1>7. habits[req[r].habit] = NoRow
  BY <1>3, <1>6 DEF IInv
<1>8. /\ \A s \in Request : RowLocks(s)' = RowLocks(s) /\ CompletionLocks(s)' = CompletionLocks(s)
  BY <1>2, <1>5, <1>6 DEF RowLocks, CompletionLocks, RequestInv, OneWriteAtMost, Others
<1>9. OneWriteAtMost(r)' /\ LockedRowsExist(r)' /\ PendingDateFits(r)'
  BY <1>2, <1>5, <1>6, <1>8 DEF RequestInv, OneWriteAtMost, LockedRowsExist, PendingDateFits
<1>10. NewIdIsFresh(r)' /\ TargetIsOwned(r)' /\ req'[r].clock <= today'
  BY <1>2, <1>4, <1>6, <1>7 DEF NewIdIsFresh, TargetIsOwned, Writing, RequestInv
<1>11. ASSUME NEW s \in Others(r) PROVE PairInv(r, s)' /\ PairInv(s, r)'
  <2>1. PairInv(r, s) /\ PairInv(s, r) /\ RequestInv(s)
    BY DEF IInv, Others
  <2>2. LocksExclude(r, s)' /\ LocksExclude(s, r)'
    BY <1>5, <1>6, <1>8, <2>1 DEF PairInv, LocksExclude, Others
  <2>3. NewIdIsPrivate(r, s)' /\ NewIdIsPrivate(s, r)'
    BY <1>5, <1>6, <2>1 DEF NewIdIsPrivate, RequestInv, NewIdIsFresh, TargetIsOwned
  <2> QED
    BY <2>2, <2>3 DEF PairInv
<1> QED
  BY <1>5, <1>6, <1>9, <1>10, <1>11, LocalStep DEF RequestInv

LEMMA DeleteHabitInv ==
  ASSUME IInv, TypeOK', NEW r \in Request, DeleteHabit(r)
  PROVE  IInv'
<1> DEFINE h == req[r].habit
<1>1. CASE Abort(r)
  BY <1>1, AbortInv
<1>2. CASE ~Abort(r)
  <2>1. /\ SelectHabit(r, h) # NoRow
        /\ \A s \in Others(r) : h \notin RowLocks(s) /\ h \notin CompletionLocks(s)
        /\ writes' = [writes EXCEPT ![r].gone = TRUE]
        /\ Goto(r, "commit") /\ req' = req
    BY <1>2 DEF DeleteHabit, CanDeleteRow
  <2>2. /\ writes[r] \in WritesType /\ h \in Habit /\ TypeOK
        /\ RequestInv(r) /\ pc[r] = "delete"
    BY DEF IInv, TypeOK, ReqType, DeleteHabit
  <2>3. /\ writes'[r].arch = {} /\ writes'[r].cols = {}
        /\ ~writes'[r].ins /\ ~writes'[r].del /\ writes'[r].gone /\ ~writes'[r].new
        /\ \A s \in Others(r) : writes'[s] = writes[s]
    BY <2>1, <2>2 DEF TypeOK, WritesType, RequestInv, OneWriteAtMost, Others
  <2>4. /\ pc'[r] = "commit" /\ \A s \in Others(r) : pc'[s] = pc[s]
        /\ UNCHANGED <<habits, completions, used, today, req>>
    BY <2>1, <2>2, GotoFrame
  <2>5. RowLocks(r)' = {h} /\ CompletionLocks(r)' = {}
    BY <2>3, <2>4 DEF RowLocks, CompletionLocks
  <2>6. habits[h] # NoRow /\ habits[h].owner = req[r].user
    BY <2>1, <2>2, SelectedRow
  <2>7. OneWriteAtMost(r)' /\ LockedRowsExist(r)' /\ PendingDateFits(r)'
    BY <2>3, <2>4, <2>5, <2>6 DEF OneWriteAtMost, LockedRowsExist, PendingDateFits
  <2>8. NewIdIsFresh(r)' /\ TargetIsOwned(r)' /\ req'[r].clock <= today'
    BY <2>2, <2>3, <2>4 DEF NewIdIsFresh, TargetIsOwned, Writing, RequestInv
  <2>9. ASSUME NEW s \in Others(r) PROVE PairInv(r, s)' /\ PairInv(s, r)'
    <3>1. RowLocks(s)' = RowLocks(s) /\ CompletionLocks(s)' = CompletionLocks(s)
      BY <2>3, <2>4 DEF RowLocks, CompletionLocks
    <3>2. LocksExclude(r, s)' /\ LocksExclude(s, r)'
      BY <2>1, <2>3, <2>4, <2>5, <3>1 DEF LocksExclude
    <3>3. NewIdIsPrivate(r, s)' /\ NewIdIsPrivate(s, r)'
      BY <2>3, <2>4 DEF NewIdIsPrivate, Writing
    <3> QED
      BY <3>2, <3>3 DEF PairInv
  <2> QED
    BY <2>3, <2>4, <2>7, <2>8, <2>9, LocalStep DEF RequestInv
<1> QED
  BY <1>1, <1>2

\* The ORM's UPDATE of a row that exists, belongs to the user and is not locked.
LEMMA FlushInv ==
  ASSUME IInv, TypeOK', NEW r \in Request, Flush(r)
  PROVE  IInv'
<1> DEFINE h == req[r].habit
           p == req[r].patch
           dirty == {c \in p.cols : ColumnChanged(c, p.val, seen[r])}
<1>1. /\ TypeOK /\ writes[r] \in WritesType /\ h \in Habit
      /\ RequestInv(r) /\ pc[r] = "flush" /\ "commit" \in Steps
  BY DEF IInv, TypeOK, ReqType, Flush, Steps
<1>2. CASE Abort(r)
  BY <1>2, AbortInv
<1>3. CASE Goto(r, "commit") /\ UNCHANGED <<req, writes>>
  BY <1>1, <1>3, GotoInv DEF Writing
<1>4. CASE /\ dirty # {} /\ habits[h] # NoRow
           /\ CanUpdateRows(r, {h})
           /\ writes' = [writes EXCEPT ![r].cols = dirty, ![r].val = p.val]
           /\ Goto(r, "commit") /\ req' = req
  <2>1. /\ writes'[r].arch = writes[r].arch /\ writes'[r].cols # {}
        /\ ~writes'[r].ins /\ ~writes'[r].del /\ ~writes'[r].gone /\ ~writes'[r].new
        /\ \A s \in Others(r) : writes'[s] = writes[s]
    BY <1>1, <1>4 DEF TypeOK, WritesType, RequestInv, OneWriteAtMost, Others
  <2>2. /\ pc'[r] = "commit" /\ \A s \in Others(r) : pc'[s] = pc[s]
        /\ UNCHANGED <<habits, completions, used, today, req>>
    BY <1>1, <1>4, GotoFrame
  <2>3. /\ RowLocks(r)' = RowLocks(r) \cup {h} /\ CompletionLocks(r)' = {}
        /\ \A s \in Others(r) : h \notin RowLocks(s)
    BY <1>1, <1>4, <2>1, <2>2 DEF RowLocks, CompletionLocks, CanUpdateRows
  <2>4. habits[h].owner = req[r].user
    BY <1>1, <1>4 DEF RequestInv, TargetIsOwned, Writing
  <2>5. OneWriteAtMost(r)' /\ LockedRowsExist(r)' /\ PendingDateFits(r)'
    BY <1>1, <1>4, <2>1, <2>2, <2>3, <2>4
       DEF RequestInv, OneWriteAtMost, LockedRowsExist, PendingDateFits
  <2>6. NewIdIsFresh(r)' /\ TargetIsOwned(r)' /\ req'[r].clock <= today'
    BY <1>1, <2>1, <2>2 DEF NewIdIsFresh, TargetIsOwned, Writing, RequestInv
  <2>7. ASSUME NEW s \in Others(r) PROVE PairInv(r, s)' /\ PairInv(s, r)'
    <3>1. PairInv(r, s) /\ PairInv(s, r)
      BY DEF IInv, Others
    <3>2. RowLocks(s)' = RowLocks(s) /\ CompletionLocks(s)' = CompletionLocks(s)
      BY <2>1, <2>2 DEF RowLocks, CompletionLocks
    <3>3. LocksExclude(r, s)' /\ LocksExclude(s, r)'
      BY <2>1, <2>2, <2>3, <3>1, <3>2 DEF PairInv, LocksExclude
    <3>4. NewIdIsPrivate(r, s)' /\ NewIdIsPrivate(s, r)'
      BY <2>1, <2>2 DEF NewIdIsPrivate, Writing
    <3> QED
      BY <3>3, <3>4 DEF PairInv
  <2> QED
    BY <2>1, <2>2, <2>5, <2>6, <2>7, LocalStep DEF RequestInv
<1> QED
  BY <1>2, <1>3, <1>4 DEF Flush

\* A completion is added or removed under locks that keep everyone else from
\* adding or removing it, and from deleting its habit.
LEMMA TouchInv ==
  ASSUME IInv, TypeOK', NEW r \in Request,
         pc[r] \in {"insert", "remove"},
         CanTouchCompletion(r, req[r].habit, req[r].clock),
         habits[req[r].habit] # NoRow,
         Goto(r, "commit"),
         req' = [req EXCEPT ![r].changed = TRUE],
         \/ /\ writes' = [writes EXCEPT ![r].ins = TRUE]
            /\ req[r].clock \notin completions[req[r].habit]
         \/ /\ writes' = [writes EXCEPT ![r].del = TRUE]
            /\ req[r].clock \in completions[req[r].habit]
  PROVE  IInv'
<1> DEFINE h == req[r].habit
<1>1. TypeOK /\ writes[r] \in WritesType /\ req[r] \in ReqType /\ RequestInv(r)
  BY DEF IInv, TypeOK
<1>2. /\ req'[r].habit = h /\ req'[r].user = req[r].user /\ req'[r].clock = req[r].clock
      /\ \A s \in Others(r) : req'[s] = req[s]
  BY <1>1 DEF TypeOK, ReqType, Others
<1>3. /\ writes'[r].arch = writes[r].arch /\ writes'[r].cols = {}
      /\ ~writes'[r].gone /\ ~writes'[r].new
      /\ \A s \in Others(r) : writes'[s] = writes[s]
      /\ \/ writes'[r].ins /\ ~writes'[r].del /\ req[r].clock \notin completions[h]
         \/ ~writes'[r].ins /\ writes'[r].del /\ req[r].clock \in completions[h]
  <2>1. /\ writes[r].cols = {} /\ ~writes[r].gone /\ ~writes[r].new
        /\ ~writes[r].ins /\ ~writes[r].del
    BY <1>1 DEF RequestInv, OneWriteAtMost
  <2>2. CASE /\ writes' = [writes EXCEPT ![r].ins = TRUE]
             /\ req[r].clock \notin completions[h]
    BY <1>1, <2>1, <2>2 DEF TypeOK, WritesType, Others
  <2>3. CASE /\ writes' = [writes EXCEPT ![r].del = TRUE]
             /\ req[r].clock \in completions[h]
    BY <1>1, <2>1, <2>3 DEF TypeOK, WritesType, Others
  <2> QED
    BY <2>2, <2>3
<1>4. /\ pc'[r] = "commit" /\ \A s \in Others(r) : pc'[s] = pc[s]
      /\ UNCHANGED <<habits, completions, used, today>>
  BY <1>1, GotoFrame
<1>5. RowLocks(r)' = RowLocks(r) /\ CompletionLocks(r)' = {h}
  BY <1>1, <1>2, <1>3 DEF RowLocks, CompletionLocks, RequestInv, OneWriteAtMost
<1>6. habits[h].owner = req[r].user
  BY <1>1 DEF RequestInv, TargetIsOwned, Writing
<1>7. OneWriteAtMost(r)' /\ LockedRowsExist(r)' /\ PendingDateFits(r)'
  BY <1>1, <1>2, <1>3, <1>4, <1>5, <1>6
     DEF RequestInv, OneWriteAtMost, LockedRowsExist, PendingDateFits
<1>8. NewIdIsFresh(r)' /\ TargetIsOwned(r)' /\ req'[r].clock <= today'
  BY <1>1, <1>2, <1>3, <1>4 DEF NewIdIsFresh, TargetIsOwned, Writing, RequestInv
<1>9. ASSUME NEW s \in Others(r) PROVE PairInv(r, s)' /\ PairInv(s, r)'
  <2>1. /\ PairInv(r, s) /\ PairInv(s, r)
        /\ req[s].habit = h => ~writes[s].gone
        /\ req[s].habit = h /\ req[s].clock = req[r].clock => ~writes[s].ins /\ ~writes[s].del
    BY DEF IInv, Others, CanTouchCompletion
  <2>2. RowLocks(s)' = RowLocks(s) /\ CompletionLocks(s)' = CompletionLocks(s)
    BY <1>2, <1>3 DEF RowLocks, CompletionLocks
  <2>3. LocksExclude(r, s)' /\ LocksExclude(s, r)'
    BY <1>2, <1>3, <1>5, <2>1, <2>2 DEF PairInv, LocksExclude
  <2>4. NewIdIsPrivate(r, s)' /\ NewIdIsPrivate(s, r)'
    BY <1>3, <1>4 DEF NewIdIsPrivate, Writing
  <2> QED
    BY <2>3, <2>4 DEF PairInv
<1> QED
  BY <1>2, <1>3, <1>4, <1>7, <1>8, <1>9, LocalStep DEF RequestInv

LEMMA InsertInv ==
  ASSUME IInv, TypeOK', NEW r \in Request, Insert(r)
  PROVE  IInv'
BY AbortInv, TouchInv DEF Insert

\* A DELETE that finds no completion writes nothing; one that finds it has found
\* its habit too.
LEMMA RemoveInv ==
  ASSUME IInv, TypeOK', NEW r \in Request, Remove(r)
  PROVE  IInv'
<1> DEFINE removed == req[r].clock \in completions[req[r].habit]
<1>1. /\ pc[r] = "remove" /\ Goto(r, "commit")
      /\ CanTouchCompletion(r, req[r].habit, req[r].clock)
      /\ writes' = [writes EXCEPT ![r].del = removed]
      /\ req' = [req EXCEPT ![r].changed = TRUE]
  BY DEF Remove
<1>2. /\ TypeOK /\ writes[r] \in WritesType /\ req[r] \in ReqType /\ RequestInv(r)
      /\ req[r].habit \in Habit /\ "commit" \in Steps
  BY DEF IInv, TypeOK, ReqType, Steps
<1>3. CASE removed
  <2>1. habits[req[r].habit] # NoRow
    BY <1>2, <1>3 DEF IInv, NoOrphanCompletion
  <2>2. writes' = [writes EXCEPT ![r].del = TRUE]
    BY <1>1, <1>3
  <2> QED
    BY <1>1, <1>3, <2>1, <2>2, TouchInv
<1>4. CASE ~removed
  <2>5. removed = FALSE
    BY <1>4
  <2> HIDE DEF removed
  <2>1. writes' = [writes EXCEPT ![r].del = FALSE]
    BY <1>1, <2>5
  <2>2. writes[r].del = FALSE
    BY <1>1, <1>2 DEF WritesType, RequestInv, OneWriteAtMost
  <2>3. writes' = writes
    BY <1>2, <2>1, <2>2 DEF TypeOK, WritesType
  <2>4. /\ req'[r].habit = req[r].habit /\ req'[r].user = req[r].user
        /\ req'[r].clock = req[r].clock
        /\ \A s \in Others(r) : req'[s] = req[s]
    BY <1>1, <1>2 DEF TypeOK, ReqType, Others
  <2> QED
    BY <1>1, <1>2, <2>3, <2>4, GotoInv DEF Writing
<1> QED
  BY <1>3, <1>4

-----------------------------------------------------------------------------
(* The inductive invariant: commits and midnight.                           *)

\* What a commit makes of a row: it creates its own, deletes its own, and keeps
\* the existence and the owner of every other one.
LEMMA CommittedRowOwner ==
  ASSUME TypeOK, NEW r \in Request, RequestInv(r), NEW h \in Habit
  PROVE  /\ h = req[r].habit /\ writes[r].new =>
              CommittedRow(r, h) = writes[r].val
         /\ h = req[r].habit /\ writes[r].gone => CommittedRow(r, h) = NoRow
         /\ habits[h] = NoRow /\ ~(h = req[r].habit /\ writes[r].new) =>
              CommittedRow(r, h) = NoRow
         /\ habits[h] # NoRow /\ ~(h = req[r].habit /\ writes[r].gone) =>
              CommittedRow(r, h) # NoRow /\ CommittedRow(r, h).owner = habits[h].owner
<1> DEFINE w == writes[r]
           row == IF h \in w.arch THEN Archived(habits[h]) ELSE habits[h]
<1>1. w \in WritesType /\ w.val \in Row /\ NoRow \notin Row
  BY RequestsAssumption DEF TypeOK, WritesType
<1>2. /\ w.new => w.cols = {} /\ ~w.gone /\ habits[req[r].habit] = NoRow
      /\ w.gone => w.cols = {} /\ ~w.new
  BY DEF RequestInv, OneWriteAtMost, NewIdIsFresh
<1>3. h \in w.arch => habits[h] # NoRow
  BY DEF RequestInv, LockedRowsExist, RowLocks
<1>4. h = req[r].habit /\ w.cols # {} => habits[h] # NoRow
  BY DEF RequestInv, LockedRowsExist, RowLocks
<1>5. habits[h] # NoRow => row \in Row /\ row.owner = habits[h].owner
  BY ArchivedRow DEF TypeOK
<1>6. habits[h] # NoRow =>
        Overlay(row, w.cols, w.val) \in Row /\ Overlay(row, w.cols, w.val).owner = row.owner
  BY <1>1, <1>5, OverlayRow
<1>7. habits[h] = NoRow => row = NoRow
  BY <1>3
<1> HIDE DEF row
<1>8. CommittedRow(r, h) =
        CASE h = req[r].habit /\ w.new -> w.val
          [] h = req[r].habit /\ w.gone -> NoRow
          [] h = req[r].habit /\ ~w.new /\ ~w.gone /\ w.cols # {} -> Overlay(row, w.cols, w.val)
          [] OTHER -> row
  BY DEF CommittedRow, row
<1> QED
  BY <1>1, <1>2, <1>3, <1>4, <1>5, <1>6, <1>7, <1>8

\* What a commit makes of the dates of a habit.
LEMMA CommittedDatesOf ==
  ASSUME NEW r \in Request, RequestInv(r), NEW h \in Habit
  PROVE  /\ h # req[r].habit => CommittedDates(r, h) = completions[h]
         /\ h = req[r].habit /\ writes[r].gone => CommittedDates(r, h) = {}
         /\ h = req[r].habit /\ writes[r].ins =>
              CommittedDates(r, h) = completions[h] \cup {req[r].clock}
         /\ h = req[r].habit /\ writes[r].del =>
              CommittedDates(r, h) = completions[h] \ {req[r].clock}
         /\ ~writes[r].ins /\ ~writes[r].del /\ ~writes[r].gone =>
              CommittedDates(r, h) = completions[h]
BY DEF CommittedDates, RequestInv, OneWriteAtMost

LEMMA CommitInv ==
  ASSUME IInv, TypeOK', NEW r \in Request, Commit(r)
  PROVE  IInv'
<1> DEFINE w == writes[r]
           hr == req[r].habit
<1>1. /\ TypeOK /\ RequestInv(r) /\ hr \in Habit /\ today \in Nat
      /\ req[r].clock <= today
      /\ today' = today /\ used' = used
      /\ \A h \in Habit : habits'[h] = CommittedRow(r, h)
      /\ \A h \in Habit : completions'[h] = CommittedDates(r, h)
  BY DEF IInv, TypeOK, ReqType, Commit, RequestInv, Day
<1>2. /\ pc'[r] = "idle" /\ req'[r] = NoReq /\ writes'[r] = NoWrites
      /\ \A s \in Others(r) : pc'[s] = pc[s] /\ req'[s] = req[s] /\ writes'[s] = writes[s]
  BY DEF IInv, TypeOK, Commit, Forget, Others
<1>3. NoFutureCompletion'
  <2> SUFFICES ASSUME NEW h \in Habit, NEW d \in completions'[h] PROVE d <= today'
    BY DEF NoFutureCompletion
  <2>1. d \in completions[h] \/ d = req[r].clock
    BY ZenonT(40), <1>1, CommittedDatesOf DEF CommittedDates
  <2> QED
    BY <1>1, <2>1 DEF IInv, NoFutureCompletion
<1>4. NoOrphanCompletion'
  <2> SUFFICES ASSUME NEW h \in Habit, completions'[h] # {} PROVE habits'[h] # NoRow
    BY DEF NoOrphanCompletion
  <2>1. ~(h = hr /\ w.gone)
    BY <1>1, CommittedDatesOf
  <2>2. habits[h] # NoRow
    <3>1. CASE h = hr /\ (w.ins \/ w.del)
      BY <1>1, <3>1 DEF RequestInv, LockedRowsExist, CompletionLocks
    <3>2. CASE ~(h = hr /\ (w.ins \/ w.del))
      <4>1. completions'[h] = completions[h]
        BY <1>1, <2>1, <3>2, CommittedDatesOf
      <4> QED
        BY <4>1 DEF IInv, NoOrphanCompletion
    <3> QED
      BY <3>1, <3>2
  <2> QED
    BY <1>1, <2>1, <2>2, CommittedRowOwner
<1>5. \A h \in Habit : habits'[h] # NoRow => h \in used'
  <2> SUFFICES ASSUME NEW h \in Habit, habits'[h] # NoRow PROVE h \in used
    BY <1>1
  <2>1. habits[h] # NoRow \/ (h = hr /\ w.new)
    BY <1>1, CommittedRowOwner
  <2> QED
    BY <1>1, <2>1 DEF IInv, RequestInv, NewIdIsFresh
<1>6. ASSUME NEW s \in Request PROVE RequestInv(s)'
  <2>1. CASE s = r
    <3>1. req'[r].clock <= today'
      BY <1>1, <1>2, Defaults DEF TypeOK, Day
    <3> QED
      BY <1>2, <2>1, <3>1, NothingPending DEF NoWrites, Writing
  <2>2. CASE s # r
    <3> DEFINE hs == req[s].habit
    <3>1. /\ RequestInv(s) /\ PairInv(r, s) /\ PairInv(s, r) /\ hs \in Habit
          /\ writes[s] \in WritesType /\ req[s].clock \in Day
      BY <2>2 DEF IInv, TypeOK, ReqType
    <3>2. pc'[s] = pc[s] /\ req'[s] = req[s] /\ writes'[s] = writes[s]
      BY <1>2, <2>2 DEF Others
    <3>3. OneWriteAtMost(s)'
      BY <3>1, <3>2 DEF RequestInv, OneWriteAtMost
    <3>4. LockedRowsExist(s)'
      <4>1. RowLocks(s)' = RowLocks(s) /\ CompletionLocks(s)' = CompletionLocks(s)
        BY <3>2 DEF RowLocks, CompletionLocks
      <4> SUFFICES ASSUME NEW h \in RowLocks(s) \cup CompletionLocks(s)
                   PROVE  habits'[h] # NoRow /\ habits'[h].owner = req[s].user
        BY <3>2, <4>1 DEF LockedRowsExist
      <4>2. h \in Habit /\ habits[h] # NoRow /\ habits[h].owner = req[s].user
        BY <3>1 DEF RowLocks, CompletionLocks, WritesType, RequestInv, LockedRowsExist
      <4>3. ~(h = hr /\ w.gone)
        BY <3>1 DEF PairInv, LocksExclude, RowLocks
      <4> QED
        BY <1>1, <4>2, <4>3, CommittedRowOwner
    <3>5. PendingDateFits(s)'
      <4>1. writes[s].ins \/ writes[s].del => ~(hs = hr /\ w.gone)
        BY <3>1 DEF PairInv, LocksExclude, CompletionLocks
      <4>2. /\ writes[s].ins => req[s].clock \notin completions'[hs]
            /\ writes[s].del => req[s].clock \in completions'[hs]
        BY <1>1, <3>1, <4>1, CommittedDatesOf
           DEF PairInv, LocksExclude, RequestInv, PendingDateFits
      <4> QED
        BY <3>2, <4>2 DEF PendingDateFits
    <3>6. NewIdIsFresh(s)'
      BY <1>1, <3>1, <3>2, CommittedRowOwner
         DEF RequestInv, NewIdIsFresh, PairInv, NewIdIsPrivate
    <3>7. TargetIsOwned(s)'
      BY <1>1, <3>1, <3>2, CommittedRowOwner
         DEF RequestInv, TargetIsOwned, PairInv, NewIdIsPrivate
    <3>8. req'[s].clock <= today'
      BY <1>1, <3>1, <3>2 DEF RequestInv
    <3> QED
      BY <3>3, <3>4, <3>5, <3>6, <3>7, <3>8 DEF RequestInv
  <2> QED
    BY <2>1, <2>2
<1>7. ASSUME NEW q \in Request, NEW s \in Request, q # s PROVE PairInv(q, s)'
  <2>1. CASE q = r \/ s = r
    <3>1. req'[r].clock <= today'
      BY <1>1, <1>2, Defaults DEF TypeOK, Day
    <3> QED
      BY <1>2, <1>7, <2>1, <3>1, NothingPending DEF NoWrites, Writing, Others
  <2>2. CASE q # r /\ s # r
    <3>1. /\ pc'[q] = pc[q] /\ req'[q] = req[q] /\ writes'[q] = writes[q]
          /\ pc'[s] = pc[s] /\ req'[s] = req[s] /\ writes'[s] = writes[s]
          /\ PairInv(q, s)
      BY <1>2, <1>7, <2>2 DEF Others, IInv
    <3> QED
      BY <3>1 DEF PairInv, LocksExclude, NewIdIsPrivate, RowLocks, CompletionLocks
  <2> QED
    BY <2>1, <2>2
<1> QED
  BY <1>3, <1>4, <1>5, <1>6, <1>7 DEF IInv

LEMMA MidnightInv ==
  ASSUME IInv, Midnight
  PROVE  IInv'
<1>1. /\ UNCHANGED <<habits, completions, used, pc, req, seen, picked, writes>>
      /\ today < MaxDay /\ today' = today + 1 /\ today \in 1..MaxDay /\ MaxDay \in Nat
  BY RequestsAssumption DEF Midnight, IInv, TypeOK, Day
<1>2. TypeOK'
  BY <1>1 DEF IInv, TypeOK, Day
<1>3. NoFutureCompletion' /\ NoOrphanCompletion'
  BY <1>1 DEF IInv, TypeOK, Day, NoFutureCompletion, NoOrphanCompletion
<1>4. ASSUME NEW s \in Request PROVE RequestInv(s)'
  <2>1. RequestInv(s) /\ req[s].clock \in 1..MaxDay
    BY DEF IInv, TypeOK, ReqType, Day
  <2>2. req'[s].clock <= today'
    BY <1>1, <2>1 DEF RequestInv
  <2> QED
    BY <1>1, <2>1, <2>2 DEF RequestInv, OneWriteAtMost, LockedRowsExist, PendingDateFits,
       NewIdIsFresh, TargetIsOwned, RowLocks, CompletionLocks
<1>5. ASSUME NEW q \in Request, NEW s \in Request, q # s PROVE PairInv(q, s)'
  BY <1>1, <1>5 DEF IInv, PairInv, LocksExclude, NewIdIsPrivate, RowLocks, CompletionLocks
<1> QED
  BY <1>1, <1>2, <1>3, <1>4, <1>5 DEF IInv

-----------------------------------------------------------------------------
(* The theorems.                                                            *)

LEMMA InitInv == Init => IInv
<1> SUFFICES ASSUME Init PROVE IInv
  OBVIOUS
<1>1. TypeOK
  BY Defaults, RequestsAssumption DEF Init, TypeOK, Steps, Day
<1>2. NoFutureCompletion /\ NoOrphanCompletion
  BY DEF Init, NoFutureCompletion, NoOrphanCompletion
<1>3. \A h \in Habit : habits[h] # NoRow => h \in used
  BY DEF Init
<1>4. ASSUME NEW r \in Request PROVE RequestInv(r)
  BY Defaults DEF Init, RequestInv, OneWriteAtMost, LockedRowsExist, PendingDateFits,
     NewIdIsFresh, TargetIsOwned, RowLocks, CompletionLocks, NoWrites, Writing
<1>5. ASSUME NEW r \in Request, NEW s \in Request, r # s PROVE PairInv(r, s)
  BY DEF Init, PairInv, LocksExclude, NewIdIsPrivate, RowLocks, CompletionLocks, NoWrites
<1> QED
  BY <1>1, <1>2, <1>3, <1>4, <1>5 DEF IInv

LEMMA NextInv == IInv /\ [Next]_vars => IInv'
<1> SUFFICES ASSUME IInv, [Next]_vars PROVE IInv'
  OBVIOUS
<1>1. CASE Midnight
  BY <1>1, MidnightInv
<1>2. ASSUME NEW r \in Request, Step(r) PROVE IInv'
  <2>1. TypeOK'
    BY <1>2, StepType
  <2>2. CASE Begin(r)
    BY <2>1, <2>2, BeginInv
  <2>3. CASE ArchiveSelect(r)
    BY <2>1, <2>3, ArchiveSelectInv
  <2>4. CASE ArchiveUpdate(r)
    BY <2>1, <2>4, ArchiveUpdateInv
  <2>5. CASE InsertHabit(r)
    BY <2>1, <2>5, InsertHabitInv
  <2>6. CASE DeleteHabit(r)
    BY <2>1, <2>6, DeleteHabitInv
  <2>7. CASE Flush(r)
    BY <2>1, <2>7, FlushInv
  <2>8. CASE Insert(r)
    BY <2>1, <2>8, InsertInv
  <2>9. CASE Remove(r)
    BY <2>1, <2>9, RemoveInv
  <2>10. CASE Commit(r)
    BY <2>1, <2>10, CommitInv
  <2>11. CASE Rollback(r)
    BY <2>1, <2>11, AbortInv DEF Rollback
  <2> QED
    BY <1>2, <2>1, <2>2, <2>3, <2>4, <2>5, <2>6, <2>7, <2>8, <2>9, <2>10, <2>11, ReadInv
       DEF Step
<1>3. CASE UNCHANGED vars
  <2>1. TypeOK' /\ NoFutureCompletion' /\ NoOrphanCompletion'
    BY <1>3 DEF vars, IInv, TypeOK, NoFutureCompletion, NoOrphanCompletion
  <2>2. ASSUME NEW r \in Request PROVE RequestInv(r)'
    <3>1. RequestInv(r)
      BY DEF IInv
    <3> QED
      BY <1>3, <3>1 DEF vars, RequestInv, OneWriteAtMost, LockedRowsExist, PendingDateFits,
         NewIdIsFresh, TargetIsOwned, RowLocks, CompletionLocks
  <2>3. ASSUME NEW r \in Request, NEW s \in Request, r # s PROVE PairInv(r, s)'
    <3>1. PairInv(r, s)
      BY <2>3 DEF IInv
    <3> QED
      BY <1>3, <3>1 DEF vars, PairInv, LocksExclude, NewIdIsPrivate, RowLocks, CompletionLocks
  <2> QED
    BY <1>3, <2>1, <2>2, <2>3 DEF vars, IInv
<1> QED
  BY <1>1, <1>2, <1>3 DEF Next

\* The inductive invariant holds: what transactions in flight have written is
\* kept apart by row locks and constraints, statement by statement
\* (repositories/habits.py, repositories/owned_base.py).
THEOREM Invariant == Spec => []IInv
<1> QED
  BY InitInv, NextInv, PTL DEF Spec

\* Every row and every request keeps its type.
THEOREM TypeCorrect == Spec => []TypeOK
<1>1. IInv => TypeOK
  BY DEF IInv
<1> QED
  BY <1>1, Invariant, PTL

\* No completion lies in the future, however many midnights pass inside a
\* request (services/habits.py, complete_habit).
THEOREM CompletionsAreNotInFuture == Spec => []NoFutureCompletion
<1>1. IInv => NoFutureCompletion
  BY DEF IInv
<1> QED
  BY <1>1, Invariant, PTL

\* No completion outlives its habit, whatever DELETE and PATCH complete interleave
\* (database/models/habits.py, the foreign key with its cascade).
THEOREM CompletionsHaveHabits == Spec => []NoOrphanCompletion
<1>1. IInv => NoOrphanCompletion
  BY DEF IInv
<1> QED
  BY <1>1, Invariant, PTL

-----------------------------------------------------------------------------
(* The requests implement the book of habits.                               *)

\* A commit that neither creates nor deletes h changes h only if it has locked
\* it, and so only if it is a row of the user.
LEMMA CommitEditsOwnRows ==
  ASSUME IInv, NEW r \in Request, NEW h \in Habit,
         ~(h = req[r].habit /\ (writes[r].new \/ writes[r].gone)),
         CommittedRow(r, h) # habits[h]
  PROVE  /\ habits[h] # NoRow /\ habits[h].owner = req[r].user
         /\ CommittedRow(r, h) # NoRow /\ CommittedRow(r, h).owner = req[r].user
<1>1. TypeOK /\ RequestInv(r)
  BY DEF IInv
<1>2. h \in RowLocks(r)
  BY DEF CommittedRow, RowLocks
<1>3. habits[h] # NoRow /\ habits[h].owner = req[r].user
  BY <1>1, <1>2 DEF RequestInv, LockedRowsExist
<1> QED
  BY <1>1, <1>3, CommittedRowOwner

LEMMA CommitRefines ==
  ASSUME IInv, NEW r \in Request, Commit(r)
  PROVE  Book!BookNext
<1> DEFINE w == writes[r]
           hr == req[r].habit
           u == req[r].user
<1>1. /\ TypeOK /\ RequestInv(r) /\ hr \in Habit /\ u \in User
      /\ w \in WritesType /\ w.val \in Row /\ NoRow \notin Row
      /\ req[r].clock \in 1..today
  BY RequestsAssumption DEF IInv, TypeOK, ReqType, WritesType, RequestInv, Day
<1>2. /\ habits' = [h \in Habit |-> CommittedRow(r, h)]
      /\ completions' = [h \in Habit |-> CommittedDates(r, h)]
      /\ today' = today
      /\ habits = [h \in Habit |-> habits[h]]
      /\ completions = [h \in Habit |-> completions[h]]
  BY <1>1 DEF Commit, TypeOK
<1>3. ASSUME ~w.ins, ~w.del, ~w.gone PROVE completions' = completions
  <2>1. \A h \in Habit : CommittedDates(r, h) = completions[h]
    BY <1>1, <1>3, CommittedDatesOf
  <2> QED
    BY <1>2, <2>1
<1>4. CASE w.new
  <2>1. Book!EditsOwnRows(u, Habit \ {hr})
    BY <1>2, CommitEditsOwnRows DEF Book!EditsOwnRows, Book!Owned
  <2>2. habits[hr] = NoRow /\ habits'[hr] = w.val /\ w.val.owner = u
    BY <1>1, <1>2, <1>4, CommittedRowOwner DEF RequestInv, NewIdIsFresh
  <2>3. completions[hr] = {}
    BY <1>1, <2>2 DEF IInv, NoOrphanCompletion
  <2>4. ~w.ins /\ ~w.del /\ ~w.gone
    BY <1>1, <1>4 DEF RequestInv, OneWriteAtMost
  <2>5. completions' = completions
    BY <1>3, <2>4
  <2>6. Book!CreateHabit(u, hr)
    BY <1>1, <1>2, <2>1, <2>2, <2>3, <2>5 DEF Book!CreateHabit
  <2> QED
    BY <1>1, <2>6 DEF Book!BookNext
<1>5. CASE w.gone
  <2>1. w.arch = {} /\ w.cols = {} /\ ~w.new
    BY <1>1, <1>5 DEF RequestInv, OneWriteAtMost
  <2>2. \A h \in Habit : CommittedRow(r, h) = IF h = hr THEN NoRow ELSE habits[h]
    BY <1>5, <2>1 DEF CommittedRow
  <2>3. \A h \in Habit : CommittedDates(r, h) = IF h = hr THEN {} ELSE completions[h]
    BY <1>1, <1>5, CommittedDatesOf
  <2>4. /\ habits' = [habits EXCEPT ![hr] = NoRow]
        /\ completions' = [completions EXCEPT ![hr] = {}]
    BY <1>1, <1>2, <2>2, <2>3 DEF TypeOK
  <2>5. hr \in Book!Owned(u)
    BY <1>1, <1>5 DEF RequestInv, LockedRowsExist, RowLocks, Book!Owned
  <2>6. Book!DeleteHabit(u, hr)
    BY <1>2, <2>4, <2>5 DEF Book!DeleteHabit
  <2> QED
    BY <1>1, <2>6 DEF Book!BookNext
<1>6. CASE ~w.new /\ ~w.gone
  <2>1. Book!EditsOwnRows(u, Habit)
    BY <1>2, <1>6, CommitEditsOwnRows DEF Book!EditsOwnRows, Book!Owned
  <2>2. CASE ~w.ins /\ ~w.del
    BY <1>1, <1>2, <1>3, <1>6, <2>1, <2>2 DEF Book!WorkOnHabits, Book!BookNext
  <2>3. ASSUME w.ins \/ w.del PROVE hr \in Book!Owned(u)
    BY <1>1, <2>3 DEF RequestInv, LockedRowsExist, CompletionLocks, Book!Owned
  <2>4. CASE w.ins
    <3>1. \A h \in Habit : CommittedDates(r, h) =
             IF h = hr THEN completions[h] \cup {req[r].clock} ELSE completions[h]
      BY <1>1, <2>4, CommittedDatesOf
    <3>2. completions' = [completions EXCEPT ![hr] = @ \cup {req[r].clock}]
      BY <1>1, <1>2, <3>1 DEF TypeOK
    <3>3. req[r].clock \notin completions[hr]
      BY <1>1, <2>4 DEF RequestInv, PendingDateFits
    <3>4. Book!WorkOnHabits(u)
      BY <1>1, <1>2, <2>1, <2>3, <2>4, <3>2, <3>3 DEF Book!WorkOnHabits
    <3> QED
      BY <1>1, <3>4 DEF Book!BookNext
  <2>5. CASE w.del
    <3>1. \A h \in Habit : CommittedDates(r, h) =
             IF h = hr THEN completions[h] \ {req[r].clock} ELSE completions[h]
      BY <1>1, <2>5, CommittedDatesOf
    <3>2. completions' = [completions EXCEPT ![hr] = @ \ {req[r].clock}]
      BY <1>1, <1>2, <3>1 DEF TypeOK
    <3>3. req[r].clock \in completions[hr]
      BY <1>1, <2>5 DEF RequestInv, PendingDateFits
    <3>4. Book!WorkOnHabits(u)
      BY <1>1, <1>2, <2>1, <2>3, <2>5, <3>2, <3>3 DEF Book!WorkOnHabits
    <3> QED
      BY <1>1, <3>4 DEF Book!BookNext
  <2> QED
    BY <2>2, <2>4, <2>5
<1> QED
  BY <1>4, <1>5, <1>6

\* Every behaviour of the concurrent requests is one of the book, in which each
\* request is one step of its user: other users' habits never change, a habit
\* starts without completions and takes them along when it goes (get_db in
\* database/connection.py, the owner filters of repositories/owned_base.py).
THEOREM RequestsImplementBook == Spec => ImplementsBook
<1>1. Init => Book!BookInit
  BY DEF Init, Book!BookInit
<1>2. ASSUME IInv, [Next]_vars PROVE [Book!BookNext]_Book!bookVars
  <2>1. CASE Midnight
    BY <2>1 DEF Midnight, Book!Midnight, Book!BookNext
  <2>2. ASSUME NEW r \in Request, Commit(r) PROVE Book!BookNext
    BY <1>2, <2>2, CommitRefines
  <2>3. ASSUME NEW r \in Request, Step(r), ~Commit(r)
        PROVE  UNCHANGED <<habits, completions, today>>
    <3>1. CASE Begin(r) \/ ArchiveSelect(r) \/ ArchiveUpdate(r)
      BY <3>1 DEF Begin, ArchiveSelect, ArchiveUpdate, Goto
    <3>2. CASE InsertHabit(r) \/ DeleteHabit(r) \/ Rollback(r)
      BY <3>2 DEF InsertHabit, DeleteHabit, Rollback, Goto, Abort
    <3>3. CASE GetForUpdate(r) \/ Reread(r) \/ Flush(r)
      BY <3>3 DEF GetForUpdate, Reread, Flush, Goto, Abort
    <3>4. CASE GetForCompletion(r) \/ ListCompletions(r) \/ AddCheck(r) \/ Insert(r)
      BY <3>4 DEF GetForCompletion, ListCompletions, AddCheck, Insert, Goto, Abort
    <3>5. CASE RemoveCheck(r) \/ Remove(r)
      BY <3>5 DEF RemoveCheck, Remove, Goto
    <3> QED
      BY <2>3, <3>1, <3>2, <3>3, <3>4, <3>5 DEF Step
  <2>4. CASE UNCHANGED vars
    BY <2>4 DEF vars, Book!bookVars
  <2> QED
    BY <1>2, <2>1, <2>2, <2>3, <2>4 DEF Next, Book!bookVars
<1> QED
  BY <1>1, <1>2, Invariant, PTL DEF Spec, ImplementsBook, Book!BookSpec

\* Whatever a commit changes, it changes at a habit of the requesting user.
LEMMA CommitStaysWithUser ==
  ASSUME IInv, NEW r \in Request, Commit(r), NEW h \in Habit,
         habits'[h] # habits[h] \/ completions'[h] # completions[h]
  PROVE  {row.owner : row \in {habits[h], habits'[h]} \ {NoRow}} = {req[r].user}
<1> DEFINE w == writes[r]
           hr == req[r].habit
           u == req[r].user
<1>1. /\ TypeOK /\ RequestInv(r) /\ hr \in Habit
      /\ w \in WritesType /\ w.val \in Row /\ NoRow \notin Row
  BY RequestsAssumption DEF IInv, TypeOK, ReqType, WritesType
<1>2. habits'[h] = CommittedRow(r, h) /\ completions'[h] = CommittedDates(r, h)
  BY DEF Commit
<1>3. SUFFICES /\ habits[h] # NoRow => habits[h].owner = u
               /\ habits'[h] # NoRow => habits'[h].owner = u
               /\ habits[h] # NoRow \/ habits'[h] # NoRow
  OBVIOUS
<1>4. CASE h = hr /\ w.new
  BY <1>1, <1>2, <1>4, CommittedRowOwner DEF RequestInv, NewIdIsFresh
<1>5. CASE h = hr /\ w.gone
  <2>1. habits[h] # NoRow /\ habits[h].owner = u
    BY <1>1, <1>5 DEF RequestInv, LockedRowsExist, RowLocks
  <2>2. ~w.new
    BY <1>1, <1>5 DEF RequestInv, OneWriteAtMost
  <2> QED
    BY <1>1, <1>2, <1>5, <2>1, <2>2, CommittedRowOwner
<1>6. CASE ~(h = hr /\ (w.new \/ w.gone))
  <2>1. CASE CommittedRow(r, h) # habits[h]
    BY <1>2, <1>6, <2>1, CommitEditsOwnRows
  <2>2. CASE CommittedRow(r, h) = habits[h]
    <3>1. h = hr /\ (w.ins \/ w.del)
      BY <1>1, <1>2, <1>6, <2>2, CommittedDatesOf
    <3>2. h \in CompletionLocks(r)
      BY <3>1 DEF CompletionLocks
    <3>3. habits[h] # NoRow /\ habits[h].owner = u
      BY <1>1, <3>2 DEF RequestInv, LockedRowsExist
    <3> QED
      BY <1>2, <2>2, <3>3
  <2> QED
    BY <2>1, <2>2
<1> QED
  BY <1>4, <1>5, <1>6

\* No request changes the habits or completions of another user, although most of the
\* statements that write name no owner (repositories/owned_base.py and habits.py).
THEOREM RequestsKeepToOwnHabits == Spec => OwnHabitsOnly
<1> DEFINE Own ==
      \A r \in Request : Commit(r) =>
        \A h \in Habit :
          habits'[h] # habits[h] \/ completions'[h] # completions[h] =>
            {row.owner : row \in {habits[h], habits'[h]} \ {NoRow}} = {req[r].user}
<1>1. ASSUME IInv PROVE Own
  BY <1>1, CommitStaysWithUser
<1> QED
  BY <1>1, Invariant, PTL DEF OwnHabitsOnly

-----------------------------------------------------------------------------
(* What changed = true means.                                               *)

LEMMA AnswerStep ==
  ASSUME IInv, AnswerInv, NEW r \in Request, Step(r)
  PROVE  AnswerInv'
<1>1. /\ TypeOK /\ req[r] \in ReqType /\ writes[r] \in WritesType
      /\ OneWriteAtMost(r)
      /\ pc[r] \in {"removeCheck", "remove"} => req[r].op = "incomplete"
      /\ req[r].op = "complete" /\ req[r].changed => writes[r].ins
  BY DEF IInv, TypeOK, AnswerInv, RequestInv
<1> SUFFICES /\ pc'[r] \in {"removeCheck", "remove"} => req'[r].op = "incomplete"
             /\ req'[r].op = "complete" /\ req'[r].changed => writes'[r].ins
             /\ \A s \in Others(r) : pc'[s] = pc[s] /\ req'[s] = req[s] /\ writes'[s] = writes[s]
  BY DEF AnswerInv, Others
<1>2. ASSUME Forget(r)
      PROVE  /\ pc'[r] = "idle" /\ req'[r].changed = FALSE
             /\ \A s \in Others(r) : pc'[s] = pc[s] /\ req'[s] = req[s] /\ writes'[s] = writes[s]
  BY <1>1, <1>2 DEF Forget, TypeOK, NoReq, Others
<1>3. CASE Abort(r) \/ Rollback(r) \/ Commit(r)
  BY <1>2, <1>3 DEF Abort, Rollback, Commit
<1>4. CASE Begin(r)
  <2>1. PICK op \in Ops, u \in User, h \in Habit, p \in Patches \cup {NoPatch} :
          /\ req' = [req EXCEPT ![r] = [op |-> op, user |-> u, habit |-> h, patch |-> p,
                                        clock |-> today, changed |-> FALSE]]
          /\ Goto(r, IF op = "delete" THEN "delete" ELSE "archiveSelect")
    BY <1>4 DEF Begin
  <2>2. pc'[r] \in {"delete", "archiveSelect"} /\ \A s \in Others(r) : pc'[s] = pc[s]
    BY <1>1, <2>1, GotoFrame
  <2>3. req'[r].changed = FALSE /\ \A s \in Others(r) : req'[s] = req[s]
    BY <1>1, <2>1 DEF TypeOK, Others
  <2> QED
    BY <1>4, <2>2, <2>3 DEF Begin
<1>5. CASE ArchiveSelect(r)
  BY <1>1, <1>5, GotoFrame, AfterArchiveType DEF ArchiveSelect
<1>6. CASE ArchiveUpdate(r)
  BY <1>1, <1>6, GotoFrame, AfterArchiveType DEF ArchiveUpdate, TypeOK, WritesType, Others
<1>7. CASE InsertHabit(r)
  BY <1>1, <1>7 DEF InsertHabit, TypeOK, WritesType, Others
<1>8. CASE DeleteHabit(r) /\ ~Abort(r)
  BY <1>1, <1>8, GotoFrame DEF DeleteHabit, TypeOK, WritesType, Others
<1>9. CASE GetForUpdate(r)
  <2> DEFINE merged == MergedPatch(req[r].patch, SelectHabit(r, req[r].habit))
  <2>1. CASE Goto(r, "commit") /\ UNCHANGED req
    BY <1>1, <1>9, <2>1, GotoFrame DEF GetForUpdate
  <2>2. CASE /\ req' = [req EXCEPT ![r].patch = merged]
             /\ Goto(r, IF PatchIsValid(merged) THEN "reread" ELSE "commit")
    <3>1. /\ req'[r].op = req[r].op /\ req'[r].changed = req[r].changed
          /\ \A s \in Others(r) : req'[s] = req[s]
      BY <1>1, <2>2 DEF TypeOK, ReqType, Others
    <3>2. pc'[r] \in {"reread", "commit"} /\ \A s \in Others(r) : pc'[s] = pc[s]
      BY <1>1, <2>2, GotoFrame
    <3> QED
      BY <1>1, <1>9, <3>1, <3>2 DEF GetForUpdate
  <2> QED
    BY <1>9, <2>1, <2>2 DEF GetForUpdate
<1>10. CASE Reread(r) \/ AddCheck(r) \/ RemoveCheck(r) \/ (ListCompletions(r) /\ ~Abort(r))
  <2>1. UNCHANGED <<req, writes>>
    BY <1>10 DEF Reread, AddCheck, RemoveCheck, ListCompletions
  <2>2. CASE Reread(r)
    BY <1>1, <2>1, <2>2, GotoFrame DEF Reread
  <2>3. CASE AddCheck(r)
    BY <1>1, <2>1, <2>3, GotoFrame DEF AddCheck
  <2>4. CASE RemoveCheck(r)
    BY <1>1, <2>1, <2>4, GotoFrame DEF RemoveCheck
  <2>5. CASE ListCompletions(r) /\ ~Abort(r)
    <3>1. Goto(r, "addCheck")
      BY <2>5 DEF ListCompletions
    <3> QED
      BY <1>1, <2>1, <3>1, GotoFrame
  <2> QED
    BY <1>10, <2>2, <2>3, <2>4, <2>5
<1>11. CASE Flush(r) /\ ~Abort(r)
  BY <1>1, <1>11, GotoFrame DEF Flush, TypeOK, WritesType, Others
<1>12. CASE GetForCompletion(r) /\ ~Abort(r)
  BY <1>1, <1>12, GotoFrame DEF GetForCompletion
<1>13. CASE Insert(r) /\ ~Abort(r)
  BY <1>1, <1>13, GotoFrame DEF Insert, TypeOK, WritesType, ReqType, Others
<1>14. CASE Remove(r)
  <2>1. /\ req' = [req EXCEPT ![r].changed = TRUE]
        /\ Goto(r, "commit") /\ pc[r] = "remove"
    BY <1>14 DEF Remove
  <2>2. req'[r].op = "incomplete" /\ \A s \in Others(r) : req'[s] = req[s]
    BY <1>1, <2>1 DEF TypeOK, ReqType, Others
  <2>3. \A s \in Others(r) : writes'[s] = writes[s]
    BY <1>1, <1>14 DEF Remove, TypeOK, Others
  <2> QED
    BY <1>1, <2>1, <2>2, <2>3, GotoFrame
<1> QED
  BY <1>3, <1>4, <1>5, <1>6, <1>7, <1>8, <1>9, <1>10, <1>11, <1>12, <1>13, <1>14 DEF Step

\* Whoever is told changed = true by PATCH complete has added the completion: of
\* all concurrent requests for one habit and day, one is told so (add_completion
\* in repositories/habits.py, under the constraint of database/models/habits.py).
THEOREM ChangedMeansAdded == Spec => ChangedAddIsReal
<1>1. Init => AnswerInv
  BY DEF Init, AnswerInv, NoReq
<1>2. ASSUME IInv, AnswerInv, [Next]_vars PROVE AnswerInv'
  <2>1. CASE Midnight
    BY <1>2, <2>1 DEF Midnight, AnswerInv
  <2>2. CASE UNCHANGED vars
    BY <1>2, <2>2 DEF vars, AnswerInv
  <2> QED
    BY <1>2, <2>1, <2>2, AnswerStep DEF Next
<1>3. Spec => []AnswerInv
  BY <1>1, <1>2, Invariant, PTL DEF Spec
<1> DEFINE Real ==
      \A r \in Request :
        Commit(r) /\ req[r].op = "complete" /\ req[r].changed => completions' # completions
<1>4. ASSUME IInv, AnswerInv PROVE Real
  <2> SUFFICES ASSUME NEW r \in Request, Commit(r), req[r].op = "complete", req[r].changed
               PROVE  completions' # completions
    OBVIOUS
  <2>1. RequestInv(r) /\ req[r].habit \in Habit /\ writes[r].ins
    BY <1>4 DEF IInv, TypeOK, ReqType, AnswerInv
  <2>2. completions'[req[r].habit] = completions[req[r].habit] \cup {req[r].clock}
    BY <2>1, CommittedDatesOf DEF Commit
  <2> QED
    BY <2>1, <2>2 DEF RequestInv, PendingDateFits
<1> QED
  BY <1>3, <1>4, Invariant, PTL DEF ChangedAddIsReal

=============================================================================
