---------------------------- MODULE SessionsProofs ----------------------------
(***************************************************************************)
(* Proofs about Sessions, for any number of requests, users and sessions,  *)
(* any lifetime and any run of the clock, with every operation allowed.    *)
(***************************************************************************)
EXTENDS Sessions, TLAPS

-----------------------------------------------------------------------------
(* Types.                                                                   *)

LEMMA Defaults ==
  /\ NoJob \in JobType /\ NoJob.start = 0
  /\ NoIndex \in Index
  /\ Unborn \in Born
BY SessionsAssumption DEF NoJob, JobType, NoIndex, Index, Deadline, Unborn, Born, Time, Operations

\* An idle request is well typed.
LEMMA FinishType ==
  ASSUME TypeOK, NEW t \in Task, Finish(t)
  PROVE  /\ pc' \in [Task -> Steps] /\ job' \in [Task -> JobType]
         /\ pc'[t] = "idle" /\ job'[t] = NoJob
         /\ \A r \in Task \ {t} : pc'[r] = pc[r] /\ job'[r] = job[r]
BY Defaults DEF TypeOK, Finish, Steps

LEMMA GotoType ==
  ASSUME TypeOK, NEW t \in Task, NEW step \in Steps, Goto(t, step)
  PROVE  /\ pc' \in [Task -> Steps] /\ pc'[t] = step
         /\ \A r \in Task \ {t} : pc'[r] = pc[r]
BY DEF TypeOK, Goto

\* A request whose bookkeeping is overwritten.
LEMMA JobTypeOf ==
  ASSUME TypeOK, NEW t \in Task, NEW j \in JobType, job' = [job EXCEPT ![t] = j]
  PROVE  /\ job' \in [Task -> JobType] /\ job'[t] = j
         /\ \A r \in Task \ {t} : job'[r] = job[r]
BY DEF TypeOK

\* The session and the user a request is working on.
LEMMA RequestTypes ==
  ASSUME IInv, NEW t \in Task
  PROVE  /\ TypeOK /\ job[t] \in JobType /\ RequestInv(t)
         /\ pc[t] \in Making \cup Using => job[t].sid \in Sid
         /\ pc[t] \in {"mint", "create", "respond", "commit", "load", "logoutGet", "delIndex",
                      "members", "remove", "dropIndex"} => job[t].user \in User
BY DEF IInv, TypeOK, RequestInv

\* Making a session.
LEMMA MakingType ==
  ASSUME IInv, NEW t \in Task,
         StartLogin(t) \/ StartRegister(t) \/ Mint(t) \/ Create(t) \/ Respond(t) \/ Commit(t)
  PROVE  TypeOK'
<1>. TypeOK /\ job[t] \in JobType
  BY RequestTypes
<1>1. CASE StartLogin(t)
  <2>1. PICK u \in User :
          job' = [job EXCEPT ![t] = [NoJob EXCEPT !.op = "login", !.user = u]]
    BY <1>1 DEF StartLogin
  <2>2. [NoJob EXCEPT !.op = "login", !.user = u] \in JobType
    BY Defaults DEF JobType, NoJob, Operations
  <2> QED
    BY <1>1, <2>1, <2>2, JobTypeOf, GotoType DEF StartLogin, TypeOK, Steps
<1>2. CASE StartRegister(t)
  <2>1. PICK u \in User :
          job' = [job EXCEPT ![t] = [NoJob EXCEPT !.op = "register", !.user = u]]
    BY <1>2 DEF StartRegister
  <2>2. [NoJob EXCEPT !.op = "register", !.user = u] \in JobType
    BY Defaults DEF JobType, NoJob, Operations
  <2> QED
    BY <1>2, <2>1, <2>2, JobTypeOf, GotoType DEF StartRegister, TypeOK, Steps
<1>3. CASE Mint(t)
  <2>1. PICK s \in Sid \ given :
          /\ given' = given \cup {s}
          /\ job' = [job EXCEPT ![t].sid = s]
          /\ born' = [born EXCEPT ![s] = [user |-> job[t].user, at |-> now, raced |-> FALSE]]
    BY <1>3 DEF Mint
  <2>2. [job[t] EXCEPT !.sid = s] \in JobType
    BY DEF TypeOK, JobType
  <2>3. job' \in [Task -> JobType]
    BY <2>1, <2>2 DEF TypeOK
  <2>4. [user |-> job[t].user, at |-> now, raced |-> FALSE] \in Born
    BY DEF TypeOK, JobType, Born
  <2>5. born' \in [Sid -> Born]
    BY <2>1, <2>4 DEF TypeOK
  <2> QED
    BY <1>3, <2>1, <2>3, <2>5, GotoType DEF Mint, TypeOK, Steps
<1>4. CASE Create(t)
  <2>1. job[t].sid \in Sid /\ job[t].user \in User
    BY <1>4, RequestTypes DEF Create, Making
  <2> DEFINE u == job[t].user
             s == job[t].sid
  <2>2. now + Ttl \in Deadline /\ born[s].at + Ttl \in Deadline
    BY <2>1, SessionsAssumption DEF TypeOK, Born, Time, Deadline
  <2>3. [user |-> u, expires |-> born[s].at + Ttl, ends |-> now + Ttl] \in Key
    BY <2>1, <2>2 DEF Key
  <2>4. keys' \in [Sid -> Key \cup {None}]
    BY <1>4, <2>3 DEF Create, TypeOK
  <2>5. [ids |-> index[u].ids \cup {s}, ends |-> now + Ttl] \in Index
    BY <2>1, <2>2 DEF TypeOK, Index
  <2>6. index' \in [User -> Index]
    BY <1>4, <2>5 DEF Create, TypeOK
  <2>7. [born[s] EXCEPT !.raced = @ \/ LoggingOutAll(u)] \in Born
    BY <2>1 DEF TypeOK, Born, LoggingOutAll
  <2>8. born' \in [Sid -> Born]
    BY <1>4, <2>7 DEF Create, TypeOK
  <2> QED
    BY <1>4, <2>4, <2>6, <2>8, GotoType DEF Create, AnswerLost, TypeOK, Steps
<1>5. CASE Respond(t)
  <2>1. job[t].sid \in given
    BY <1>5, RequestTypes DEF Respond, Making, RequestInv
  <2> QED
    BY <1>5, <2>1, GotoType DEF Respond, TypeOK, Steps
<1>6. CASE Commit(t)
  <2>1. job[t].user \in User
    BY <1>6, RequestTypes DEF Commit
  <2>2. accounts' \in [User -> Account]
    BY <1>6, <2>1 DEF Commit, TypeOK, Account
  <2> QED
    BY <1>6, <2>2, FinishType DEF Commit, TypeOK
<1> QED
  BY <1>1, <1>2, <1>3, <1>4, <1>5, <1>6

\* Authenticating a request and logging out.
LEMMA UsingType ==
  ASSUME IInv, NEW t \in Task,
         StartRequest(t) \/ Get(t) \/ Load(t) \/ LogoutGet(t) \/ DelGet(t)
           \/ DelKey(t) \/ DelIndex(t)
  PROVE  TypeOK'
<1>. TypeOK /\ job[t] \in JobType
  BY RequestTypes
<1>1. CASE StartRequest(t)
  <2>1. PICK op \in Ops \cap {"resolve", "logout"}, s \in known :
          job' = [job EXCEPT ![t] = [NoJob EXCEPT !.op = op, !.sid = s, !.start = now]]
    BY <1>1 DEF StartRequest
  <2>2. [NoJob EXCEPT !.op = op, !.sid = s, !.start = now] \in JobType
    BY Defaults DEF JobType, NoJob, Operations, TypeOK
  <2> QED
    BY <1>1, <2>1, <2>2, JobTypeOf, GotoType DEF StartRequest, TypeOK, Steps
<1>2. [NoJob EXCEPT !.sid = job[t].sid] \in JobType
  BY Defaults DEF JobType, NoJob
<1>3. ASSUME Refuse(t)
      PROVE  pc' \in [Task -> Steps] /\ job' \in [Task -> JobType]
  BY <1>2, <1>3, JobTypeOf, GotoType DEF Refuse, Steps
<1>4. CASE Get(t)
  <2>1. job[t].sid \in Sid
    BY <1>4, RequestTypes DEF Get, Using
  <2>2. CASE keys[job[t].sid] = None
    BY <1>4, <2>2, FinishType DEF Get, TypeOK
  <2>3. CASE keys[job[t].sid] # None
    <3>1. keys[job[t].sid].user \in User
      BY <2>1, <2>3 DEF TypeOK, Key
    <3>2. [job[t] EXCEPT !.user = keys[job[t].sid].user] \in JobType
      BY <3>1 DEF JobType
    <3>3. \/ Refuse(t)
          \/ /\ job' = [job EXCEPT ![t] = [job[t] EXCEPT !.user = keys[job[t].sid].user]]
             /\ Goto(t, "load")
      BY <1>4, <2>3 DEF Get
    <3>4. pc' \in [Task -> Steps] /\ job' \in [Task -> JobType]
      BY <1>3, <3>2, <3>3, JobTypeOf, GotoType DEF Steps
    <3> QED
      BY <1>4, <3>4 DEF Get, TypeOK
  <2> QED
    BY <2>2, <2>3
<1>5. CASE Load(t)
  <2>1. [job[t] EXCEPT !.start = 0] \in JobType
    BY SessionsAssumption DEF JobType, Time
  <2>2. \/ Refuse(t)
        \/ Goto(t, "logoutGet") /\ job' = [job EXCEPT ![t] = [job[t] EXCEPT !.start = 0]]
        \/ Finish(t)
    BY <1>5 DEF Load
  <2>3. pc' \in [Task -> Steps] /\ job' \in [Task -> JobType]
    BY <1>3, <2>1, <2>2, FinishType, JobTypeOf, GotoType DEF Steps
  <2> QED
    BY <1>5, <2>3 DEF Load, TypeOK
<1>6. ASSUME EndDelete(t), job[t].sid \in known
      PROVE  /\ pc' \in [Task -> Steps] /\ job' \in [Task -> JobType]
             /\ ended' \subseteq given
  BY <1>6, FinishType DEF EndDelete, TypeOK
<1>7. CASE LogoutGet(t)
  <2>1. job[t].sid \in known
    BY <1>7, RequestTypes DEF LogoutGet, Using, RequestInv
  <2>2. (Goto(t, "delGet") /\ UNCHANGED <<job, ended>>) \/ EndDelete(t)
    BY <1>7 DEF LogoutGet
  <2> QED
    BY <1>6, <1>7, <2>1, <2>2, GotoType DEF LogoutGet, TypeOK, Steps
<1>8. CASE DelGet(t)
  <2>1. job[t].sid \in Sid
    BY <1>8, RequestTypes DEF DelGet, Using
  <2> DEFINE owner == IF keys[job[t].sid] = None THEN None ELSE keys[job[t].sid].user
  <2>2. owner \in User \cup {None}
    BY <2>1 DEF TypeOK, Key
  <2>3. [job[t] EXCEPT !.user = owner] \in JobType
    BY <2>2 DEF JobType
  <2>4. job' = [job EXCEPT ![t] = [job[t] EXCEPT !.user = owner]]
    BY <1>8 DEF DelGet
  <2> QED
    BY <1>8, <2>3, <2>4, JobTypeOf, GotoType DEF DelGet, TypeOK, Steps
<1>9. CASE DelKey(t)
  <2>1. job[t].sid \in known
    BY <1>9, RequestTypes DEF DelKey, Using, RequestInv
  <2>2. keys' \in [Sid -> Key \cup {None}]
    BY <1>9, <2>1 DEF DelKey, TypeOK
  <2>3. AnswerLost \/ EndDelete(t) \/ (Goto(t, "delIndex") /\ UNCHANGED <<job, ended>>)
    BY <1>9 DEF DelKey
  <2>4. pc' \in [Task -> Steps] /\ job' \in [Task -> JobType] /\ ended' \subseteq given
    BY <1>6, <2>1, <2>3, GotoType DEF AnswerLost, TypeOK, Steps
  <2> QED
    BY <1>9, <2>2, <2>4 DEF DelKey, TypeOK
<1>10. CASE DelIndex(t)
  <2>1. job[t].sid \in known /\ job[t].user \in User
    BY <1>10, RequestTypes DEF DelIndex, Using, RequestInv
  <2>2. [index[job[t].user] EXCEPT !.ids = @ \ {job[t].sid}] \in Index
    BY <2>1 DEF TypeOK, Index
  <2>3. index' \in [User -> Index]
    BY <1>10, <2>2 DEF DelIndex, TypeOK
  <2>4. pc' \in [Task -> Steps] /\ job' \in [Task -> JobType] /\ ended' \subseteq given
    BY <1>6, <1>10, <2>1 DEF DelIndex, AnswerLost, TypeOK
  <2> QED
    BY <1>10, <2>3, <2>4 DEF DelIndex, TypeOK
<1> QED
  BY <1>1, <1>4, <1>5, <1>7, <1>8, <1>9, <1>10

\* Logging out everywhere, and failing.
LEMMA OtherType ==
  ASSUME IInv, NEW t \in Task,
         StartLogoutAll(t) \/ Members(t) \/ Remove(t) \/ DropIndex(t) \/ Fail(t)
  PROVE  TypeOK'
<1>. TypeOK /\ job[t] \in JobType
  BY RequestTypes
<1>1. CASE StartLogoutAll(t)
  <2>1. PICK u \in User :
          job' = [job EXCEPT ![t] = [NoJob EXCEPT !.op = "logoutAll", !.user = u,
                                                  !.target = UserSessions(u)]]
    BY <1>1 DEF StartLogoutAll
  <2>2. [NoJob EXCEPT !.op = "logoutAll", !.user = u, !.target = UserSessions(u)] \in JobType
    BY Defaults DEF JobType, NoJob, Operations, UserSessions
  <2> QED
    BY <1>1, <2>1, <2>2, JobTypeOf, GotoType DEF StartLogoutAll, TypeOK, Steps
<1>2. CASE Members(t)
  <2>1. job[t].user \in User
    BY <1>2, RequestTypes DEF Members
  <2>2. [job[t] EXCEPT !.left = index[job[t].user].ids] \in JobType
    BY <2>1 DEF TypeOK, Index, JobType
  <2>3. job' = [job EXCEPT ![t] = [job[t] EXCEPT !.left = index[job[t].user].ids]]
    BY <1>2 DEF Members
  <2> QED
    BY <1>2, <2>2, <2>3, JobTypeOf, GotoType DEF Members, TypeOK, Steps
<1>3. CASE Remove(t)
  <2>1. PICK s \in job[t].left :
          /\ keys' = [keys EXCEPT ![s] = None]
          /\ \/ AnswerLost
             \/ /\ job' = [job EXCEPT ![t] = [job[t] EXCEPT !.left = job[t].left \ {s}]]
                /\ Goto(t, IF job[t].left = {s} THEN "dropIndex" ELSE "remove")
                /\ UNCHANGED ended
    BY <1>3 DEF Remove
  <2>2. [job[t] EXCEPT !.left = job[t].left \ {s}] \in JobType
    BY DEF JobType
  <2>3. keys' \in [Sid -> Key \cup {None}]
    BY <2>1 DEF TypeOK
  <2>4. pc' \in [Task -> Steps] /\ job' \in [Task -> JobType] /\ ended' = ended
    BY <2>1, <2>2, JobTypeOf, GotoType DEF AnswerLost, TypeOK, Steps
  <2> QED
    BY <1>3, <2>3, <2>4 DEF Remove, TypeOK
<1>4. CASE DropIndex(t)
  <2>1. index' \in [User -> Index]
    BY <1>4, Defaults DEF DropIndex, TypeOK
  <2>2. pc' \in [Task -> Steps] /\ job' \in [Task -> JobType] /\ ended' = ended
    BY <1>4, FinishType DEF DropIndex, AnswerLost, TypeOK
  <2> QED
    BY <1>4, <2>1, <2>2 DEF DropIndex, TypeOK
<1>5. CASE Fail(t)
  BY <1>5, FinishType DEF Fail, TypeOK
<1> QED
  BY <1>1, <1>2, <1>3, <1>4, <1>5

\* What happens outside of requests.
LEMMA EnvironmentType ==
  ASSUME TypeOK, SetActive \/ Tick
  PROVE  TypeOK'
<1>1. CASE SetActive
  BY <1>1 DEF SetActive, TypeOK, Account
<1>2. CASE Tick
  <2>1. now' \in Time
    BY <1>2, SessionsAssumption DEF Tick, TypeOK, Time
  <2>2. keys' \in [Sid -> Key \cup {None}] /\ index' \in [User -> Index]
    BY <1>2, Defaults DEF Tick, TypeOK
  <2> QED
    BY <1>2, <2>1, <2>2 DEF Tick, TypeOK
<1> QED
  BY <1>1, <1>2

-----------------------------------------------------------------------------
(* The inductive invariant: steps that store no session.                    *)

\* What other requests have found out is not disturbed by a step that stores no
\* session.
LEMMA OthersUndisturbed ==
  ASSUME IInv, NEW r \in Task, pc'[r] = pc[r], job'[r] = job[r],
         UNCHANGED <<given, known, now, born>>,
         \A k \in Sid : keys'[k] \in {keys[k], None}
  PROVE  RequestInv(r)'
<1>1. RequestInv(r) /\ (pc[r] \in Making \cup Using => job[r].sid \in Sid)
  BY RequestTypes
<1>2. pc[r] = "delIndex" => keys'[job[r].sid] = None
  BY <1>1 DEF RequestInv, Using
<1>3. ASSUME pc[r] \in {"remove", "dropIndex"}, NEW k \in Sid,
             keys'[k] # None, keys'[k].user = job[r].user, ~born[k].raced
      PROVE  pc[r] = "remove" /\ k \in job[r].left
  BY <1>1, <1>3 DEF RequestInv
<1> QED
  BY <1>1, <1>2, <1>3 DEF RequestInv, Making, Using

\* A step of one request that stores no session and leaves the others alone.
LEMMA QuietStep ==
  ASSUME IInv, TypeOK', NEW t \in Task,
         \A r \in Task \ {t} : pc'[r] = pc[r] /\ job'[r] = job[r],
         UNCHANGED <<given, known, now, born>>,
         \A k \in Sid : keys'[k] \in {keys[k], None},
         SessionsAreIndexed',
         ended' = ended
           \/ (ended' = ended \cup {job[t].sid} /\ job[t].sid \in known /\ keys'[job[t].sid] = None),
         pc'[t] \notin Making,
         RequestInv(t)'
  PROVE  IInv'
<1>1. EndedSessionsStayDead'
  <2>1. \A k \in ended : keys'[k] = None
    BY DEF IInv, EndedSessionsStayDead, TypeOK
  <2> QED
    BY <2>1 DEF EndedSessionsStayDead
<1>2. (ended \subseteq known)'
  BY DEF IInv
<1>3. MakersDiffer'
  BY DEF IInv, MakersDiffer
<1>4. \A s \in Sid : KeyInv(s)'
  BY DEF IInv, KeyInv
<1>5. \A r \in Task : RequestInv(r)'
  BY OthersUndisturbed
<1> QED
  BY <1>1, <1>2, <1>3, <1>4, <1>5 DEF IInv

\* The index still finds every session when it is left alone and keys go away.
LEMMA StillIndexed ==
  ASSUME IInv, UNCHANGED <<index, born>>, \A k \in Sid : keys'[k] \in {keys[k], None}
  PROVE  SessionsAreIndexed'
BY DEF IInv, SessionsAreIndexed

\* A request that ends.
LEMMA IdleInv ==
  ASSUME TypeOK', NEW t \in Task, Finish(t), TypeOK
  PROVE  pc'[t] \notin Making /\ RequestInv(t)'
<1>1. pc'[t] = "idle" /\ job'[t].start = 0
  BY FinishType, Defaults
<1>2. now' \in Nat
  BY DEF TypeOK, Time
<1> QED
  BY <1>1, <1>2 DEF RequestInv, Making, Using

\* Requests that begin, end, or fail.
LEMMA BeginAndEndInv ==
  ASSUME IInv, NEW t \in Task,
         StartLogin(t) \/ StartRegister(t) \/ StartRequest(t) \/ StartLogoutAll(t)
           \/ Commit(t) \/ Fail(t)
  PROVE  IInv'
<1>1. TypeOK /\ TypeOK'
  BY MakingType, UsingType, OtherType, RequestTypes
<1>2. now \in Nat /\ NoJob.start = 0
  BY <1>1, Defaults DEF TypeOK, Time
<1>3. UNCHANGED <<keys, index, given, known, now, born, ended>>
  BY DEF StartLogin, StartRegister, StartRequest, StartLogoutAll, Commit, Fail
<1>4. \A k \in Sid : keys'[k] \in {keys[k], None}
  BY <1>3
<1>5. SessionsAreIndexed'
  BY <1>3, <1>4, StillIndexed
<1>6. /\ \A r \in Task \ {t} : pc'[r] = pc[r] /\ job'[r] = job[r]
      /\ pc'[t] \notin Making /\ RequestInv(t)'
  <2>0. job \in [Task -> JobType]
    BY <1>1 DEF TypeOK
  <2>1. CASE Commit(t) \/ Fail(t)
    BY <1>1, <2>1, FinishType, IdleInv DEF Commit, Fail
  <2>2. CASE StartLogin(t) \/ StartRegister(t)
    <3>1. PICK u \in User, op \in {"login", "register"} :
            job' = [job EXCEPT ![t] = [NoJob EXCEPT !.op = op, !.user = u]]
      BY <2>2 DEF StartLogin, StartRegister
    <3>5. /\ job'[t] = [NoJob EXCEPT !.op = op, !.user = u]
           /\ \A r \in Task \ {t} : job'[r] = job[r]
      BY <2>0, <3>1
    <3>6. job'[t].user = u /\ job'[t].start = 0
      BY <3>5 DEF NoJob
    <3>2. /\ job'[t].user = u /\ job'[t].start = 0
          /\ \A r \in Task \ {t} : job'[r] = job[r]
      BY <3>5, <3>6
    <3>3. pc'[t] = "mint" /\ \A r \in Task \ {t} : pc'[r] = pc[r]
      BY <1>1, <2>2, GotoType DEF StartLogin, StartRegister, Steps
    <3>4. RequestInv(t)'
      BY <1>2, <1>3, <3>2, <3>3 DEF RequestInv, Making, Using
    <3> QED
      BY <3>2, <3>3, <3>4 DEF Making
  <2>3. CASE StartRequest(t)
    <3>1. PICK op \in Ops \cap {"resolve", "logout"}, s \in known :
            job' = [job EXCEPT ![t] = [NoJob EXCEPT !.op = op, !.sid = s, !.start = now]]
      BY <2>3 DEF StartRequest
    <3>5. /\ job'[t] = [NoJob EXCEPT !.op = op, !.sid = s, !.start = now]
           /\ \A r \in Task \ {t} : job'[r] = job[r]
      BY <2>0, <3>1
    <3>2. /\ job'[t].sid = s /\ job'[t].start = now
          /\ \A r \in Task \ {t} : job'[r] = job[r]
      BY <3>5 DEF NoJob
    <3>3. pc'[t] = "get" /\ \A r \in Task \ {t} : pc'[r] = pc[r]
      BY <1>1, <2>3, GotoType DEF StartRequest, Steps
    <3>4. RequestInv(t)'
      BY <1>2, <1>3, <3>2, <3>3 DEF RequestInv, Making, Using
    <3> QED
      BY <3>2, <3>3, <3>4 DEF Making
  <2>4. CASE StartLogoutAll(t)
    <3>1. PICK u \in User :
            job' = [job EXCEPT ![t] = [NoJob EXCEPT !.op = "logoutAll", !.user = u,
                                                    !.target = UserSessions(u)]]
      BY <2>4 DEF StartLogoutAll
    <3>5. /\ job'[t] = [NoJob EXCEPT !.op = "logoutAll", !.user = u, !.target = UserSessions(u)]
           /\ \A r \in Task \ {t} : job'[r] = job[r]
      BY <2>0, <3>1
    <3>2. /\ job'[t].user = u /\ job'[t].start = 0
          /\ \A r \in Task \ {t} : job'[r] = job[r]
      BY <3>5 DEF NoJob
    <3>3. pc'[t] = "members" /\ \A r \in Task \ {t} : pc'[r] = pc[r]
      BY <1>1, <2>4, GotoType DEF StartLogoutAll, Steps
    <3>4. RequestInv(t)'
      BY <1>2, <1>3, <3>2, <3>3 DEF RequestInv, Making, Using
    <3> QED
      BY <3>2, <3>3, <3>4 DEF Making
  <2> QED
    BY <2>1, <2>2, <2>3, <2>4
<1> QED
  BY <1>1, <1>3, <1>4, <1>5, <1>6, QuietStep

\* A refused request goes on to delete its session.
LEMMA RefuseInv ==
  ASSUME IInv, TypeOK', NEW t \in Task, Refuse(t), pc[t] \in Using, UNCHANGED known
  PROVE  /\ \A r \in Task \ {t} : pc'[r] = pc[r] /\ job'[r] = job[r]
         /\ pc'[t] \notin Making /\ RequestInv(t)'
<1>1. TypeOK /\ job[t].sid \in known /\ now' \in Nat
  BY RequestTypes DEF RequestInv, Using, TypeOK, Time
<1>2. /\ job'[t].sid = job[t].sid /\ job'[t].start = 0
      /\ \A r \in Task \ {t} : job'[r] = job[r]
  BY <1>1 DEF Refuse, NoJob, TypeOK
<1>3. pc'[t] = "delGet" /\ \A r \in Task \ {t} : pc'[r] = pc[r]
  BY <1>1, GotoType DEF Refuse, Steps
<1> QED
  BY <1>1, <1>2, <1>3 DEF RequestInv, Making, Using

\* resolve_user: the payload tells the owner and that the session has time left.
LEMMA GetInv ==
  ASSUME IInv, NEW t \in Task, Get(t)
  PROVE  IInv'
<1>1. TypeOK /\ TypeOK' /\ job[t].sid \in Sid /\ RequestInv(t) /\ KeyInv(job[t].sid)
  BY UsingType, RequestTypes DEF Get, Using, IInv
<1>2. UNCHANGED <<keys, index, given, known, now, born, ended>> /\ pc[t] \in Using
  BY DEF Get, Using
<1>3. \A k \in Sid : keys'[k] \in {keys[k], None}
  BY <1>2
<1>4. SessionsAreIndexed'
  BY <1>2, <1>3, StillIndexed
<1>5. /\ \A r \in Task \ {t} : pc'[r] = pc[r] /\ job'[r] = job[r]
      /\ pc'[t] \notin Making /\ RequestInv(t)'
  <2> DEFINE key == keys[job[t].sid]
  <2>1. CASE Finish(t)
    BY <1>1, <2>1, FinishType, IdleInv
  <2>2. CASE Refuse(t)
    BY <1>1, <1>2, <2>2, RefuseInv
  <2>3. CASE /\ key # None /\ ~(key.expires <= now)
             /\ job' = [job EXCEPT ![t].user = key.user] /\ Goto(t, "load")
    <3>1. pc'[t] = "load" /\ \A r \in Task \ {t} : pc'[r] = pc[r]
      BY <1>1, <2>3, GotoType DEF Steps
    <3>2. /\ job'[t].user = key.user /\ job'[t].sid = job[t].sid
          /\ job'[t].start = job[t].start
          /\ \A r \in Task \ {t} : job'[r] = job[r]
      BY <1>1, <2>3 DEF TypeOK, JobType
    <3>3. /\ key.user \in User /\ key.user = born[job[t].sid].user
          /\ key.expires = born[job[t].sid].at + Ttl
      BY <1>1, <2>3 DEF TypeOK, Key, KeyInv
    <3>4. job[t].sid \in known /\ job[t].start <= now
      BY <1>1, <1>2 DEF RequestInv
    <3>5. job[t].start < born[job[t].sid].at + Ttl
      <4>1. now \in Int /\ job[t].start \in Int /\ key.expires \in Int
        BY <1>1, <2>3 DEF TypeOK, Time, JobType, Key, Deadline
      <4> QED
        BY <2>3, <3>3, <3>4, <4>1
    <3> QED
      BY <1>2, <3>1, <3>2, <3>3, <3>4, <3>5 DEF RequestInv, Making, Using
  <2> QED
    BY <2>1, <2>2, <2>3 DEF Get
<1> QED
  BY <1>1, <1>2, <1>3, <1>4, <1>5, QuietStep

\* resolve_user: the account.
LEMMA LoadInv ==
  ASSUME IInv, NEW t \in Task, Load(t)
  PROVE  IInv'
<1>1. TypeOK /\ TypeOK' /\ job[t].sid \in Sid /\ RequestInv(t)
  BY UsingType, RequestTypes DEF Load, Using
<1>2. UNCHANGED <<keys, index, given, known, now, born, ended>> /\ pc[t] \in Using
  BY DEF Load, Using
<1>3. \A k \in Sid : keys'[k] \in {keys[k], None}
  BY <1>2
<1>4. SessionsAreIndexed'
  BY <1>2, <1>3, StillIndexed
<1>5. /\ \A r \in Task \ {t} : pc'[r] = pc[r] /\ job'[r] = job[r]
      /\ pc'[t] \notin Making /\ RequestInv(t)'
  <2>1. CASE Finish(t)
    BY <1>1, <2>1, FinishType, IdleInv
  <2>2. CASE Refuse(t)
    BY <1>1, <1>2, <2>2, RefuseInv
  <2>3. CASE Goto(t, "logoutGet") /\ job' = [job EXCEPT ![t].start = 0]
    <3>1. pc'[t] = "logoutGet" /\ \A r \in Task \ {t} : pc'[r] = pc[r]
      BY <1>1, <2>3, GotoType DEF Steps
    <3>2. /\ job'[t].user = job[t].user /\ job'[t].sid = job[t].sid
          /\ job'[t].start = 0
          /\ \A r \in Task \ {t} : job'[r] = job[r]
      BY <1>1, <2>3 DEF TypeOK, JobType
    <3>3. now \in Nat
      BY <1>1 DEF TypeOK, Time
    <3> QED
      BY <1>1, <1>2, <3>1, <3>2, <3>3 DEF RequestInv, Making, Using, Load
  <2> QED
    BY <2>1, <2>2, <2>3 DEF Load
<1> QED
  BY <1>1, <1>2, <1>3, <1>4, <1>5, QuietStep

\* The end of a deletion, when the session's key is gone.
LEMMA EndDeleteInv ==
  ASSUME IInv, TypeOK', NEW t \in Task, EndDelete(t), pc[t] \in Using,
         keys'[job[t].sid] = None
  PROVE  /\ \A r \in Task \ {t} : pc'[r] = pc[r] /\ job'[r] = job[r]
         /\ pc'[t] \notin Making /\ RequestInv(t)'
         /\ \/ ended' = ended
            \/ /\ ended' = ended \cup {job[t].sid} /\ job[t].sid \in known
               /\ keys'[job[t].sid] = None
<1>1. TypeOK /\ job[t].sid \in known
  BY RequestTypes DEF RequestInv
<1> QED
  BY <1>1, FinishType, IdleInv DEF EndDelete

\* logout: the session is gone already, or it is this user's, as the account that
\* was loaded for it.
LEMMA LogoutGetInv ==
  ASSUME IInv, NEW t \in Task, LogoutGet(t)
  PROVE  IInv'
<1>1. TypeOK /\ TypeOK' /\ job[t].sid \in Sid /\ RequestInv(t) /\ KeyInv(job[t].sid)
  BY UsingType, RequestTypes DEF LogoutGet, Using, IInv
<1>2. UNCHANGED <<keys, index, given, known, now, born>> /\ pc[t] \in Using
  BY DEF LogoutGet, Using
<1>3. \A k \in Sid : keys'[k] \in {keys[k], None}
  BY <1>2
<1>4. SessionsAreIndexed'
  BY <1>2, <1>3, StillIndexed
<1>5. CASE Goto(t, "delGet") /\ UNCHANGED <<job, ended>>
  <2>1. pc'[t] = "delGet" /\ \A r \in Task \ {t} : pc'[r] = pc[r]
    BY <1>1, <1>5, GotoType DEF Steps
  <2>2. pc'[t] \notin Making /\ RequestInv(t)'
    BY <1>1, <1>2, <1>5, <2>1 DEF RequestInv, Making, Using
  <2> QED
    BY <1>1, <1>2, <1>3, <1>4, <1>5, <2>1, <2>2, QuietStep
<1>6. CASE EndDelete(t) /\ ~(keys[job[t].sid] # None /\ keys[job[t].sid].user = job[t].user)
  <2>1. keys'[job[t].sid] = None
    BY <1>1, <1>2, <1>6 DEF RequestInv, KeyInv, LogoutGet
  <2> QED
    BY <1>1, <1>2, <1>3, <1>4, <1>6, <2>1, EndDeleteInv, QuietStep
<1> QED
  BY <1>5, <1>6 DEF LogoutGet

LEMMA DelGetInv ==
  ASSUME IInv, NEW t \in Task, DelGet(t)
  PROVE  IInv'
<1>1. TypeOK /\ TypeOK' /\ job[t].sid \in Sid /\ RequestInv(t)
  BY UsingType, RequestTypes DEF DelGet, Using
<1>2. UNCHANGED <<keys, index, given, known, now, born, ended>> /\ pc[t] \in Using
  BY DEF DelGet, Using
<1>3. \A k \in Sid : keys'[k] \in {keys[k], None}
  BY <1>2
<1>4. SessionsAreIndexed'
  BY <1>2, <1>3, StillIndexed
<1>5. pc'[t] = "delKey" /\ \A r \in Task \ {t} : pc'[r] = pc[r]
  BY <1>1, GotoType DEF DelGet, Steps
<1>6. /\ job'[t].sid = job[t].sid /\ job'[t].start = job[t].start
      /\ \A r \in Task \ {t} : job'[r] = job[r]
  BY <1>1 DEF DelGet, TypeOK, JobType
<1>7. pc'[t] \notin Making /\ RequestInv(t)'
  BY <1>1, <1>2, <1>5, <1>6 DEF RequestInv, Making, Using
<1> QED
  BY <1>1, <1>2, <1>3, <1>4, <1>5, <1>6, <1>7, QuietStep

\* A command whose answer is lost leaves the request where it is.
LEMMA AnswerLostInv ==
  ASSUME IInv, NEW t \in Task, AnswerLost, pc[t] \notin Making,
         UNCHANGED <<given, known, now, born>>,
         \A k \in Sid : keys'[k] \in {keys[k], None}
  PROVE  /\ \A r \in Task \ {t} : pc'[r] = pc[r] /\ job'[r] = job[r]
         /\ pc'[t] \notin Making /\ RequestInv(t)' /\ ended' = ended
BY OthersUndisturbed DEF AnswerLost

LEMMA DelKeyInv ==
  ASSUME IInv, NEW t \in Task, DelKey(t)
  PROVE  IInv'
<1>1. TypeOK /\ TypeOK' /\ job[t] \in JobType /\ job[t].sid \in Sid /\ RequestInv(t)
  BY UsingType, RequestTypes DEF DelKey, Using
<1>2. /\ UNCHANGED <<index, given, known, now, born>>
      /\ pc[t] \in Using /\ pc[t] \notin Making
  BY DEF DelKey, Using, Making
<1>3. keys'[job[t].sid] = None /\ \A k \in Sid : keys'[k] \in {keys[k], None}
  BY <1>1 DEF DelKey, TypeOK
<1>4. SessionsAreIndexed'
  BY <1>2, <1>3, StillIndexed
<1>5. CASE AnswerLost
  BY <1>1, <1>2, <1>3, <1>4, <1>5, AnswerLostInv, QuietStep
<1>6. CASE EndDelete(t)
  BY <1>1, <1>2, <1>3, <1>4, <1>6, EndDeleteInv, QuietStep
<1>7. CASE job[t].user # None /\ Goto(t, "delIndex") /\ UNCHANGED <<job, ended>>
  <2>1. pc'[t] = "delIndex" /\ \A r \in Task \ {t} : pc'[r] = pc[r]
    BY <1>1, <1>7, GotoType DEF Steps
  <2>2. job[t].user \in User
    BY <1>1, <1>7 DEF JobType
  <2>3. pc'[t] \notin Making /\ RequestInv(t)'
    BY <1>1, <1>2, <1>3, <1>7, <2>1, <2>2 DEF RequestInv, Making, Using
  <2> QED
    BY <1>1, <1>2, <1>3, <1>4, <1>7, <2>1, <2>3, QuietStep
<1> QED
  BY <1>5, <1>6, <1>7 DEF DelKey

\* The id that leaves the index has no key any more.
LEMMA DelIndexInv ==
  ASSUME IInv, NEW t \in Task, DelIndex(t)
  PROVE  IInv'
<1>1. TypeOK /\ TypeOK' /\ job[t].sid \in Sid /\ job[t].user \in User /\ RequestInv(t)
  BY UsingType, RequestTypes DEF DelIndex, Using
<1>2. /\ UNCHANGED <<keys, given, known, now, born>>
      /\ pc[t] \in Using /\ pc[t] \notin Making
  BY DEF DelIndex, Using, Making
<1>3. keys'[job[t].sid] = None /\ \A k \in Sid : keys'[k] \in {keys[k], None}
  BY <1>1, <1>2 DEF DelIndex, RequestInv
<1>4. SessionsAreIndexed'
  <2>1. \A u \in User : /\ index'[u].ends = index[u].ends
                         /\ index[u].ids \ {job[t].sid} \subseteq index'[u].ids
    BY <1>1 DEF DelIndex, TypeOK, Index
  <2>2. \A k \in Sid : keys[k] # None => keys[k].user \in User
    BY <1>1 DEF TypeOK, Key
  <2> QED
    BY <1>2, <1>3, <2>1, <2>2 DEF IInv, SessionsAreIndexed
<1>5. CASE AnswerLost
  BY <1>1, <1>2, <1>3, <1>4, <1>5, AnswerLostInv, QuietStep
<1>6. CASE EndDelete(t)
  BY <1>1, <1>2, <1>3, <1>4, <1>6, EndDeleteInv, QuietStep
<1> QED
  BY <1>5, <1>6 DEF DelIndex

-----------------------------------------------------------------------------
(* The inductive invariant: logging out everywhere.                         *)

\* The index holds every session but those stored since a logout began.
LEMMA MembersInv ==
  ASSUME IInv, NEW t \in Task, Members(t)
  PROVE  IInv'
<1>1. TypeOK /\ TypeOK' /\ job[t].user \in User /\ RequestInv(t)
  BY OtherType, RequestTypes DEF Members
<1>2. UNCHANGED <<keys, index, given, known, now, born, ended>>
  BY DEF Members
<1>3. \A k \in Sid : keys'[k] \in {keys[k], None}
  BY <1>2
<1>4. SessionsAreIndexed'
  BY <1>2, <1>3, StillIndexed
<1> DEFINE ids == index[job[t].user].ids
<1>5. /\ pc'[t] = (IF ids = {} THEN "dropIndex" ELSE "remove")
      /\ \A r \in Task \ {t} : pc'[r] = pc[r]
  BY <1>1, GotoType DEF Members, Steps
<1>6. /\ job'[t].user = job[t].user /\ job'[t].start = job[t].start /\ job'[t].left = ids
      /\ \A r \in Task \ {t} : job'[r] = job[r]
  BY <1>1 DEF Members, TypeOK, JobType
<1>7. \A k \in Sid : keys[k] # None /\ keys[k].user = job[t].user /\ ~born[k].raced => k \in ids
  BY DEF IInv, SessionsAreIndexed
<1>8. pc'[t] \notin Making /\ RequestInv(t)'
  BY <1>1, <1>2, <1>5, <1>6, <1>7 DEF RequestInv, Making, Using
<1> QED
  BY <1>1, <1>2, <1>3, <1>4, <1>5, <1>6, <1>8, QuietStep

LEMMA RemoveInv ==
  ASSUME IInv, NEW t \in Task, Remove(t)
  PROVE  IInv'
<1>1. TypeOK /\ TypeOK' /\ job[t] \in JobType /\ job[t].user \in User /\ RequestInv(t)
  BY OtherType, RequestTypes DEF Remove
<1>2. UNCHANGED <<index, given, known, now, born>> /\ pc[t] = "remove"
  BY DEF Remove
<1>3. PICK s \in job[t].left :
        /\ keys' = [keys EXCEPT ![s] = None]
        /\ \/ AnswerLost
           \/ /\ job' = [job EXCEPT ![t].left = job[t].left \ {s}]
              /\ Goto(t, IF job[t].left = {s} THEN "dropIndex" ELSE "remove")
              /\ UNCHANGED ended
  BY DEF Remove
<1>4. keys'[s] = None /\ \A k \in Sid : keys'[k] \in {keys[k], None}
  BY <1>1, <1>3 DEF TypeOK, JobType
<1>5. SessionsAreIndexed'
  BY <1>2, <1>4, StillIndexed
<1>6. CASE AnswerLost
  BY <1>1, <1>2, <1>4, <1>5, <1>6, AnswerLostInv, QuietStep DEF Making
<1>7. CASE /\ job' = [job EXCEPT ![t].left = job[t].left \ {s}]
           /\ Goto(t, IF job[t].left = {s} THEN "dropIndex" ELSE "remove")
           /\ UNCHANGED ended
  <2>1. /\ pc'[t] = (IF job[t].left = {s} THEN "dropIndex" ELSE "remove")
        /\ \A r \in Task \ {t} : pc'[r] = pc[r]
    BY <1>1, <1>7, GotoType DEF Steps
  <2>2. /\ job'[t].user = job[t].user /\ job'[t].start = job[t].start
        /\ job'[t].left = job[t].left \ {s}
        /\ \A r \in Task \ {t} : job'[r] = job[r]
    BY <1>1, <1>7 DEF TypeOK, JobType
  <2>3. \A k \in Sid : keys'[k] # None /\ keys'[k].user = job[t].user /\ ~born[k].raced
                       => k \in job[t].left \ {s}
    BY <1>1, <1>2, <1>4 DEF RequestInv
  <2>4. pc'[t] \notin Making /\ RequestInv(t)'
    BY <1>1, <1>2, <2>1, <2>2, <2>3 DEF RequestInv, Making, Using
  <2> QED
    BY <1>1, <1>2, <1>4, <1>5, <1>7, <2>1, <2>2, <2>4, QuietStep
<1> QED
  BY <1>3, <1>6, <1>7

\* The index that is dropped holds no session but those stored since.
LEMMA DropIndexInv ==
  ASSUME IInv, NEW t \in Task, DropIndex(t)
  PROVE  IInv'
<1>1. TypeOK /\ TypeOK' /\ job[t].user \in User /\ RequestInv(t)
  BY OtherType, RequestTypes DEF DropIndex
<1>2. UNCHANGED <<keys, given, known, now, born>> /\ pc[t] = "dropIndex"
  BY DEF DropIndex
<1>3. \A k \in Sid : keys'[k] \in {keys[k], None}
  BY <1>2
<1>4. SessionsAreIndexed'
  <2>1. \A u \in User \ {job[t].user} : index'[u] = index[u]
    BY <1>1 DEF DropIndex, TypeOK
  <2>2. \A k \in Sid : keys[k] # None /\ ~born[k].raced => keys[k].user # job[t].user
    BY <1>1, <1>2 DEF RequestInv
  <2>3. \A k \in Sid : keys[k] # None => keys[k].user \in User
    BY <1>1 DEF TypeOK, Key
  <2> QED
    BY <1>2, <2>1, <2>2, <2>3 DEF IInv, SessionsAreIndexed
<1>5. CASE AnswerLost
  BY <1>1, <1>2, <1>3, <1>4, <1>5, AnswerLostInv, QuietStep DEF Making
<1>6. CASE Finish(t) /\ UNCHANGED ended
  BY <1>1, <1>2, <1>3, <1>4, <1>6, FinishType, IdleInv, QuietStep
<1> QED
  BY <1>5, <1>6 DEF DropIndex

-----------------------------------------------------------------------------
(* The inductive invariant: a session is made.                              *)

\* The new id has no key, is in no client's hands, and nobody else makes it.
LEMMA MintInv ==
  ASSUME IInv, NEW t \in Task, Mint(t)
  PROVE  IInv'
<1>1. TypeOK /\ TypeOK' /\ job[t].user \in User /\ RequestInv(t)
  BY MakingType, RequestTypes DEF Mint
<1>2. PICK s \in Sid \ given :
        /\ given' = given \cup {s}
        /\ job' = [job EXCEPT ![t].sid = s]
        /\ born' = [born EXCEPT ![s] = [user |-> job[t].user, at |-> now, raced |-> FALSE]]
  BY DEF Mint
<1>3. UNCHANGED <<keys, index, known, now, ended>>
  BY DEF Mint
<1>4. pc'[t] = "create" /\ \A r \in Task \ {t} : pc'[r] = pc[r]
  BY <1>1, GotoType DEF Mint, Steps
<1>5. /\ job'[t].sid = s /\ job'[t].user = job[t].user /\ job'[t].start = job[t].start
      /\ \A r \in Task \ {t} : job'[r] = job[r]
  BY <1>1, <1>2 DEF TypeOK, JobType
<1>6. born'[s].user = job[t].user /\ \A k \in Sid \ {s} : born'[k] = born[k]
  BY <1>1, <1>2 DEF TypeOK
<1>7. keys[s] = None /\ s \notin known
  BY <1>1, <1>2 DEF IInv, KeyInv, TypeOK
<1>8. SessionsAreIndexed' /\ EndedSessionsStayDead' /\ (ended \subseteq known)'
  BY <1>3, <1>6, <1>7 DEF IInv, SessionsAreIndexed, EndedSessionsStayDead
<1>9. MakersDiffer'
  <2>1. \A r \in Task \ {t} : pc[r] \in Making => job[r].sid # s
    BY <1>2, RequestTypes DEF RequestInv
  <2> QED
    BY <1>4, <1>5, <2>1 DEF IInv, MakersDiffer, Making
<1>10. \A k \in Sid : KeyInv(k)'
  BY <1>2, <1>3, <1>6, <1>7 DEF IInv, KeyInv
<1>11. RequestInv(t)'
  BY <1>1, <1>2, <1>3, <1>4, <1>5, <1>6, <1>7 DEF RequestInv, Making, Using
<1>12. ASSUME NEW r \in Task \ {t}
       PROVE  RequestInv(r)'
  <2>1. RequestInv(r) /\ (pc[r] \in Making \cup Using => job[r].sid \in given)
    BY <1>1, RequestTypes DEF RequestInv, TypeOK
  <2>2. pc[r] \in Making \cup Using => job[r].sid \in Sid \ {s}
    BY <1>1, <1>2, <2>1 DEF TypeOK
  <2>3. \A k \in Sid : keys[k] # None => born'[k] = born[k]
    BY <1>6, <1>7
  <2> QED
    BY <1>2, <1>3, <1>4, <1>5, <1>6, <2>1, <2>2, <2>3 DEF RequestInv, Making, Using
<1> QED
  BY <1>1, <1>8, <1>9, <1>10, <1>11, <1>12 DEF IInv

\* The new key is in the index, which lives at least as long as all its keys; a
\* logout everywhere that is under way may yet drop it, but does not count it.
LEMMA CreateInv ==
  ASSUME IInv, NEW t \in Task, Create(t)
  PROVE  IInv'
<1> DEFINE u == job[t].user
           s == job[t].sid
<1>1. /\ TypeOK /\ TypeOK' /\ u \in User /\ s \in Sid /\ RequestInv(t)
      /\ s \in given \ known /\ born[s].user = u
  BY MakingType, RequestTypes DEF Create, Making, RequestInv
<1>2. UNCHANGED <<given, known, now, job, ended>> /\ pc[t] = "create"
  BY DEF Create, AnswerLost
<1>3. pc'[t] \in Making /\ \A r \in Task \ {t} : pc'[r] = pc[r]
  BY <1>1, GotoType DEF Create, AnswerLost, Steps, Making
<1>4. /\ keys'[s] = [user |-> u, expires |-> born[s].at + Ttl, ends |-> now + Ttl]
      /\ \A k \in Sid \ {s} : keys'[k] = keys[k]
  BY <1>1 DEF Create, TypeOK
<1>5. /\ index'[u] = [ids |-> index[u].ids \cup {s}, ends |-> now + Ttl]
      /\ \A v \in User \ {u} : index'[v] = index[v]
  BY <1>1 DEF Create, TypeOK
<1>6. /\ born'[s].user = born[s].user /\ born'[s].at = born[s].at
      /\ LoggingOutAll(u) \/ born[s].raced => born'[s].raced
      /\ \A k \in Sid \ {s} : born'[k] = born[k]
  <2>1. born' = [born EXCEPT ![s].raced = @ \/ LoggingOutAll(u)] /\ born \in [Sid -> Born]
    BY <1>1 DEF Create, TypeOK
  <2> HIDE DEF s
  <2> QED
    BY <1>1, <2>1 DEF Born
<1>7. now \in Int /\ Ttl \in Int
  BY <1>1, SessionsAssumption DEF TypeOK, Time
<1>8. SessionsAreIndexed'
  <2>1. ASSUME NEW k \in Sid, keys'[k] # None, ~born'[k].raced
        PROVE  /\ k \in index'[keys'[k].user].ids
               /\ keys'[k].ends <= index'[keys'[k].user].ends
    <3>1. CASE k = s
      BY <1>4, <1>5, <1>7, <3>1
    <3>2. CASE k # s
      <4>1. /\ keys'[k] = keys[k] /\ keys[k].ends <= now + Ttl
            /\ k \in index[keys[k].user].ids /\ keys[k].ends <= index[keys[k].user].ends
        BY <1>4, <1>6, <2>1, <3>2 DEF IInv, KeyInv, SessionsAreIndexed
      <4>2. keys[k].user \in User
        BY <1>1, <2>1, <4>1 DEF TypeOK, Key
      <4> QED
        BY <1>5, <4>1, <4>2
    <3> QED
      BY <3>1, <3>2
  <2> QED
    BY <2>1 DEF SessionsAreIndexed
<1>9. EndedSessionsStayDead' /\ (ended \subseteq known)'
  <2>1. \A k \in ended : k \in Sid \ {s}
    BY <1>1 DEF IInv, TypeOK
  <2> QED
    BY <1>2, <1>4, <2>1 DEF IInv, EndedSessionsStayDead
<1>10. MakersDiffer'
  BY <1>2, <1>3 DEF IInv, MakersDiffer, Making
<1>11. ASSUME NEW k \in Sid
       PROVE  KeyInv(k)'
  <2>1. CASE k = s
    BY <1>1, <1>2, <1>4, <1>6, <1>7, <2>1 DEF KeyInv
  <2>2. CASE k # s
    BY <1>2, <1>4, <1>6, <2>2 DEF IInv, KeyInv
  <2> QED
    BY <2>1, <2>2
<1>12. RequestInv(t)'
  BY <1>1, <1>2, <1>3, <1>6 DEF RequestInv, Making, Using
<1>13. ASSUME NEW r \in Task \ {t}
       PROVE  RequestInv(r)'
  <2>1. RequestInv(r) /\ (pc[r] \in Making \cup Using => job[r].sid \in Sid)
    BY RequestTypes
  <2>2. pc[r] \in Making \cup Using => job[r].sid # s
    BY <1>1, <1>2, <2>1 DEF RequestInv, IInv, MakersDiffer, Making
  <2>3. ASSUME pc[r] \in {"remove", "dropIndex"}, NEW k \in Sid,
               keys'[k] # None, keys'[k].user = job[r].user, ~born'[k].raced
        PROVE  pc[r] = "remove" /\ k \in job[r].left
    <3>1. CASE k = s
      <4>1. LoggingOutAll(u)
        BY <1>4, <2>3, <3>1 DEF LoggingOutAll
      <4> QED
        BY <1>6, <2>3, <3>1, <4>1
    <3>2. CASE k # s
      BY <1>4, <1>6, <2>1, <2>3, <3>2 DEF RequestInv
    <3> QED
      BY <3>1, <3>2
  <2>4. \A k \in Sid : born'[k].user = born[k].user /\ born'[k].at = born[k].at
    BY <1>6
  <2> QED
    BY <1>2, <1>3, <1>4, <2>1, <2>2, <2>3, <2>4 DEF RequestInv, Making, Using
<1> QED
  BY <1>1, <1>8, <1>9, <1>10, <1>11, <1>12, <1>13 DEF IInv

LEMMA RespondInv ==
  ASSUME IInv, NEW t \in Task, Respond(t)
  PROVE  IInv'
<1>1. /\ TypeOK /\ TypeOK' /\ job[t].user \in User /\ job[t].sid \in Sid /\ RequestInv(t)
      /\ pc[t] = "respond"
  BY MakingType, RequestTypes DEF Respond, Making
<1>2. UNCHANGED <<keys, index, given, now, job, born, ended>> /\ known' = known \cup {job[t].sid}
  BY DEF Respond
<1>3. pc'[t] = "commit" /\ \A r \in Task \ {t} : pc'[r] = pc[r]
  BY <1>1, GotoType DEF Respond, Steps
<1>4. SessionsAreIndexed' /\ EndedSessionsStayDead' /\ (ended \subseteq known)'
  BY <1>2 DEF IInv, SessionsAreIndexed, EndedSessionsStayDead
<1>5. MakersDiffer'
  BY <1>2, <1>3 DEF IInv, MakersDiffer, Making
<1>6. \A k \in Sid : KeyInv(k)'
  BY <1>2 DEF IInv, KeyInv
<1>7. RequestInv(t)'
  BY <1>1, <1>2, <1>3 DEF RequestInv, Making, Using
<1>8. ASSUME NEW r \in Task \ {t}
      PROVE  RequestInv(r)'
  <2>1. RequestInv(r)
    BY RequestTypes
  <2>2. pc[r] \in Making => job[r].sid # job[t].sid
    BY <1>1 DEF IInv, MakersDiffer, Making
  <2> QED
    BY <1>2, <1>3, <2>1, <2>2 DEF RequestInv, Making, Using
<1> QED
  BY <1>1, <1>4, <1>5, <1>6, <1>7, <1>8 DEF IInv

-----------------------------------------------------------------------------
(* The inductive invariant: outside of requests.                            *)

\* Keys go no later than their index.
LEMMA TickInv ==
  ASSUME IInv, Tick, TypeOK'
  PROVE  IInv'
<1>1. TypeOK /\ now' = now + 1 /\ now \in Int
  BY DEF IInv, TypeOK, Time, Tick
<1>2. UNCHANGED <<given, known, pc, job, born, ended>>
  BY DEF Tick
<1>3. \A k \in Sid : keys'[k] = IF keys[k] # None /\ keys[k].ends <= now' THEN None ELSE keys[k]
  BY DEF Tick
<1>4. \A u \in User : index'[u] = IF index[u].ends <= now' THEN NoIndex ELSE index[u]
  BY DEF Tick
<1>5. SessionsAreIndexed'
  <2>1. ASSUME NEW k \in Sid, keys'[k] # None, ~born[k].raced
        PROVE  /\ k \in index'[keys'[k].user].ids
               /\ keys'[k].ends <= index'[keys'[k].user].ends
    <3>1. keys'[k] = keys[k] /\ ~(keys[k].ends <= now')
      BY <1>3, <2>1
    <3>2. keys[k] \in Key
      BY <1>1, <2>1, <3>1 DEF TypeOK
    <3>3. keys[k].user \in User /\ keys[k].ends \in Int
      BY <3>2 DEF Key, Deadline
    <3>4. k \in index[keys[k].user].ids /\ keys[k].ends <= index[keys[k].user].ends
      BY <2>1, <3>1 DEF IInv, SessionsAreIndexed
    <3>5. index[keys[k].user].ends \in Int
      BY <1>1, <3>3 DEF TypeOK, Index, Deadline
    <3>6. ~(index[keys[k].user].ends <= now')
      BY <1>1, <3>1, <3>3, <3>4, <3>5
    <3> QED
      BY <1>4, <3>1, <3>3, <3>4, <3>6
  <2> QED
    BY <1>2, <2>1 DEF SessionsAreIndexed
<1>6. EndedSessionsStayDead' /\ (ended \subseteq known)'
  BY <1>1, <1>2, <1>3 DEF IInv, EndedSessionsStayDead, TypeOK
<1>7. MakersDiffer'
  BY <1>2 DEF IInv, MakersDiffer
<1>8. ASSUME NEW k \in Sid
      PROVE  KeyInv(k)'
  <2>1. keys'[k] # None => keys'[k] = keys[k] /\ keys[k].ends \in Int
    BY <1>1, <1>3 DEF TypeOK, Key, Deadline
  <2>2. Ttl \in Int
    BY SessionsAssumption
  <2> QED
    BY <1>1, <1>2, <2>1, <2>2 DEF IInv, KeyInv
<1>9. ASSUME NEW r \in Task
      PROVE  RequestInv(r)'
  <2>1. RequestInv(r) /\ (pc[r] \in Making \cup Using => job[r].sid \in Sid)
    BY RequestTypes
  <2>2. job[r].start \in Int
    BY <1>1 DEF TypeOK, JobType, Time
  <2>3. job[r].start <= now'
    BY <1>1, <2>1, <2>2 DEF RequestInv
  <2>4. \A k \in Sid : keys'[k] \in {keys[k], None}
    BY <1>3
  <2>5. pc[r] = "delIndex" => keys'[job[r].sid] = None
    BY <2>1, <2>4 DEF RequestInv, Using
  <2>6. ASSUME pc[r] \in {"remove", "dropIndex"}, NEW k \in Sid,
               keys'[k] # None, keys'[k].user = job[r].user, ~born[k].raced
        PROVE  pc[r] = "remove" /\ k \in job[r].left
    BY <2>1, <2>4, <2>6 DEF RequestInv
  <2> QED
    BY <1>2, <2>1, <2>3, <2>5, <2>6 DEF RequestInv
<1> QED
  BY <1>5, <1>6, <1>7, <1>8, <1>9 DEF IInv

LEMMA SetActiveInv ==
  ASSUME IInv, SetActive, TypeOK'
  PROVE  IInv'
<1>1. UNCHANGED <<keys, index, given, known, now, pc, job, born, ended>>
  BY DEF SetActive
<1> QED
  BY <1>1 DEF IInv, SessionsAreIndexed, EndedSessionsStayDead, MakersDiffer, KeyInv, RequestInv

-----------------------------------------------------------------------------
(* The theorems.                                                            *)

LEMMA InitInv == Init => IInv
<1> SUFFICES ASSUME Init
             PROVE  IInv
  OBVIOUS
<1>1. now \in Time /\ now = 0
  BY SessionsAssumption DEF Init, Time
<1>2. TypeOK
  BY <1>1, Defaults DEF Init, TypeOK, Steps, Account
<1>3. \A s \in Sid : keys[s] = None
  BY DEF Init
<1>4. \A t \in Task : pc[t] = "idle" /\ job[t].start = 0
  BY Defaults DEF Init
<1>5. SessionsAreIndexed /\ EndedSessionsStayDead /\ ended \subseteq known /\ MakersDiffer
  BY <1>3, <1>4 DEF Init, SessionsAreIndexed, EndedSessionsStayDead, MakersDiffer, Making
<1>6. \A s \in Sid : KeyInv(s)
  BY <1>3 DEF KeyInv
<1>7. \A t \in Task : RequestInv(t)
  BY <1>1, <1>4 DEF RequestInv, Making, Using
<1> QED
  BY <1>2, <1>5, <1>6, <1>7 DEF IInv

LEMMA NextInv == IInv /\ [Next]_vars => IInv'
<1> SUFFICES ASSUME IInv, [Next]_vars
             PROVE  IInv'
  OBVIOUS
<1>1. CASE UNCHANGED vars
  BY <1>1 DEF vars, IInv, TypeOK, SessionsAreIndexed, EndedSessionsStayDead, MakersDiffer,
              KeyInv, RequestInv
<1>2. CASE Tick
  BY <1>2, EnvironmentType, TickInv DEF IInv
<1>3. CASE SetActive
  BY <1>3, EnvironmentType, SetActiveInv DEF IInv
<1>4. ASSUME NEW t \in Task, Step(t)
      PROVE  IInv'
  <2>1. CASE \/ StartLogin(t) \/ StartRegister(t) \/ StartRequest(t) \/ StartLogoutAll(t)
             \/ Commit(t) \/ Fail(t)
    BY <2>1, BeginAndEndInv
  <2>2. CASE Mint(t) \/ Create(t) \/ Respond(t)
    BY <2>2, MintInv, CreateInv, RespondInv
  <2>3. CASE Get(t) \/ Load(t) \/ LogoutGet(t)
    BY <2>3, GetInv, LoadInv, LogoutGetInv
  <2>4. CASE DelGet(t) \/ DelKey(t) \/ DelIndex(t)
    BY <2>4, DelGetInv, DelKeyInv, DelIndexInv
  <2>5. CASE Members(t) \/ Remove(t) \/ DropIndex(t)
    BY <2>5, MembersInv, RemoveInv, DropIndexInv
  <2> QED
    BY <1>4, <2>1, <2>2, <2>3, <2>4, <2>5 DEF Step
<1> QED
  BY <1>1, <1>2, <1>3, <1>4 DEF Next

\* The inductive invariant of the requests that make, use and delete sessions
\* (login.py, session_store.py) holds in every reachable state.
THEOREM Invariant == Spec => []IInv
BY InitInv, NextInv, PTL DEF Spec

\* Keys, indexes and the bookkeeping of requests are always well typed.
THEOREM TypeCorrect == Spec => []TypeOK
<1>1. IInv => TypeOK
  BY DEF IInv
<1> QED
  BY <1>1, Invariant, PTL

\* The index of RedisSessionStore finds every session that was not stored during
\* a logout everywhere, whichever requests stop half-way and however time passes.
THEOREM SessionsStayIndexed == Spec => []SessionsAreIndexed
<1>1. IInv => SessionsAreIndexed
  BY DEF IInv
<1> QED
  BY <1>1, Invariant, PTL

\* No request that was under way when LoginService.logout answered brings the
\* session back.
THEOREM LoggedOutStaysOut == Spec => []EndedSessionsStayDead
<1>1. IInv => EndedSessionsStayDead
  BY DEF IInv
<1> QED
  BY <1>1, Invariant, PTL

\* resolve_user serves no request that comes in after the session's lifetime, as
\* counted from the login and not from the write to Redis.
THEOREM ServedInTime == Spec => ServedWithinLifetime
<1>1. ASSUME IInv, NEW t \in Task, Load(t)
      PROVE  job[t].start < born[job[t].sid].at + Ttl
  BY <1>1, RequestTypes DEF RequestInv, Load
<1>2. IInv /\ [Next]_vars
        => [\A t \in Task : Served(t) /\ Load(t) => job[t].start < born[job[t].sid].at + Ttl]_vars
  BY <1>1
<1> QED
  BY <1>2, Invariant, PTL DEF Spec, ServedWithinLifetime

=============================================================================
