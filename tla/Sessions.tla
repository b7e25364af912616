------------------------------ MODULE Sessions ------------------------------
(***************************************************************************)
(* Auth sessions: RedisSessionStore with its session keys and per-user     *)
(* index, LoginService on top of it, and the requests that log in,         *)
(* register, are authenticated, log out, or log out everywhere.            *)
(*                                                                         *)
(* Redis and PostgreSQL are two stores without a common transaction.  One  *)
(* step is one Redis command (or one MULTI), one SQL statement or one      *)
(* commit, with the Python up to the next one; requests interleave freely. *)
(***************************************************************************)
EXTENDS Integers, FiniteSets

CONSTANTS
  Task,        \* request slots
  User,        \* ids of accounts
  Sid,         \* session ids
  Ops,         \* what requests do
  None,        \* no key, no user, no session
  Ttl,         \* session_ttl_seconds, in ticks
  MaxTime      \* bound on the clock

Operations == {"login", "register", "resolve", "logout", "logoutAll", "setActive"}

Time == 0..MaxTime
Deadline == 0..(MaxTime + Ttl)

Key == [user : User, expires : Deadline, ends : Deadline]
Index == [ids : SUBSET Sid, ends : Deadline]
Account == {"none", "active", "inactive"}

ASSUME SessionsAssumption ==
  /\ Ops \subseteq Operations
  /\ Ttl \in Nat \ {0} /\ MaxTime \in Nat
  /\ None \notin User \cup Sid \cup Key

VARIABLES
  keys,        \* habitflow:session:{sid}: user_id and expires_at, and the end of its TTL
  index,       \* habitflow:user:{user_id}:sessions: the ids, and the end of its TTL
  accounts,    \* committed rows of users: is_active, or no row yet
  given,       \* session ids handed out so far: a uuid4 is never given twice
  known,       \* session ids that a client holds in its cookie
  now,         \* the clock, of the application and of Redis
  pc,          \* the next command of each request
  job,         \* what the request is about
  born,        \* history: when and for whom a session was made, and whether it was
               \* stored during a logout everywhere
  ended        \* history: sessions whose logout has been answered

vars == <<keys, index, accounts, given, known, now, pc, job, born, ended>>

-----------------------------------------------------------------------------

Steps ==
  {"idle", "mint", "create", "respond", "commit", "get", "load", "logoutGet",
   "delGet", "delKey", "delIndex", "members", "remove", "dropIndex"}

NoIndex == [ids |-> {}, ends |-> 0]
NoJob ==
  [op |-> "resolve", user |-> None, sid |-> None, start |-> 0, left |-> {}, target |-> {}]
Unborn == [user |-> None, at |-> 0, raced |-> FALSE]

Init ==
  /\ keys = [s \in Sid |-> None]
  /\ index = [u \in User |-> NoIndex]
  /\ accounts \in [User -> {"none", "active"}]
  /\ given = {} /\ known = {} /\ now = 0
  /\ pc = [t \in Task |-> "idle"]
  /\ job = [t \in Task |-> NoJob]
  /\ born = [s \in Sid |-> Unborn]
  /\ ended = {}

Goto(t, step) == pc' = [pc EXCEPT ![t] = step]

Finish(t) ==
  pc' = [pc EXCEPT ![t] = "idle"] /\ job' = [job EXCEPT ![t] = NoJob]

-----------------------------------------------------------------------------
(* Logging in and registering.                                              *)

\* authenticate: an account that is there and active.
StartLogin(t) ==
  /\ pc[t] = "idle" /\ "login" \in Ops
  /\ \E u \in User :
       /\ accounts[u] = "active"
       /\ job' = [job EXCEPT ![t] = [NoJob EXCEPT !.op = "login", !.user = u]]
  /\ Goto(t, "mint")
  /\ UNCHANGED <<keys, index, accounts, given, known, now, born, ended>>

\* register: the INSERT of the account, which stays uncommitted until after the
\* response; the unique email holds up a second INSERT.
StartRegister(t) ==
  /\ pc[t] = "idle" /\ "register" \in Ops
  /\ \E u \in User :
       /\ accounts[u] = "none"
       /\ \A s \in Task : pc[s] # "idle" /\ job[s].op = "register" => job[s].user # u
       /\ job' = [job EXCEPT ![t] = [NoJob EXCEPT !.op = "register", !.user = u]]
  /\ Goto(t, "mint")
  /\ UNCHANGED <<keys, index, accounts, given, known, now, born, ended>>

\* LoginService.create_session: created_at, expires_at and the id.
Mint(t) ==
  /\ pc[t] = "mint"
  /\ \E s \in Sid \ given :
       /\ given' = given \cup {s}
       /\ job' = [job EXCEPT ![t].sid = s]
       /\ born' = [born EXCEPT ![s] = [user |-> job[t].user, at |-> now, raced |-> FALSE]]
  /\ Goto(t, "create")
  /\ UNCHANGED <<keys, index, accounts, known, now, ended>>

\* A logout everywhere of this user has read the index and not yet dropped it.
LoggingOutAll(u) == \E t \in Task : pc[t] \in {"remove", "dropIndex"} /\ job[t].user = u

\* The command was done but its answer is lost: it will be sent again.
AnswerLost == UNCHANGED <<pc, job, ended>>

\* Mutant: the index gets a TTL only when it is new.
CreateKeepingIndexTtl(t) ==
  /\ pc[t] = "create"
  /\ LET u == job[t].user
         s == job[t].sid
     IN /\ keys' = [keys EXCEPT ![s] =
             [user |-> u, expires |-> born[s].at + Ttl, ends |-> now + Ttl]]
        /\ index' = [index EXCEPT ![u].ids = @ \cup {s},
             ![u].ends = IF index[u].ids = {} THEN now + Ttl ELSE @]
        /\ born' = [born EXCEPT ![s].raced = LoggingOutAll(u)]
  /\ Goto(t, "respond")
  /\ UNCHANGED <<accounts, given, known, now, job, ended>>

\* Mutant: the index lives for two lifetimes.
CreateWithLongIndex(t) ==
  /\ pc[t] = "create"
  /\ LET u == job[t].user
         s == job[t].sid
     IN /\ keys' = [keys EXCEPT ![s] =
             [user |-> u, expires |-> born[s].at + Ttl, ends |-> now + Ttl]]
        /\ index' = [index EXCEPT ![u] = [ids |-> @.ids \cup {s}, ends |-> now + 2 * Ttl]]
        /\ born' = [born EXCEPT ![s].raced = LoggingOutAll(u)]
  /\ Goto(t, "respond")
  /\ UNCHANGED <<accounts, given, known, now, job, ended>>

\* create_session_atomically: SET EX, SADD and EXPIRE in one MULTI, which the client
\* sends again after a timeout.
Create(t) ==
  /\ pc[t] = "create"
  /\ LET u == job[t].user
         s == job[t].sid
     IN /\ keys' = [keys EXCEPT ![s] =
             [user |-> u, expires |-> born[s].at + Ttl, ends |-> now + Ttl]]
        /\ index' = [index EXCEPT ![u] = [ids |-> @.ids \cup {s}, ends |-> now + Ttl]]
        /\ born' = [born EXCEPT ![s].raced = @ \/ LoggingOutAll(u)]
  /\ AnswerLost \/ (Goto(t, "respond") /\ UNCHANGED <<job, ended>>)
  /\ UNCHANGED <<accounts, given, known, now>>

\* The response sets the cookie.  get_db, a request-scoped dependency, commits
\* only once the response is on its way.
Respond(t) ==
  /\ pc[t] = "respond"
  /\ known' = known \cup {job[t].sid}
  /\ Goto(t, "commit")
  /\ UNCHANGED <<keys, index, accounts, given, now, job, born, ended>>

Commit(t) ==
  /\ pc[t] = "commit"
  /\ accounts' = IF job[t].op = "register" THEN [accounts EXCEPT ![job[t].user] = "active"]
                                           ELSE accounts
  /\ Finish(t)
  /\ UNCHANGED <<keys, index, given, known, now, born, ended>>

-----------------------------------------------------------------------------
(* Authenticating a request and logging out.                                *)

\* A request with a cookie: any route, or POST /auth/logout.
StartRequest(t) ==
  /\ pc[t] = "idle"
  /\ \E op \in Ops \cap {"resolve", "logout"}, s \in known :
       job' = [job EXCEPT ![t] = [NoJob EXCEPT !.op = op, !.sid = s, !.start = now]]
  /\ Goto(t, "get")
  /\ UNCHANGED <<keys, index, accounts, given, known, now, born, ended>>

\* Mutant: only the TTL of Redis ends a session.
GetIgnoringExpiry(t) ==
  /\ pc[t] = "get"
  /\ LET key == keys[job[t].sid]
     IN IF key = None THEN Finish(t)
        ELSE job' = [job EXCEPT ![t].user = key.user] /\ Goto(t, "load")
  /\ UNCHANGED <<keys, index, accounts, given, known, now, born, ended>>

\* The request is refused, and its session deleted.
Refuse(t) ==
  Goto(t, "delGet") /\ job' = [job EXCEPT ![t] = [NoJob EXCEPT !.sid = job[t].sid]]

\* resolve_user, the payload: a session past its expires_at is deleted.
Get(t) ==
  /\ pc[t] = "get"
  /\ LET key == keys[job[t].sid]
     IN IF key = None THEN Finish(t)
        ELSE IF key.expires <= now THEN Refuse(t)
        ELSE job' = [job EXCEPT ![t].user = key.user] /\ Goto(t, "load")
  /\ UNCHANGED <<keys, index, accounts, given, known, now, born, ended>>

\* The account is there and active: the request is served as this user.
Served(t) == pc[t] = "load" /\ accounts[job[t].user] = "active"

\* resolve_user, the account: a session without an active account is deleted.
Load(t) ==
  /\ pc[t] = "load"
  /\ IF ~Served(t) THEN Refuse(t)
     ELSE IF job[t].op = "logout" THEN Goto(t, "logoutGet") /\ job' = [job EXCEPT ![t].start = 0]
     ELSE Finish(t)
  /\ UNCHANGED <<keys, index, accounts, given, known, now, born, ended>>

\* The end of delete_session: a refusal, or the answer to a logout.
EndDelete(t) ==
  /\ ended' = IF job[t].op = "logout" THEN ended \cup {job[t].sid} ELSE ended
  /\ Finish(t)

\* LoginService.logout: a session that is gone, or somebody else's, is left alone.
LogoutGet(t) ==
  /\ pc[t] = "logoutGet"
  /\ LET key == keys[job[t].sid]
     IN IF key # None /\ key.user = job[t].user
        THEN Goto(t, "delGet") /\ UNCHANGED <<job, ended>>
        ELSE EndDelete(t)
  /\ UNCHANGED <<keys, index, accounts, given, known, now, born>>

\* delete_session: GET for the owner, DEL of the key, SREM from the owner's index.
DelGet(t) ==
  /\ pc[t] = "delGet"
  /\ LET key == keys[job[t].sid]
     IN job' = [job EXCEPT ![t].user = IF key = None THEN None ELSE key.user]
  /\ Goto(t, "delKey")
  /\ UNCHANGED <<keys, index, accounts, given, known, now, born, ended>>

\* Mutant: a session that is still in the index keeps its key.
DelKeyLast(t) ==
  /\ pc[t] = "delKey"
  /\ keys' = IF job[t].user = None THEN [keys EXCEPT ![job[t].sid] = None] ELSE keys
  /\ IF job[t].user = None THEN EndDelete(t)
     ELSE Goto(t, "delIndex") /\ UNCHANGED <<job, ended>>
  /\ UNCHANGED <<index, accounts, given, known, now, born>>

DelKey(t) ==
  /\ pc[t] = "delKey"
  /\ keys' = [keys EXCEPT ![job[t].sid] = None]
  /\ \/ AnswerLost
     \/ job[t].user = None /\ EndDelete(t)
     \/ job[t].user # None /\ Goto(t, "delIndex") /\ UNCHANGED <<job, ended>>
  /\ UNCHANGED <<index, accounts, given, known, now, born>>

DelIndex(t) ==
  /\ pc[t] = "delIndex"
  /\ index' = [index EXCEPT ![job[t].user].ids = @ \ {job[t].sid}]
  /\ AnswerLost \/ EndDelete(t)
  /\ UNCHANGED <<keys, accounts, given, known, now, born>>

-----------------------------------------------------------------------------
(* Logging out everywhere: delete_user_sessions.                            *)

UserSessions(u) == {s \in Sid : keys[s] # None /\ keys[s].user = u}

StartLogoutAll(t) ==
  /\ pc[t] = "idle" /\ "logoutAll" \in Ops
  /\ \E u \in User :
       job' = [job EXCEPT ![t] = [NoJob EXCEPT !.op = "logoutAll", !.user = u,
                                               !.target = UserSessions(u)]]
  /\ Goto(t, "members")
  /\ UNCHANGED <<keys, index, accounts, given, known, now, born, ended>>

\* SMEMBERS.
Members(t) ==
  /\ pc[t] = "members"
  /\ LET ids == index[job[t].user].ids
     IN /\ job' = [job EXCEPT ![t].left = ids]
        /\ Goto(t, IF ids = {} THEN "dropIndex" ELSE "remove")
  /\ UNCHANGED <<keys, index, accounts, given, known, now, born, ended>>

\* DEL of one session key after the other.
Remove(t) ==
  /\ pc[t] = "remove"
  /\ \E s \in job[t].left :
       /\ keys' = [keys EXCEPT ![s] = None]
       /\ \/ AnswerLost
          \/ /\ job' = [job EXCEPT ![t].left = @ \ {s}]
             /\ Goto(t, IF job[t].left = {s} THEN "dropIndex" ELSE "remove")
             /\ UNCHANGED ended
  /\ UNCHANGED <<index, accounts, given, known, now, born>>

\* DEL of the index, whatever has been added to it since SMEMBERS.
DropIndex(t) ==
  /\ pc[t] = "dropIndex"
  /\ index' = [index EXCEPT ![job[t].user] = NoIndex]
  /\ AnswerLost \/ (Finish(t) /\ UNCHANGED ended)
  /\ UNCHANGED <<keys, accounts, given, known, now, born>>

-----------------------------------------------------------------------------

\* A Redis error after its retries, a lost connection, a crash of the server:
\* get_db rolls back, and what is in Redis stays.
Fail(t) ==
  /\ pc[t] # "idle"
  /\ Finish(t)
  /\ UNCHANGED <<keys, index, accounts, given, known, now, born, ended>>

\* RegistrationService.set_user_active, which no route calls.
SetActive ==
  /\ "setActive" \in Ops
  /\ \E u \in User :
       /\ accounts[u] # "none"
       /\ accounts' = [accounts EXCEPT ![u] = IF @ = "active" THEN "inactive" ELSE "active"]
  /\ UNCHANGED <<keys, index, given, known, now, pc, job, born, ended>>

\* Time passes; Redis drops keys whose TTL is over.
Tick ==
  /\ now < MaxTime
  /\ now' = now + 1
  /\ keys' = [s \in Sid |-> IF keys[s] # None /\ keys[s].ends <= now' THEN None ELSE keys[s]]
  /\ index' = [u \in User |-> IF index[u].ends <= now' THEN NoIndex ELSE index[u]]
  /\ UNCHANGED <<accounts, given, known, pc, job, born, ended>>

Step(t) ==
  \/ StartLogin(t) \/ StartRegister(t) \/ Mint(t) \/ Create(t) \/ Respond(t) \/ Commit(t)
  \/ StartRequest(t) \/ Get(t) \/ Load(t)
  \/ LogoutGet(t) \/ DelGet(t) \/ DelKey(t) \/ DelIndex(t)
  \/ StartLogoutAll(t) \/ Members(t) \/ Remove(t) \/ DropIndex(t)
  \/ Fail(t)

Next == Tick \/ SetActive \/ \E t \in Task : Step(t)

Spec == Init /\ [][Next]_vars

-----------------------------------------------------------------------------

Born == [user : User \cup {None}, at : Time, raced : BOOLEAN]

JobType ==
  [op : Operations, user : User \cup {None}, sid : Sid \cup {None}, start : Time,
   left : SUBSET Sid, target : SUBSET Sid]

TypeOK ==
  /\ keys \in [Sid -> Key \cup {None}]
  /\ index \in [User -> Index]
  /\ accounts \in [User -> Account]
  /\ given \subseteq Sid /\ known \subseteq given /\ ended \subseteq given
  /\ now \in Time
  /\ pc \in [Task -> Steps]
  /\ job \in [Task -> JobType]
  /\ born \in [Sid -> Born]

\* Every session key can be found through its owner's index, which never expires
\* before it, whatever fails half-way; otherwise no logout everywhere could reach
\* it any more.  The one exception is a session stored during a logout everywhere.
SessionsAreIndexed ==
  \A s \in Sid : keys[s] # None /\ ~born[s].raced =>
    s \in index[keys[s].user].ids /\ keys[s].ends <= index[keys[s].user].ends

\* Once a logout has been answered its session is gone for good, although the
\* requests that were using or deleting it go on.
EndedSessionsStayDead == \A s \in ended : keys[s] = None

\* A session serves no request that comes in later than its lifetime after the
\* login, however late its key reached Redis.
ServedWithinLifetime ==
  [][\A t \in Task : Served(t) /\ Load(t) => job[t].start < born[job[t].sid].at + Ttl]_vars

\* The session of an active account that nobody logged out works until its fixed
\* lifetime is over (for runs without logouts and deactivations).
SessionsLiveTheirLifetime ==
  \A s \in known :
    accounts[born[s].user] = "active" /\ now < born[s].at + Ttl => keys[s] # None

\* When delete_user_sessions has finished, no session that was there when it
\* began is left.
LogoutAllEndsSessions ==
  [][\A t \in Task : DropIndex(t) => \A s \in job[t].target : keys[s] = None]_vars

-----------------------------------------------------------------------------
(* The inductive invariant.                                                 *)

\* A request that makes a session has an id no client knows yet; the others
\* work on a session some client knows.
Making == {"create", "respond"}
Using == {"get", "load", "logoutGet", "delGet", "delKey", "delIndex"}

\* What a request has found out stays true while others go on: the owner of its
\* session, that it came in time, that the key it deleted is gone, and, during a logout everywhere,
\* that only the sessions still to be removed, and those stored since, are left.
RequestInv(t) ==
  LET u == job[t].user
      s == job[t].sid
  IN /\ pc[t] \in {"mint", "create", "respond", "commit", "load", "logoutGet", "delIndex",
                    "members", "remove", "dropIndex"} => u \in User
     /\ pc[t] \in Making => s \in given \ known
     /\ pc[t] = "create" => born[s].user = u
     /\ pc[t] \in Using => s \in known
     /\ pc[t] \in {"load", "logoutGet"} => born[s].user = u
     /\ job[t].start <= now
     /\ pc[t] = "load" => job[t].start < born[s].at + Ttl
     /\ pc[t] = "delIndex" => keys[s] = None
     /\ pc[t] \in {"remove", "dropIndex"} =>
          \A k \in Sid : keys[k] # None /\ keys[k].user = u /\ ~born[k].raced =>
            pc[t] = "remove" /\ k \in job[t].left

\* No two requests make the same session.
MakersDiffer ==
  \A t, r \in Task :
    t # r /\ pc[t] \in Making /\ pc[r] \in Making => job[t].sid # job[r].sid

KeyInv(s) ==
  keys[s] # None =>
    /\ s \in given
    /\ keys[s].user = born[s].user
    /\ keys[s].expires = born[s].at + Ttl /\ keys[s].ends <= now + Ttl

IInv ==
  /\ TypeOK /\ SessionsAreIndexed /\ EndedSessionsStayDead
  /\ ended \subseteq known
  /\ MakersDiffer
  /\ \A s \in Sid : KeyInv(s)
  /\ \A t \in Task : RequestInv(t)

=============================================================================
