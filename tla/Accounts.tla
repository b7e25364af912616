------------------------------ MODULE Accounts ------------------------------
(***************************************************************************)
(* The tables users and oauth_accounts on PostgreSQL under READ COMMITTED, *)
(* and the requests that write them: registration, sign-in with Google and *)
(* linking (RegistrationService, OAuthService, AuthRepository), one SQL    *)
(* statement per step.  The only provider is google.                       *)
(***************************************************************************)
EXTENDS Naturals, FiniteSets

CONSTANTS
  Request,       \* request slots
  User,          \* ids of accounts
  Email,         \* normalized addresses
  Identity,      \* accounts of the provider
  None

Row == [email : Email, active : BOOLEAN, password : BOOLEAN]

ASSUME AccountsAssumption ==
  /\ None \notin User \cup Email \cup Identity \cup Row
  /\ IsFiniteSet(User) /\ Cardinality(User) >= Cardinality(Email)

VARIABLES
  users,         \* users[u]: the committed row, or None
  links,         \* links[g]: the user_id of the committed row of the identity, or None
  pc,            \* the next statement of each request
  req,           \* what it is about, and the user it has found
  draft,         \* the rows it has inserted and not committed
  answer         \* what it answers

tables == <<users, links>>

Ops == {"page", "register", "start", "callback", "link"}
Steps ==
  {"idle", "byEmail", "insertAccount", "google", "getLink", "getUser", "insertUser",
   "insertLink", "recoverLink", "recoverUser", "recoverEmail", "getOwn", "insertOwnLink",
   "recoverOwn", "commit", "respond"}
Answers ==
  {"none", "refused", "failed", "signedIn", "emailExists", "otherUser", "inactive",
   "linked", "alreadyLinked", "integrityError"}

NoReq == [op |-> "page", email |-> None, id |-> None, user |-> None]
NoDraft == [user |-> None, row |-> None, id |-> None]

InitAccounts ==
  /\ users = [u \in User |-> None]
  /\ links = [g \in Identity |-> None]
  /\ pc = [r \in Request |-> "idle"]
  /\ req = [r \in Request |-> NoReq]
  /\ draft = [r \in Request |-> NoDraft]
  /\ answer = [r \in Request |-> "none"]

Goto(r, step) == pc' = [pc EXCEPT ![r] = step]

\* A statement that only reads, or a decision, and where it leads.
Proceed(r, step) == Goto(r, step) /\ UNCHANGED <<tables, req, draft, answer>>

\* The handler returns; a sign-in has stored a session before, which may fail.
Answer(r, what) ==
  /\ answer' = [answer EXCEPT ![r] = what]
  /\ Goto(r, IF what \in {"signedIn", "linked"} THEN "commit" ELSE "respond")
  /\ draft' = IF what \in {"signedIn", "linked"} THEN draft ELSE [draft EXCEPT ![r] = NoDraft]
  /\ UNCHANGED <<tables, req>>

-----------------------------------------------------------------------------
(* The unique constraints: an INSERT waits for the uncommitted row that has *)
(* its key, then fails if there is a committed one.                         *)

Others(r) == Request \ {r}

EmailPending(r, e) ==
  \E s \in Others(r) : draft[s].row # None /\ draft[s].row.email = e

LinkPending(r, g, u) ==
  \E s \in Others(r) : draft[s].id # None /\ (draft[s].id = g \/ draft[s].user = u)

EmailTaken(e) == \E u \in User : users[u] # None /\ users[u].email = e

LinkTaken(g, u) == links[g] # None \/ \E other \in Identity : links[other] = u

NewUser(r, e, password) ==
  \E u \in User :
    /\ users[u] = None /\ \A s \in Others(r) : draft[s].user # u
    /\ draft' = [draft EXCEPT ![r] =
                   [user |-> u, id |-> None,
                    row |-> [email |-> e, active |-> TRUE, password |-> password]]]
    /\ req' = [req EXCEPT ![r].user = u]

-----------------------------------------------------------------------------
(* RegistrationService.register.                                            *)

ByEmail(r) ==
  /\ pc[r] = "byEmail"
  /\ IF EmailTaken(req[r].email) THEN Answer(r, "emailExists") ELSE Proceed(r, "insertAccount")

\* After the failed INSERT nothing of this transaction can be committed.
InsertAccount(r) ==
  /\ pc[r] = "insertAccount" /\ ~EmailPending(r, req[r].email)
  /\ \/ EmailTaken(req[r].email) /\ Answer(r, "emailExists")
     \/ /\ ~EmailTaken(req[r].email)
        /\ NewUser(r, req[r].email, TRUE)
        /\ answer' = [answer EXCEPT ![r] = "signedIn"]
        /\ Goto(r, "commit")
        /\ UNCHANGED tables

-----------------------------------------------------------------------------
(* OAuthService.get_or_create_oauth_user.                                   *)

\* Mutant: the id of the user with the provider is taken for the user's.
FindIdentity(r, step) ==
  /\ req' = [req EXCEPT ![r].user = req[r].id]
  /\ Goto(r, step)
  /\ UNCHANGED <<tables, draft, answer>>

Find(r, step) ==
  /\ req' = [req EXCEPT ![r].user = links[req[r].id]]
  /\ Goto(r, step)
  /\ UNCHANGED <<tables, draft, answer>>

\* Mutant: an account with the email of the identity is taken for its own.
GetLinkOrEmail(r) ==
  /\ pc[r] = "getLink"
  /\ \/ \E u \in User :
          /\ users[u] # None /\ users[u].email = req[r].email
          /\ req' = [req EXCEPT ![r].user = u]
          /\ Goto(r, "getUser")
          /\ UNCHANGED <<tables, draft, answer>>
     \/ ~EmailTaken(req[r].email) /\ links[req[r].id] # None /\ Find(r, "getUser")
     \/ ~EmailTaken(req[r].email) /\ links[req[r].id] = None /\ Proceed(r, "insertUser")

GetLink(r) ==
  /\ pc[r] = "getLink"
  /\ \/ req[r].op = "callback" /\ links[req[r].id] # None /\ Find(r, "getUser")
     \/ req[r].op = "callback" /\ links[req[r].id] = None /\ Proceed(r, "insertUser")
     \/ req[r].op = "link" /\ links[req[r].id] = req[r].user /\ Answer(r, "linked")
     \/ /\ req[r].op = "link" /\ links[req[r].id] \notin {None, req[r].user}
        /\ Answer(r, "otherUser")
     \/ req[r].op = "link" /\ links[req[r].id] = None /\ Proceed(r, "getOwn")

GetUser(r) ==
  /\ pc[r] = "getUser"
  /\ Answer(r, IF users[req[r].user].active THEN "signedIn" ELSE "inactive")

\* The savepoint begins: both rows or none of them.
InsertUser(r) ==
  /\ pc[r] = "insertUser" /\ ~EmailPending(r, req[r].email)
  /\ \/ EmailTaken(req[r].email) /\ Proceed(r, "recoverLink")
     \/ /\ ~EmailTaken(req[r].email)
        /\ NewUser(r, req[r].email, FALSE)
        /\ Goto(r, "insertLink")
        /\ UNCHANGED <<tables, answer>>

\* Mutant: no savepoint is rolled back when the link cannot be inserted.
InsertLinkOrGoOn(r) ==
  /\ pc[r] = "insertLink" /\ ~LinkPending(r, req[r].id, req[r].user)
  /\ \/ LinkTaken(req[r].id, req[r].user) /\ Answer(r, "signedIn")
     \/ /\ ~LinkTaken(req[r].id, req[r].user)
        /\ draft' = [draft EXCEPT ![r].id = req[r].id]
        /\ answer' = [answer EXCEPT ![r] = "signedIn"]
        /\ Goto(r, "commit")
        /\ UNCHANGED <<tables, req>>

InsertLink(r) ==
  /\ pc[r] = "insertLink" /\ ~LinkPending(r, req[r].id, req[r].user)
  /\ \/ /\ LinkTaken(req[r].id, req[r].user)
        /\ draft' = [draft EXCEPT ![r] = NoDraft]
        /\ Goto(r, "recoverLink")
        /\ UNCHANGED <<tables, req, answer>>
     \/ /\ ~LinkTaken(req[r].id, req[r].user)
        /\ draft' = [draft EXCEPT ![r].id = req[r].id]
        /\ answer' = [answer EXCEPT ![r] = "signedIn"]
        /\ Goto(r, "commit")
        /\ UNCHANGED <<tables, req>>

\* Mutant: only the email is looked up again.
RecoverWithoutLink(r) == pc[r] = "recoverLink" /\ Proceed(r, "recoverEmail")

RecoverLink(r) ==
  /\ pc[r] = "recoverLink"
  /\ \/ links[req[r].id] # None /\ Find(r, "recoverUser")
     \/ links[req[r].id] = None /\ Proceed(r, "recoverEmail")

\* is_active is not looked at here.
RecoverUser(r) ==
  /\ pc[r] = "recoverUser"
  /\ Answer(r, IF users[req[r].user].email = req[r].email THEN "signedIn" ELSE "otherUser")

RecoverEmail(r) ==
  /\ pc[r] = "recoverEmail"
  /\ Answer(r, IF EmailTaken(req[r].email) THEN "emailExists" ELSE "integrityError")

-----------------------------------------------------------------------------
(* OAuthService.link_oauth_account_for_user, which no route calls yet.      *)

GetOwn(r) ==
  /\ pc[r] = "getOwn"
  /\ LET own == {g \in Identity : links[g] = req[r].user}
     IN \/ own = {} /\ Proceed(r, "insertOwnLink")
        \/ own = {req[r].id} /\ Answer(r, "linked")
        \/ own \notin {{}, {req[r].id}} /\ Answer(r, "alreadyLinked")

InsertOwnLink(r) ==
  /\ pc[r] = "insertOwnLink" /\ ~LinkPending(r, req[r].id, req[r].user)
  /\ \/ LinkTaken(req[r].id, req[r].user) /\ Proceed(r, "recoverOwn")
     \/ /\ ~LinkTaken(req[r].id, req[r].user)
        /\ draft' = [draft EXCEPT ![r].user = req[r].user, ![r].id = req[r].id]
        /\ answer' = [answer EXCEPT ![r] = "linked"]
        /\ Goto(r, "commit")
        /\ UNCHANGED <<tables, req>>

RecoverOwn(r) ==
  /\ pc[r] = "recoverOwn"
  /\ Answer(r, CASE links[req[r].id] = req[r].user -> "linked"
                 [] links[req[r].id] = None        -> "integrityError"
                 [] OTHER                          -> "otherUser")

-----------------------------------------------------------------------------
(* The end of the transaction, and what happens outside of requests.        *)

Commit(r) ==
  /\ pc[r] = "commit"
  /\ users' = IF draft[r].row = None THEN users
              ELSE [users EXCEPT ![draft[r].user] = draft[r].row]
  /\ links' = IF draft[r].id = None THEN links
              ELSE [links EXCEPT ![draft[r].id] = draft[r].user]
  /\ draft' = [draft EXCEPT ![r] = NoDraft]
  /\ Goto(r, "respond")
  /\ UNCHANGED <<req, answer>>

\* RegistrationService.set_user_active, called by nothing but an operator.
SetActive ==
  \E u \in User, active \in BOOLEAN :
    /\ users[u] # None
    /\ users' = [users EXCEPT ![u].active = active]
    /\ UNCHANGED <<links, pc, req, draft, answer>>

Statement(r) ==
  \/ ByEmail(r) \/ InsertAccount(r)
  \/ GetLink(r) \/ GetUser(r) \/ InsertUser(r) \/ InsertLink(r)
  \/ RecoverLink(r) \/ RecoverUser(r) \/ RecoverEmail(r)
  \/ GetOwn(r) \/ InsertOwnLink(r) \/ RecoverOwn(r)
  \/ Commit(r)

=============================================================================
