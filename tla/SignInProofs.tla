---------------------------- MODULE SignInProofs ----------------------------
(***************************************************************************)
(* Theorems about SignIn, for any number of requests, accounts, addresses  *)
(* and identities: the tables implement the registry, lost races are       *)
(* explained, everybody is signed in as who they are, nobody waits in a    *)
(* circle, and responses keep what other pages need.                       *)
(***************************************************************************)
EXTENDS SignIn, TLAPS

(* The inductive invariant: what the constraints guarantee about committed  *)
(* and uncommitted rows, and what a request has found out.                  *)

EmailsDiffer ==
  \A u, v \in User :
    u # v /\ users[u] # None /\ users[v] # None => users[u].email # users[v].email

LinksDiffer == \A g, h \in Identity : g # h /\ links[g] # None => links[g] # links[h]

LinkedUsersExist == \A g \in Identity : links[g] # None => users[links[g]] # None

\* An uncommitted row is one that the committed rows leave room for; a new account
\* has the way in that its request is about.
DraftFits(r) ==
  LET d == draft[r]
      q == req[r]
  IN /\ d = NoDraft \/ d.row # None \/ d.id # None
     /\ d # NoDraft => pc[r] \in {"insertLink", "commit"} /\ d.user = q.user /\ q.user \in User
     /\ pc[r] = "insertLink" => d.row # None /\ d.id = None
     /\ d.row # None =>
          /\ users[q.user] = None /\ ~EmailTaken(d.row.email)
          /\ d.row = [email |-> d.row.email, active |-> TRUE, password |-> q.op = "register"]
          /\ q.op \in {"register", "callback"}
          /\ q.op = "register" => d.id = None
          /\ q.op = "callback" /\ pc[r] = "commit" => d.id # None
     /\ d.id # None =>
          /\ d.id = q.id /\ q.id \in Identity /\ ~LinkTaken(q.id, q.user)
          /\ pc[r] = "commit"
          /\ d.row = None => q.op = "link" /\ users[q.user] # None

\* Each step belongs to some kinds of requests, which know what it needs.
StepFits(r) ==
  LET q == req[r]
  IN /\ pc[r] = "idle" => q.op = "page"
     /\ pc[r] \in {"byEmail", "insertAccount"} => q.op = "register"
     /\ pc[r] \in {"google", "getUser", "insertUser", "insertLink", "recoverLink",
                   "recoverUser", "recoverEmail"} => q.op = "callback"
     /\ pc[r] = "getLink" => q.op \in {"callback", "link"}
     /\ pc[r] \in {"getOwn", "insertOwnLink", "recoverOwn"} => q.op = "link"
     /\ pc[r] = "commit" => q.op \in {"register", "callback", "link"}
     /\ q.op = "register" => q.email \in Email
     /\ q.op = "callback" /\ pc[r] \notin {"google", "respond"} =>
          q.email \in Email /\ q.id \in Identity
     /\ q.op = "link" => q.id \in Identity /\ q.user \in User /\ users[q.user] # None

\* Rows that a request has found, or whose constraint it has met, stay.
FoundFits(r) ==
  LET q == req[r]
  IN /\ pc[r] \in {"getUser", "recoverUser"} => links[q.id] = q.user /\ q.user # None
     /\ pc[r] = "recoverLink" => EmailTaken(q.email) \/ links[q.id] # None
     /\ pc[r] = "recoverEmail" => EmailTaken(q.email)
     /\ pc[r] = "recoverOwn" => LinkTaken(q.id, q.user)

AnswerFits(r) ==
  LET q == req[r]
  IN /\ answer[r] # "none" => pc[r] \in {"commit", "respond"}
     /\ answer[r] = "integrityError" =>
          q.op = "link" /\ \E g \in Identity \ {q.id} : links[g] = q.user
     /\ q.op = "callback" /\ answer[r] = "signedIn" =>
          \/ pc[r] = "commit" /\ draft[r] # NoDraft
          \/ q.id \in Identity /\ links[q.id] = q.user /\ q.user # None

RequestInv(r) == DraftFits(r) /\ StepFits(r) /\ FoundFits(r) /\ AnswerFits(r)

\* Two uncommitted rows never have one key.
DraftsDiffer(r, s) ==
  LET d == draft[r]
      e == draft[s]
  IN /\ d.row # None /\ e.row # None => d.user # e.user /\ d.row.email # e.row.email
     /\ d.id # None /\ e.id # None => d.id # e.id /\ d.user # e.user

\* A handler changes only the flow in its copy of the session.
CopyFits(r) ==
  /\ copy[r].csrf = took[r].csrf
  /\ req[r].op \notin {"start", "callback"} => copy[r].oauth = took[r].oauth

ReqType ==
  [op : Ops, email : Email \cup {None}, id : Identity \cup {None}, user : User \cup {None}]

DraftType == [user : User \cup {None}, row : Row \cup {None}, id : Identity \cup {None}]

TablesType == users \in [User -> Row \cup {None}] /\ links \in [Identity -> User \cup {None}]

SlotsType ==
  /\ pc \in [Request -> Steps] /\ req \in [Request -> ReqType]
  /\ draft \in [Request -> DraftType] /\ answer \in [Request -> Answers]

AccountsInv ==
  /\ TablesType /\ SlotsType
  /\ EmailsDiffer /\ LinksDiffer /\ LinkedUsersExist
  /\ \A r \in Request : RequestInv(r)
  /\ \A r, s \in Request : r # s => DraftsDiffer(r, s)

SessionInv ==
  /\ jar \in UiSession
  /\ took \in [Request -> UiSession] /\ copy \in [Request -> UiSession]
  /\ \A r \in Request : CopyFits(r)

IInv == AccountsInv /\ SessionInv

-----------------------------------------------------------------------------
(* Types.                                                                   *)

LEMMA Defaults ==
  /\ None \notin User /\ None \notin Email /\ None \notin Identity /\ None \notin Row
  /\ NoReq \in ReqType /\ NoDraft \in DraftType
  /\ NoDraft.row = None /\ NoDraft.id = None /\ NoDraft.user = None
  /\ NoReq.op = "page" /\ Empty \in UiSession
BY AccountsAssumption DEF NoReq, NoDraft, ReqType, DraftType, Ops, Empty, UiSession

LEMMA InvIsTyped == IInv => TypeOK
BY DEF IInv, AccountsInv, SessionInv, TablesType, SlotsType, ReqType, DraftType, TypeOK

LEMMA SlotTypes ==
  ASSUME AccountsInv, NEW r \in Request
  PROVE  /\ RequestInv(r)
         /\ pc[r] \in Steps /\ req[r] \in ReqType /\ draft[r] \in DraftType
         /\ answer[r] \in Answers /\ req[r].op \in Ops
         /\ pc[r] \notin {"insertLink", "commit"} => draft[r] = NoDraft
         /\ pc[r] \notin {"commit", "respond"} => answer[r] = "none"
BY DEF AccountsInv, SlotsType, ReqType, RequestInv, DraftFits, AnswerFits

-----------------------------------------------------------------------------
(* Steps that leave the tables alone.                                       *)

Frame(r) ==
  /\ UNCHANGED tables
  /\ pc' = [pc EXCEPT ![r] = pc'[r]] /\ req' = [req EXCEPT ![r] = req'[r]]
  /\ draft' = [draft EXCEPT ![r] = draft'[r]] /\ answer' = [answer EXCEPT ![r] = answer'[r]]

LEMMA LocalStep ==
  ASSUME AccountsInv, NEW r \in Request, Frame(r),
         pc'[r] \in Steps, req'[r] \in ReqType, draft'[r] \in DraftType, answer'[r] \in Answers,
         RequestInv(r)', \A s \in Request \ {r} : DraftsDiffer(r, s)'
  PROVE  AccountsInv'
<1>1. UNCHANGED <<users, links>>
  BY DEF Frame, tables
<1>2. TablesType' /\ SlotsType' /\ EmailsDiffer' /\ LinksDiffer' /\ LinkedUsersExist'
  BY <1>1 DEF Frame, AccountsInv, TablesType, SlotsType, EmailsDiffer, LinksDiffer,
              LinkedUsersExist
<1>3. \A s \in Request \ {r} : /\ pc'[s] = pc[s] /\ req'[s] = req[s]
                               /\ draft'[s] = draft[s] /\ answer'[s] = answer[s]
  BY DEF Frame, AccountsInv, SlotsType
<1>4. ASSUME NEW s \in Request \ {r} PROVE RequestInv(s)'
  BY <1>1, <1>3, <1>4
  DEF AccountsInv, RequestInv, DraftFits, StepFits, FoundFits, AnswerFits, EmailTaken, LinkTaken
<1>5. ASSUME NEW s \in Request, NEW q \in Request, s # q PROVE DraftsDiffer(s, q)'
  <2>1. CASE s # r /\ q # r
    BY <1>3, <1>5, <2>1 DEF AccountsInv, DraftsDiffer
  <2>2. CASE s = r
    BY <1>5, <2>2
  <2>3. CASE q = r
    BY <1>5, <2>3 DEF DraftsDiffer
  <2> QED
    BY <2>1, <2>2, <2>3
<1> QED
  BY <1>2, <1>4, <1>5 DEF AccountsInv

\* A step that leaves nothing uncommitted.
LEMMA QuietStep ==
  ASSUME AccountsInv, NEW r \in Request, Frame(r),
         pc'[r] \in Steps, req'[r] \in ReqType, answer'[r] \in Answers,
         draft'[r] = NoDraft, pc'[r] # "insertLink",
         StepFits(r)', FoundFits(r)', AnswerFits(r)'
  PROVE  AccountsInv'
<1>1. DraftFits(r)'
  BY Defaults DEF DraftFits
<1>2. \A s \in Request \ {r} : DraftsDiffer(r, s)'
  BY Defaults DEF DraftsDiffer
<1> QED
  BY <1>1, <1>2, LocalStep, Defaults DEF RequestInv

LEMMA BeginStep ==
  ASSUME AccountsInv, NEW r \in Request, NEW op, NEW email, NEW step, NEW session_,
         Begin(r, op, email, step, session_),
         \/ UNCHANGED answer
         \/ step = "respond" /\ answer' = [answer EXCEPT ![r] = "refused"],
         <<op, step>> \in {<<"page", "respond">>, <<"register", "byEmail">>, <<"start", "respond">>,
                           <<"callback", "google">>, <<"callback", "respond">>},
         email \in Email \cup {None}, op = "register" => email \in Email
  PROVE  AccountsInv'
<1>1. pc[r] = "idle" /\ draft[r] = NoDraft /\ answer[r] = "none"
  BY SlotTypes DEF Begin
<1>2. /\ Frame(r) /\ pc'[r] = step /\ draft'[r] = NoDraft
      /\ req'[r] = [NoReq EXCEPT !.op = op, !.email = email]
      /\ answer'[r] = "none" \/ (step = "respond" /\ answer'[r] = "refused")
  BY <1>1 DEF Begin, Goto, Frame, tables, AccountsInv, SlotsType
<1>3. req'[r] \in ReqType /\ req'[r].op = op /\ req'[r].email = email
  BY <1>2, Defaults DEF ReqType, NoReq, Ops
<1>4. StepFits(r)' /\ FoundFits(r)' /\ AnswerFits(r)'
  BY <1>2, <1>3 DEF StepFits, FoundFits, AnswerFits
<1> QED
  BY <1>2, <1>3, <1>4, QuietStep DEF Steps, Answers

\* A statement that finds something and goes on.
LEMMA ProceedStep ==
  ASSUME AccountsInv, NEW r \in Request, NEW step \in Steps, Proceed(r, step),
         pc[r] \notin {"insertLink", "commit", "respond"},
         step \notin {"insertLink", "commit", "respond", "idle"},
         \A q : q = req[r] =>
           /\ step \in {"byEmail", "insertAccount"} => q.op = "register"
           /\ step \in {"google", "getUser", "insertUser", "insertLink", "recoverLink",
                        "recoverUser", "recoverEmail"} => q.op = "callback"
           /\ step = "getLink" => q.op \in {"callback", "link"}
           /\ step \in {"getOwn", "insertOwnLink", "recoverOwn"} => q.op = "link"
           /\ step \notin {"getUser", "recoverUser"}
           /\ step = "recoverLink" => EmailTaken(q.email) \/ links[q.id] # None
           /\ step = "recoverEmail" => EmailTaken(q.email)
           /\ step = "recoverOwn" => LinkTaken(q.id, q.user),
         pc[r] # "google"
  PROVE  AccountsInv'
<1>1. RequestInv(r) /\ draft[r] = NoDraft /\ answer[r] = "none" /\ req[r] \in ReqType
  BY SlotTypes
<1>2. /\ Frame(r) /\ pc'[r] = step /\ draft'[r] = NoDraft /\ req'[r] = req[r]
      /\ answer'[r] = "none" /\ UNCHANGED <<users, links>>
  BY <1>1 DEF Proceed, Goto, Frame, tables, AccountsInv, SlotsType
<1>3. StepFits(r)' /\ AnswerFits(r)'
  BY <1>1, <1>2 DEF RequestInv, StepFits, AnswerFits
<1>4. FoundFits(r)'
  BY <1>1, <1>2 DEF FoundFits, EmailTaken, LinkTaken
<1> QED
  BY <1>1, <1>2, <1>3, <1>4, QuietStep DEF Answers

LEMMA AnswerStep ==
  ASSUME AccountsInv, NEW r \in Request, NEW what \in Answers \ {"none"}, Answer(r, what),
         pc[r] \notin {"idle", "insertLink", "commit", "respond", "google"},
         what = "integrityError" =>
           req[r].op = "link" /\ \E g \in Identity \ {req[r].id} : links[g] = req[r].user,
         req[r].op = "callback" /\ what = "signedIn" =>
           req[r].id \in Identity /\ links[req[r].id] = req[r].user /\ req[r].user # None
  PROVE  AccountsInv'
<1>1. RequestInv(r) /\ draft[r] = NoDraft /\ req[r] \in ReqType
  BY SlotTypes
<1>2. /\ Frame(r) /\ pc'[r] \in {"commit", "respond"} /\ draft'[r] = NoDraft
      /\ req'[r] = req[r] /\ answer'[r] = what /\ UNCHANGED <<users, links>>
  BY <1>1 DEF Answer, Goto, Frame, tables, AccountsInv, SlotsType
<1>3. StepFits(r)'
  BY <1>1, <1>2, SlotTypes DEF RequestInv, StepFits, Ops, Steps
<1>4. AnswerFits(r)' /\ FoundFits(r)'
  BY <1>2 DEF AnswerFits, FoundFits
<1> QED
  BY <1>1, <1>2, <1>3, <1>4, QuietStep DEF Steps

-----------------------------------------------------------------------------
(* The statements that read.                                                *)

LEMMA ByEmailInv ==
  ASSUME AccountsInv, NEW r \in Request, ByEmail(r)
  PROVE  AccountsInv'
<1>1. RequestInv(r) /\ pc[r] = "byEmail" /\ req[r].op = "register"
  BY SlotTypes DEF ByEmail, RequestInv, StepFits
<1>2. CASE EmailTaken(req[r].email)
  BY <1>1, <1>2, AnswerStep DEF ByEmail, Answers
<1>3. CASE ~EmailTaken(req[r].email)
  BY <1>1, <1>3, ProceedStep DEF ByEmail, Steps
<1> QED
  BY <1>2, <1>3

\* The account of an identity is looked up and found.
LEMMA FindStep ==
  ASSUME AccountsInv, NEW r \in Request, NEW step, Find(r, step),
         <<pc[r], step>> \in {<<"getLink", "getUser">>, <<"recoverLink", "recoverUser">>},
         req[r].op = "callback", links[req[r].id] # None
  PROVE  AccountsInv'
<1>1. /\ RequestInv(r) /\ draft[r] = NoDraft /\ answer[r] = "none" /\ req[r] \in ReqType
      /\ req[r].id \in Identity
  BY SlotTypes DEF RequestInv, StepFits
<1>2. links[req[r].id] \in User
  BY <1>1 DEF AccountsInv, TablesType
<1>3. /\ Frame(r) /\ pc'[r] = step /\ draft'[r] = NoDraft /\ answer'[r] = "none"
      /\ req'[r] = [req[r] EXCEPT !.user = links[req[r].id]] /\ UNCHANGED <<users, links>>
  BY <1>1 DEF Find, Goto, Frame, tables, AccountsInv, SlotsType
<1>4. /\ req'[r] \in ReqType /\ req'[r].op = "callback" /\ req'[r].id = req[r].id
      /\ req'[r].email = req[r].email /\ req'[r].user = links[req[r].id]
  BY <1>1, <1>2, <1>3 DEF ReqType
<1>5. StepFits(r)' /\ FoundFits(r)' /\ AnswerFits(r)'
  BY <1>1, <1>2, <1>3, <1>4, Defaults DEF RequestInv, StepFits, FoundFits, AnswerFits
<1> QED
  BY <1>3, <1>4, <1>5, QuietStep DEF Steps, Answers

LEMMA GetLinkInv ==
  ASSUME AccountsInv, NEW r \in Request, GetLink(r)
  PROVE  AccountsInv'
<1>1. RequestInv(r) /\ pc[r] = "getLink"
  BY SlotTypes DEF GetLink
<1>2. CASE req[r].op = "callback" /\ links[req[r].id] # None /\ Find(r, "getUser")
  BY <1>1, <1>2, FindStep
<1>3. CASE req[r].op = "callback" /\ Proceed(r, "insertUser")
  BY <1>1, <1>3, ProceedStep DEF Steps
<1>4. CASE req[r].op = "link" /\ Proceed(r, "getOwn")
  BY <1>1, <1>4, ProceedStep DEF Steps
<1>5. CASE req[r].op = "link" /\ Answer(r, "linked")
  BY <1>1, <1>5, AnswerStep DEF Answers
<1>6. CASE req[r].op = "link" /\ Answer(r, "otherUser")
  BY <1>1, <1>6, AnswerStep DEF Answers
<1> QED
  BY <1>2, <1>3, <1>4, <1>5, <1>6 DEF GetLink

LEMMA GetUserInv ==
  ASSUME AccountsInv, NEW r \in Request, GetUser(r)
  PROVE  AccountsInv'
<1>1. /\ pc[r] = "getUser" /\ req[r].id \in Identity
      /\ links[req[r].id] = req[r].user /\ req[r].user # None
  BY SlotTypes DEF GetUser, RequestInv, StepFits, FoundFits
<1>2. PICK what \in {"signedIn", "inactive"} : Answer(r, what)
  BY DEF GetUser
<1> QED
  BY <1>1, <1>2, AnswerStep DEF Answers

LEMMA RecoverLinkInv ==
  ASSUME AccountsInv, NEW r \in Request, RecoverLink(r)
  PROVE  AccountsInv'
<1>1. RequestInv(r) /\ pc[r] = "recoverLink" /\ req[r].op = "callback"
  BY SlotTypes DEF RecoverLink, RequestInv, StepFits
<1>2. CASE links[req[r].id] # None /\ Find(r, "recoverUser")
  BY <1>1, <1>2, FindStep
<1>3. CASE links[req[r].id] = None /\ Proceed(r, "recoverEmail")
  BY <1>1, <1>3, ProceedStep DEF Steps, RequestInv, FoundFits
<1> QED
  BY <1>2, <1>3 DEF RecoverLink

LEMMA RecoverUserInv ==
  ASSUME AccountsInv, NEW r \in Request, RecoverUser(r)
  PROVE  AccountsInv'
<1>1. /\ pc[r] = "recoverUser" /\ req[r].id \in Identity
      /\ links[req[r].id] = req[r].user /\ req[r].user # None
  BY SlotTypes DEF RecoverUser, RequestInv, StepFits, FoundFits
<1>2. PICK what \in {"signedIn", "otherUser"} : Answer(r, what)
  BY DEF RecoverUser
<1> QED
  BY <1>1, <1>2, AnswerStep DEF Answers

LEMMA RecoverEmailInv ==
  ASSUME AccountsInv, NEW r \in Request, RecoverEmail(r)
  PROVE  AccountsInv'
<1>1. pc[r] = "recoverEmail" /\ EmailTaken(req[r].email)
  BY SlotTypes DEF RecoverEmail, RequestInv, FoundFits
<1>2. Answer(r, "emailExists")
  BY <1>1 DEF RecoverEmail
<1> QED
  BY <1>1, <1>2, AnswerStep DEF Answers

LEMMA GetOwnInv ==
  ASSUME AccountsInv, NEW r \in Request, GetOwn(r)
  PROVE  AccountsInv'
<1>1. RequestInv(r) /\ pc[r] = "getOwn" /\ req[r].op = "link"
  BY SlotTypes DEF GetOwn, RequestInv, StepFits
<1>2. CASE Proceed(r, "insertOwnLink")
  BY <1>1, <1>2, ProceedStep DEF Steps
<1>3. CASE Answer(r, "linked") \/ Answer(r, "alreadyLinked")
  BY <1>1, <1>3, AnswerStep DEF Answers
<1> QED
  BY <1>2, <1>3 DEF GetOwn

\* The constraint that was met is that of the identity or of the user.
LEMMA RecoverOwnInv ==
  ASSUME AccountsInv, NEW r \in Request, RecoverOwn(r)
  PROVE  AccountsInv'
<1>1. /\ pc[r] = "recoverOwn" /\ req[r].op = "link" /\ LinkTaken(req[r].id, req[r].user)
      /\ req[r].id \in Identity /\ req[r].user \in User
  BY SlotTypes DEF RecoverOwn, RequestInv, StepFits, FoundFits
<1>2. CASE links[req[r].id] = req[r].user
  <2>1. Answer(r, "linked")
    BY <1>1, <1>2, Defaults DEF RecoverOwn
  <2> QED
    BY <1>1, <2>1, AnswerStep DEF Answers
<1>3. CASE links[req[r].id] = None
  <2>1. Answer(r, "integrityError")
    BY <1>1, <1>3, Defaults DEF RecoverOwn
  <2>2. \E g \in Identity \ {req[r].id} : links[g] = req[r].user
    BY <1>1, <1>3, Defaults DEF LinkTaken
  <2> QED
    BY <1>1, <2>1, <2>2, AnswerStep DEF Answers
<1>4. CASE links[req[r].id] \notin {None, req[r].user}
  <2>1. Answer(r, "otherUser")
    BY <1>1, <1>4 DEF RecoverOwn
  <2> QED
    BY <1>1, <2>1, AnswerStep DEF Answers
<1> QED
  BY <1>2, <1>3, <1>4

-----------------------------------------------------------------------------
(* The statements that insert.                                              *)

\* A row of a new user: nobody has its email, committed or not.
LEMMA NewUserStep ==
  ASSUME AccountsInv, NEW r \in Request, NEW step, NEW password \in BOOLEAN, NEW what,
         NewUser(r, req[r].email, password), Goto(r, step), UNCHANGED tables,
         answer' = [answer EXCEPT ![r] = what],
         ~EmailPending(r, req[r].email), ~EmailTaken(req[r].email),
         \/ pc[r] = "insertAccount" /\ password /\ step = "commit" /\ what = "signedIn"
         \/ pc[r] = "insertUser" /\ ~password /\ step = "insertLink" /\ what = answer[r]
  PROVE  AccountsInv'
<1>1. /\ RequestInv(r) /\ draft[r] = NoDraft /\ answer[r] = "none" /\ req[r] \in ReqType
      /\ req[r].email \in Email
      /\ pc[r] = "insertAccount" => req[r].op = "register"
      /\ pc[r] = "insertUser" => req[r].op = "callback" /\ req[r].id \in Identity
  BY SlotTypes DEF RequestInv, StepFits
<1> DEFINE row == [email |-> req[r].email, active |-> TRUE, password |-> password]
<1>2. PICK u \in User :
        /\ users[u] = None /\ \A s \in Others(r) : draft[s].user # u
        /\ draft' = [draft EXCEPT ![r] = [user |-> u, id |-> None, row |-> row]]
        /\ req' = [req EXCEPT ![r].user = u]
  BY DEF NewUser
<1>3. /\ row \in Row /\ row # None /\ row.email = req[r].email
      /\ row = [email |-> row.email, active |-> TRUE, password |-> req[r].op = "register"]
  <2>1. password = (req[r].op = "register")
    BY <1>1
  <2>2. row = [email |-> req[r].email, active |-> TRUE, password |-> req[r].op = "register"]
    BY <2>1, Zenon
  <2>3. row \in Row
    BY <1>1, <2>2 DEF Row
  <2> QED
    BY <2>2, <2>3, Defaults
<1> HIDE DEF row
<1>4. /\ Frame(r) /\ pc'[r] = step /\ answer'[r] = what /\ UNCHANGED <<users, links>>
      /\ draft'[r] = [user |-> u, id |-> None, row |-> row]
      /\ req'[r] = [req[r] EXCEPT !.user = u]
  BY <1>2 DEF Goto, Frame, tables, AccountsInv, SlotsType
<1>5. /\ req'[r] \in ReqType /\ req'[r].op = req[r].op /\ req'[r].id = req[r].id
      /\ req'[r].email = req[r].email /\ req'[r].user = u
  BY <1>1, <1>2, <1>4 DEF ReqType
<1>6. /\ draft'[r] \in DraftType /\ draft'[r].user = u /\ draft'[r].row = row
      /\ draft'[r].id = None /\ draft'[r] # NoDraft
  <2>1. /\ draft'[r] \in DraftType /\ draft'[r].user = u /\ draft'[r].row = row
        /\ draft'[r].id = None
    BY <1>3, <1>4 DEF DraftType
  <2> QED
    BY <1>3, <2>1, Defaults
<1>7. DraftFits(r)'
  <2>1. /\ draft'[r].user = req'[r].user /\ req'[r].user \in User
        /\ pc'[r] \in {"insertLink", "commit"}
    BY <1>2, <1>4, <1>5, <1>6
  <2>2. users'[req'[r].user] = None /\ ~EmailTaken(draft[r].row.email)'
    <3>1. users'[req'[r].user] = None
      BY <1>2, <1>4, <1>5
    <3>2. draft'[r].row.email = req[r].email
      BY <1>3, <1>6
    <3> QED
      BY <1>4, <3>1, <3>2 DEF EmailTaken
  <2>3. draft'[r].row = [email |-> draft'[r].row.email, active |-> TRUE,
                         password |-> req'[r].op = "register"]
    BY <1>3, <1>5, <1>6
  <2>4. /\ req'[r].op \in {"register", "callback"}
        /\ req'[r].op = "callback" => pc'[r] = "insertLink"
    BY <1>1, <1>4, <1>5
  <2> QED
    BY <1>3, <1>6, <2>1, <2>2, <2>3, <2>4 DEF DraftFits
<1>8. StepFits(r)' /\ FoundFits(r)'
  <2>1. \/ pc'[r] = "commit" /\ req'[r].op = "register"
        \/ pc'[r] = "insertLink" /\ req'[r].op = "callback"
    BY <1>1, <1>4, <1>5
  <2> QED
    BY <1>1, <1>5, <2>1 DEF StepFits, FoundFits
<1>9. AnswerFits(r)'
  BY <1>1, <1>4, <1>5, <1>6 DEF AnswerFits
<1>10. ASSUME NEW s \in Request \ {r} PROVE DraftsDiffer(r, s)'
  <2>1. draft'[s] = draft[s]
    BY <1>2, <1>10 DEF AccountsInv, SlotsType
  <2>2. draft[s].row # None => draft[s].row.email # req[r].email
    BY <1>10 DEF EmailPending, Others
  <2>3. draft[s].user # u
    BY <1>2, <1>10 DEF Others
  <2> QED
    BY <1>3, <1>6, <2>1, <2>2, <2>3 DEF DraftsDiffer
<1> QED
  BY <1>1, <1>4, <1>5, <1>6, <1>7, <1>8, <1>9, <1>10, LocalStep DEF RequestInv, Steps, Answers

LEMMA InsertAccountInv ==
  ASSUME AccountsInv, NEW r \in Request, InsertAccount(r)
  PROVE  AccountsInv'
<1>1. RequestInv(r) /\ pc[r] = "insertAccount" /\ req[r].op = "register"
  BY SlotTypes DEF InsertAccount, RequestInv, StepFits
<1>2. CASE Answer(r, "emailExists")
  BY <1>1, <1>2, AnswerStep DEF Answers
<1>3. CASE ~EmailTaken(req[r].email)
  BY <1>1, <1>3, NewUserStep, Zenon DEF InsertAccount
<1> QED
  BY <1>2, <1>3 DEF InsertAccount

LEMMA InsertUserInv ==
  ASSUME AccountsInv, NEW r \in Request, InsertUser(r)
  PROVE  AccountsInv'
<1>1. RequestInv(r) /\ pc[r] = "insertUser" /\ req[r].op = "callback"
  BY SlotTypes DEF InsertUser, RequestInv, StepFits
<1>2. CASE EmailTaken(req[r].email)
  <2>1. Proceed(r, "recoverLink")
    BY <1>2 DEF InsertUser
  <2> QED
    BY <1>1, <1>2, <2>1, ProceedStep DEF Steps
<1>3. CASE ~EmailTaken(req[r].email)
  <2>1. answer' = [answer EXCEPT ![r] = answer[r]]
    BY <1>3 DEF InsertUser, AccountsInv, SlotsType
  <2> QED
    BY <1>1, <1>3, <2>1, NewUserStep, Zenon DEF InsertUser
<1> QED
  BY <1>2, <1>3

\* A link of a user: nobody has its identity or its user, committed or not.
LEMMA NewLinkStep ==
  ASSUME AccountsInv, NEW r \in Request, NEW what \in {"signedIn", "linked"},
         draft' = [draft EXCEPT ![r] = draft'[r]],
         draft'[r] = [user |-> req[r].user, row |-> draft[r].row, id |-> req[r].id],
         answer' = [answer EXCEPT ![r] = what], Goto(r, "commit"), UNCHANGED <<tables, req>>,
         ~LinkPending(r, req[r].id, req[r].user), ~LinkTaken(req[r].id, req[r].user),
         \/ pc[r] = "insertLink"
         \/ pc[r] = "insertOwnLink"
  PROVE  AccountsInv'
<1>1. /\ RequestInv(r) /\ draft[r] \in DraftType /\ req[r] \in ReqType
      /\ req[r].id \in Identity /\ req[r].user \in User
      /\ pc[r] = "insertLink" =>
           req[r].op = "callback" /\ draft[r].row # None /\ draft[r].user = req[r].user
      /\ pc[r] = "insertOwnLink" =>
           req[r].op = "link" /\ draft[r] = NoDraft /\ users[req[r].user] # None
  BY SlotTypes, Defaults DEF RequestInv, StepFits, DraftFits
<1>2. /\ Frame(r) /\ pc'[r] = "commit" /\ answer'[r] = what /\ UNCHANGED <<users, links>>
      /\ req'[r] = req[r]
      /\ draft'[r] = [user |-> req[r].user, row |-> draft[r].row, id |-> req[r].id]
  BY DEF Goto, Frame, tables, AccountsInv, SlotsType
<1>3. /\ draft'[r] \in DraftType /\ draft'[r].row = draft[r].row
      /\ draft'[r].user = req[r].user /\ draft'[r].id = req[r].id /\ draft'[r].id # None
      /\ draft'[r] # NoDraft
  <2>1. /\ draft'[r] \in DraftType /\ draft'[r].row = draft[r].row
        /\ draft'[r].user = req[r].user /\ draft'[r].id = req[r].id
    BY <1>1, <1>2 DEF DraftType
  <2> QED
    BY <1>1, <2>1, Defaults
<1>4. DraftFits(r)'
  <2>1. draft[r].row # None =>
          /\ users[req[r].user] = None /\ ~EmailTaken(draft[r].row.email)
          /\ draft[r].row = [email |-> draft[r].row.email, active |-> TRUE,
                             password |-> req[r].op = "register"]
          /\ req[r].op = "callback"
    BY <1>1, Defaults DEF RequestInv, DraftFits
  <2>2. UNCHANGED EmailTaken(draft[r].row.email) /\ ~LinkTaken(req[r].id, req[r].user)'
    BY <1>2 DEF EmailTaken, LinkTaken
  <2>3. draft[r].row = None => req[r].op = "link" /\ users[req[r].user] # None
    BY <1>1, Defaults
  <2> QED
    BY <1>1, <1>2, <1>3, <2>1, <2>2, <2>3 DEF DraftFits, EmailTaken
<1>5. StepFits(r)' /\ FoundFits(r)' /\ AnswerFits(r)'
  BY <1>1, <1>2, <1>3 DEF RequestInv, StepFits, FoundFits, AnswerFits
<1>6. ASSUME NEW s \in Request \ {r} PROVE DraftsDiffer(r, s)'
  <2>1. draft'[s] = draft[s] /\ DraftsDiffer(r, s)
    BY <1>6 DEF AccountsInv, SlotsType
  <2>2. draft[s].id # None => draft[s].id # req[r].id /\ draft[s].user # req[r].user
    BY <1>6 DEF LinkPending, Others
  <2>3. draft[r].row # None => draft[r].user = req[r].user
    BY <1>1, Defaults
  <2> QED
    BY <1>2, <1>3, <2>1, <2>2, <2>3 DEF DraftsDiffer
<1> QED
  BY <1>1, <1>2, <1>3, <1>4, <1>5, <1>6, LocalStep DEF RequestInv, Steps, Answers

LEMMA InsertLinkInv ==
  ASSUME AccountsInv, NEW r \in Request, InsertLink(r)
  PROVE  AccountsInv'
<1>1. /\ RequestInv(r) /\ pc[r] = "insertLink" /\ req[r].op = "callback" /\ req[r] \in ReqType
      /\ answer[r] = "none" /\ draft[r] \in DraftType
      /\ req[r].user \in User /\ draft[r].row # None
      /\ draft[r].user = req[r].user /\ users[req[r].user] = None
  BY SlotTypes, Defaults DEF InsertLink, RequestInv, StepFits, DraftFits
<1>2. CASE LinkTaken(req[r].id, req[r].user)
  <2>1. /\ Frame(r) /\ pc'[r] = "recoverLink" /\ draft'[r] = NoDraft /\ req'[r] = req[r]
        /\ answer'[r] = "none" /\ UNCHANGED <<users, links>>
    BY <1>1, <1>2 DEF InsertLink, Goto, Frame, tables, AccountsInv, SlotsType
  <2>2. links[req[r].id] # None
    BY <1>1, <1>2, Defaults DEF LinkTaken, AccountsInv, LinkedUsersExist
  <2>3. StepFits(r)' /\ FoundFits(r)' /\ AnswerFits(r)'
    BY <1>1, <2>1, <2>2 DEF RequestInv, StepFits, FoundFits, AnswerFits
  <2> QED
    BY <1>1, <2>1, <2>3, QuietStep DEF Steps, Answers
<1>3. CASE ~LinkTaken(req[r].id, req[r].user)
  <2>1. /\ draft' = [draft EXCEPT ![r].id = req[r].id] /\ Goto(r, "commit")
        /\ answer' = [answer EXCEPT ![r] = "signedIn"] /\ UNCHANGED <<tables, req>>
        /\ ~LinkPending(r, req[r].id, req[r].user)
    BY <1>3 DEF InsertLink
  <2>2. draft' = [draft EXCEPT ![r] = draft'[r]] /\ draft'[r] = [draft[r] EXCEPT !.id = req[r].id]
    BY <2>1 DEF AccountsInv, SlotsType
  <2>3. draft'[r] = [user |-> req[r].user, row |-> draft[r].row, id |-> req[r].id]
    BY <1>1, <2>2 DEF DraftType
  <2> QED
    BY <1>1, <1>3, <2>1, <2>2, <2>3, NewLinkStep
<1> QED
  BY <1>2, <1>3

LEMMA InsertOwnLinkInv ==
  ASSUME AccountsInv, NEW r \in Request, InsertOwnLink(r)
  PROVE  AccountsInv'
<1>1. /\ RequestInv(r) /\ pc[r] = "insertOwnLink" /\ req[r].op = "link"
      /\ draft[r] = NoDraft /\ draft[r] \in DraftType
  BY SlotTypes DEF InsertOwnLink, RequestInv, StepFits
<1>2. CASE LinkTaken(req[r].id, req[r].user)
  <2>1. Proceed(r, "recoverOwn")
    BY <1>2 DEF InsertOwnLink
  <2> QED
    BY <1>1, <1>2, <2>1, ProceedStep DEF Steps
<1>3. CASE ~LinkTaken(req[r].id, req[r].user)
  <2>1. /\ draft' = [draft EXCEPT ![r].user = req[r].user, ![r].id = req[r].id]
        /\ answer' = [answer EXCEPT ![r] = "linked"] /\ Goto(r, "commit")
        /\ UNCHANGED <<tables, req>> /\ ~LinkPending(r, req[r].id, req[r].user)
    BY <1>3 DEF InsertOwnLink
  <2>2. /\ draft' = [draft EXCEPT ![r] = draft'[r]]
        /\ draft'[r] = [draft[r] EXCEPT !.user = req[r].user, !.id = req[r].id]
    BY <2>1 DEF AccountsInv, SlotsType
  <2>3. draft'[r] = [user |-> req[r].user, row |-> draft[r].row, id |-> req[r].id]
    BY <1>1, <2>2 DEF DraftType
  <2> QED
    BY <1>1, <1>3, <2>1, <2>2, <2>3, NewLinkStep
<1> QED
  BY <1>2, <1>3

-----------------------------------------------------------------------------
(* Requests arrive, hear from Google, and end.                              *)

LEMMA PageInv ==
  ASSUME AccountsInv, NEW r \in Request, Page(r)
  PROVE  AccountsInv'
BY BeginStep DEF Page

LEMMA SubmitFormInv ==
  ASSUME AccountsInv, NEW r \in Request, SubmitForm(r)
  PROVE  AccountsInv'
<1>1. CASE \E e \in Email : Begin(r, "register", e, "byEmail", jar) /\ UNCHANGED answer
  BY <1>1, BeginStep
<1>2. CASE Begin(r, "page", None, "respond", jar) /\ answer' = [answer EXCEPT ![r] = "refused"]
  BY <1>2, BeginStep
<1> QED
  BY <1>1, <1>2 DEF SubmitForm

LEMMA SubmitJsonInv ==
  ASSUME AccountsInv, NEW r \in Request, SubmitJson(r)
  PROVE  AccountsInv'
BY BeginStep DEF SubmitJson

LEMMA GoogleStartInv ==
  ASSUME AccountsInv, NEW r \in Request, GoogleStart(r)
  PROVE  AccountsInv'
<1>1. PICK held \in NewState : Begin(r, "start", None, "respond", [jar EXCEPT !.oauth = held])
  BY DEF GoogleStart
<1> QED
  BY <1>1, BeginStep DEF GoogleStart

LEMMA GoogleCallbackInv ==
  ASSUME AccountsInv, NEW r \in Request, GoogleCallback(r)
  PROVE  AccountsInv'
<1> DEFINE left == [jar EXCEPT !.oauth = None]
<1>0. \/ Begin(r, "callback", None, "google", left) /\ UNCHANGED answer
      \/ /\ Begin(r, "callback", None, "respond", left)
         /\ answer' = [answer EXCEPT ![r] = "refused"]
  BY DEF GoogleCallback, CheckState
<1> HIDE DEF left
<1>1. CASE Begin(r, "callback", None, "google", left) /\ UNCHANGED answer
  BY <1>1, BeginStep
<1>2. CASE /\ Begin(r, "callback", None, "respond", left)
           /\ answer' = [answer EXCEPT ![r] = "refused"]
  BY <1>2, BeginStep
<1> QED
  BY <1>0, <1>1, <1>2

LEMMA GoogleInv ==
  ASSUME AccountsInv, NEW r \in Request, Google(r)
  PROVE  AccountsInv'
<1>1. /\ pc[r] = "google" /\ req[r].op = "callback" /\ RequestInv(r) /\ req[r] \in ReqType
      /\ draft[r] = NoDraft /\ answer[r] = "none"
  BY SlotTypes DEF Google, RequestInv, StepFits
<1>2. CASE Answer(r, "failed")
  <2>1. /\ Frame(r) /\ pc'[r] = "respond" /\ draft'[r] = NoDraft
        /\ req'[r] = req[r] /\ answer'[r] = "failed"
    BY <1>1, <1>2 DEF Answer, Goto, Frame, tables, AccountsInv, SlotsType
  <2>2. StepFits(r)' /\ FoundFits(r)' /\ AnswerFits(r)'
    BY <1>1, <2>1 DEF StepFits, FoundFits, AnswerFits
  <2> QED
    BY <1>1, <2>1, <2>2, QuietStep DEF Steps, Answers
<1>3. ASSUME NEW g \in Identity, NEW e \in Email,
             req' = [req EXCEPT ![r].id = g, ![r].email = e],
             Goto(r, "getLink"), UNCHANGED <<tables, draft, answer>>
      PROVE  AccountsInv'
  <2>1. /\ Frame(r) /\ pc'[r] = "getLink" /\ draft'[r] = NoDraft
        /\ answer'[r] = "none" /\ req'[r] = [req[r] EXCEPT !.id = g, !.email = e]
    BY <1>1, <1>3 DEF Goto, Frame, tables, AccountsInv, SlotsType
  <2>2. /\ req'[r] \in ReqType /\ req'[r].op = "callback" /\ req'[r].id = g
        /\ req'[r].email = e
    BY <1>1, <2>1 DEF ReqType
  <2>3. StepFits(r)' /\ FoundFits(r)' /\ AnswerFits(r)'
    BY <1>1, <2>1, <2>2 DEF StepFits, FoundFits, AnswerFits
  <2> QED
    BY <1>1, <2>1, <2>2, <2>3, QuietStep DEF Steps, Answers
<1> QED
  BY <1>2, <1>3 DEF Google

LEMMA LinkAccountInv ==
  ASSUME AccountsInv, NEW r \in Request, LinkAccount(r)
  PROVE  AccountsInv'
<1>1. pc[r] = "idle" /\ draft[r] = NoDraft /\ answer[r] = "none"
  BY SlotTypes DEF LinkAccount
<1>2. PICK u \in User, g \in Identity :
        /\ users[u] # None
        /\ req' = [req EXCEPT ![r] = [op |-> "link", email |-> None, id |-> g, user |-> u]]
  BY DEF LinkAccount
<1>3. /\ Frame(r) /\ pc'[r] = "getLink" /\ draft'[r] = NoDraft
      /\ answer'[r] = "none" /\ UNCHANGED users
      /\ req'[r] = [op |-> "link", email |-> None, id |-> g, user |-> u]
  BY <1>1, <1>2 DEF LinkAccount, Goto, Frame, tables, AccountsInv, SlotsType
<1>4. req'[r] \in ReqType
  BY <1>3 DEF ReqType, Ops
<1>5. StepFits(r)' /\ FoundFits(r)' /\ AnswerFits(r)'
  BY <1>2, <1>3 DEF StepFits, FoundFits, AnswerFits
<1> QED
  BY <1>3, <1>4, <1>5, QuietStep DEF Steps, Answers

LEMMA EndInv ==
  ASSUME AccountsInv, NEW r \in Request, End(r)
  PROVE  AccountsInv'
<1>1. /\ Frame(r) /\ pc'[r] = "idle" /\ draft'[r] = NoDraft
      /\ answer'[r] = "none" /\ req'[r] = NoReq
  BY DEF End, Goto, Frame, tables, AccountsInv, SlotsType
<1>2. StepFits(r)' /\ FoundFits(r)' /\ AnswerFits(r)'
  BY <1>1, Defaults DEF StepFits, FoundFits, AnswerFits
<1> QED
  BY <1>1, <1>2, Defaults, QuietStep DEF Steps, Answers

-----------------------------------------------------------------------------
(* Steps that change the tables, which only grow.                           *)

TablesGrow ==
  /\ \A u \in User : users[u] # None => users'[u] # None /\ users'[u].email = users[u].email
  /\ \A g \in Identity : links[g] # None => links'[g] = links[g]

LEMMA EmailStaysTaken ==
  ASSUME TablesGrow, NEW e, EmailTaken(e)
  PROVE  EmailTaken(e)'
BY DEF TablesGrow, EmailTaken

LEMMA LinkStaysTaken ==
  ASSUME TablesGrow, NEW g \in Identity, NEW u \in User, LinkTaken(g, u)
  PROVE  LinkTaken(g, u)'
BY Defaults DEF TablesGrow, LinkTaken

\* What other requests know stays true, if what they have inserted still fits.
LEMMA OthersFit ==
  ASSUME AccountsInv, NEW s \in Request, TablesGrow, DraftFits(s)',
         pc'[s] = pc[s], req'[s] = req[s], draft'[s] = draft[s], answer'[s] = answer[s]
  PROVE  RequestInv(s)'
<1>1. RequestInv(s) /\ req[s] \in ReqType
  BY SlotTypes
<1>2. StepFits(s)'
  BY <1>1 DEF RequestInv, StepFits, TablesGrow
<1>3. FoundFits(s)'
  <2>1. pc[s] \in {"getUser", "recoverUser"} =>
          links'[req[s].id] = req[s].user /\ req[s].user # None
    BY <1>1 DEF RequestInv, StepFits, FoundFits, TablesGrow
  <2>2. pc[s] = "recoverLink" => EmailTaken(req[s].email)' \/ links'[req[s].id] # None
    <3>1. CASE EmailTaken(req[s].email)
      BY <3>1, EmailStaysTaken DEF TablesGrow, EmailTaken
    <3>2. CASE pc[s] = "recoverLink" /\ links[req[s].id] # None
      BY <1>1, <3>2 DEF RequestInv, StepFits, TablesGrow
    <3> QED
      BY <1>1, <3>1, <3>2 DEF RequestInv, FoundFits
  <2>3. pc[s] = "recoverEmail" => EmailTaken(req[s].email)'
    BY <1>1 DEF RequestInv, FoundFits, TablesGrow, EmailTaken
  <2>4. pc[s] = "recoverOwn" => LinkTaken(req[s].id, req[s].user)'
    BY <1>1, Defaults DEF RequestInv, StepFits, FoundFits, TablesGrow, LinkTaken
  <2> QED
    BY <2>1, <2>2, <2>3, <2>4 DEF FoundFits, EmailTaken, LinkTaken
<1>4. AnswerFits(s)'
  <2>1. answer[s] = "integrityError" =>
          req[s].op = "link" /\ \E g \in Identity \ {req[s].id} : links'[g] = req[s].user
    BY <1>1, Defaults DEF RequestInv, StepFits, AnswerFits, TablesGrow
  <2>2. req[s].op = "callback" /\ answer[s] = "signedIn" =>
          \/ pc[s] = "commit" /\ draft[s] # NoDraft
          \/ req[s].id \in Identity /\ links'[req[s].id] = req[s].user /\ req[s].user # None
    BY <1>1 DEF RequestInv, AnswerFits, TablesGrow
  <2> QED
    BY <1>1, <2>1, <2>2 DEF RequestInv, AnswerFits
<1> QED
  BY <1>2, <1>3, <1>4 DEF RequestInv

LEMMA SetActiveInv ==
  ASSUME AccountsInv, SetActive
  PROVE  AccountsInv'
<1>1. PICK u \in User, active \in BOOLEAN :
        users[u] # None /\ users' = [users EXCEPT ![u].active = active]
  BY DEF SetActive
<1>2. UNCHANGED <<links, pc, req, draft, answer>>
  BY DEF SetActive
<1>3. users[u] \in Row
  BY <1>1 DEF AccountsInv, TablesType
<1>4. /\ [users[u] EXCEPT !.active = active] \in Row
      /\ [users[u] EXCEPT !.active = active].email = users[u].email
  BY <1>3 DEF Row
<1>5. /\ users' \in [User -> Row \cup {None}]
      /\ \A v \in User : (users'[v] = None <=> users[v] = None)
                         /\ (users[v] # None => users'[v].email = users[v].email)
  BY <1>1, <1>4, Defaults DEF AccountsInv, TablesType
<1>6. TablesType' /\ SlotsType' /\ EmailsDiffer' /\ LinksDiffer' /\ LinkedUsersExist' /\ TablesGrow
  BY <1>2, <1>5 DEF AccountsInv, TablesType, SlotsType, EmailsDiffer, LinksDiffer,
                    LinkedUsersExist, TablesGrow
<1>7. ASSUME NEW s \in Request PROVE RequestInv(s)'
  <2>1. DraftFits(s)
    BY <1>7 DEF AccountsInv, RequestInv
  <2>2. \A e : EmailTaken(e)' <=> EmailTaken(e)
    BY <1>5 DEF EmailTaken
  <2>3. /\ pc'[s] = pc[s] /\ req'[s] = req[s] /\ draft'[s] = draft[s]
        /\ \A g, v : LinkTaken(g, v)' <=> LinkTaken(g, v)
    BY <1>2 DEF LinkTaken
  <2>4. DraftFits(s)'
    <3>1. CASE draft[s] = NoDraft
      BY <2>1, <2>3, <3>1, Defaults DEF DraftFits
    <3>2. CASE draft[s] # NoDraft
      <4>1. UNCHANGED (users[req[s].user] = None) /\ UNCHANGED EmailTaken(draft[s].row.email)
        BY <1>5, <2>1, <2>2, <2>3, <3>2 DEF DraftFits
      <4> QED
        BY <2>1, <2>2, <2>3, <4>1 DEF DraftFits
    <3> QED
      BY <3>1, <3>2
  <2> QED
    BY <1>2, <1>6, <2>4, OthersFit
<1>8. ASSUME NEW s \in Request, NEW q \in Request, s # q PROVE DraftsDiffer(s, q)'
  BY <1>2, <1>8 DEF AccountsInv, DraftsDiffer
<1> QED
  BY <1>6, <1>7, <1>8 DEF AccountsInv

\* What a request knows of its rows when it commits them.
LEMMA ReadyToCommit ==
  ASSUME AccountsInv, NEW r \in Request, pc[r] = "commit"
  PROVE  /\ draft[r] \in DraftType
         /\ draft[r] # NoDraft => draft[r].user = req[r].user /\ draft[r].user \in User
         /\ draft[r].row # None =>
              /\ draft[r].row \in Row /\ users[draft[r].user] = None
              /\ ~EmailTaken(draft[r].row.email) /\ draft[r] # NoDraft
         /\ draft[r].id # None =>
              /\ draft[r].id = req[r].id /\ draft[r].id \in Identity
              /\ ~LinkTaken(draft[r].id, draft[r].user) /\ draft[r] # NoDraft
              /\ draft[r].row = None => users[draft[r].user] # None
         /\ draft[r] # NoDraft /\ req[r].op = "callback" => draft[r].id # None
<1>1. DraftFits(r) /\ draft[r] \in DraftType
  BY SlotTypes DEF RequestInv
<1>2. draft[r].row \in Row \cup {None}
  BY <1>1 DEF DraftType
<1> QED
  BY <1>1, <1>2, Defaults DEF DraftFits

LEMMA CommitTables ==
  ASSUME AccountsInv, NEW r \in Request, Commit(r)
  PROVE  /\ TablesType' /\ TablesGrow
         /\ \A u \in User :
              users'[u] # None /\ users[u] = None =>
                u = draft[r].user /\ draft[r].row # None /\ users'[u] = draft[r].row
         /\ \A g \in Identity :
              links'[g] # None /\ links[g] = None =>
                g = draft[r].id /\ draft[r].id # None /\ links'[g] = draft[r].user
         /\ \A u \in User : users[u] # None => users'[u] = users[u]
         /\ draft[r].row # None => users'[draft[r].user] # None
         /\ draft[r].id # None => links'[draft[r].id] = draft[r].user
<1>1. pc[r] = "commit" /\ users \in [User -> Row \cup {None}]
      /\ links \in [Identity -> User \cup {None}]
  BY DEF Commit, AccountsInv, TablesType
<1>2. /\ users' \in [User -> Row \cup {None}]
      /\ \A u \in User : users[u] # None => users'[u] = users[u]
      /\ \A u \in User :
           users'[u] # None /\ users[u] = None =>
             u = draft[r].user /\ draft[r].row # None /\ users'[u] = draft[r].row
      /\ draft[r].row # None => users'[draft[r].user] # None
  <2>1. CASE draft[r].row = None
    BY <1>1, <2>1 DEF Commit
  <2>2. CASE draft[r].row # None
    <3>1. /\ users' = [users EXCEPT ![draft[r].user] = draft[r].row]
          /\ draft[r].user \in User /\ draft[r].row \in Row /\ users[draft[r].user] = None
      BY <1>1, <2>2, ReadyToCommit DEF Commit
    <3> QED
      BY <1>1, <2>2, <3>1
  <2> QED
    BY <2>1, <2>2
<1>3. /\ links' \in [Identity -> User \cup {None}]
      /\ \A g \in Identity : links[g] # None => links'[g] = links[g]
      /\ \A g \in Identity :
           links'[g] # None /\ links[g] = None =>
             g = draft[r].id /\ draft[r].id # None /\ links'[g] = draft[r].user
      /\ draft[r].id # None => links'[draft[r].id] = draft[r].user
  <2>1. CASE draft[r].id = None
    BY <1>1, <2>1 DEF Commit
  <2>2. CASE draft[r].id # None
    <3>1. /\ links' = [links EXCEPT ![draft[r].id] = draft[r].user]
          /\ draft[r].user \in User /\ draft[r].id \in Identity
          /\ ~LinkTaken(draft[r].id, draft[r].user)
      BY <1>1, <2>2, ReadyToCommit DEF Commit
    <3>2. links[draft[r].id] = None
      BY <3>1 DEF LinkTaken
    <3> QED
      BY <1>1, <2>2, <3>1, <3>2
  <2> QED
    BY <2>1, <2>2
<1> QED
  BY <1>2, <1>3 DEF TablesType, TablesGrow

LEMMA CommitInv ==
  ASSUME AccountsInv, NEW r \in Request, Commit(r)
  PROVE  AccountsInv'
<1>1. /\ pc[r] = "commit" /\ RequestInv(r) /\ req[r] \in ReqType
      /\ req[r].op \in {"register", "callback", "link"}
  BY SlotTypes DEF Commit, RequestInv, StepFits
<1>2. SlotsType' /\ pc'[r] = "respond" /\ draft'[r] = NoDraft /\ req' = req /\ answer' = answer
      /\ \A s \in Request \ {r} : pc'[s] = pc[s] /\ draft'[s] = draft[s]
  BY Defaults DEF Commit, Goto, AccountsInv, SlotsType, Steps
<1>3. EmailsDiffer'
  <2> SUFFICES ASSUME NEW u \in User, NEW v \in User,
                      u # v, users'[u] # None, users'[v] # None
               PROVE  users'[u].email # users'[v].email
    BY DEF EmailsDiffer
  <2>1. draft[r].row # None =>
          \A w \in User : users[w] # None => users[w].email # draft[r].row.email
    BY <1>1, ReadyToCommit DEF EmailTaken
  <2>2. CASE users[u] # None /\ users[v] # None
    BY <2>2, CommitTables DEF AccountsInv, EmailsDiffer
  <2>3. CASE users[u] # None /\ users[v] = None
    BY <2>1, <2>3, CommitTables
  <2>4. CASE users[u] = None /\ users[v] # None
    BY <2>1, <2>4, CommitTables
  <2>5. CASE users[u] = None /\ users[v] = None
    BY <2>5, CommitTables
  <2> QED
    BY <2>2, <2>3, <2>4, <2>5
<1>4. LinksDiffer'
  <2> SUFFICES ASSUME NEW g \in Identity, NEW h \in Identity, g # h, links'[g] # None
               PROVE  links'[g] # links'[h]
    BY DEF LinksDiffer
  <2>1. draft[r].id # None => \A other \in Identity : links[other] # draft[r].user
    BY <1>1, ReadyToCommit DEF LinkTaken
  <2>2. CASE links'[h] = None
    BY <2>2
  <2>3. CASE links[g] # None /\ links[h] # None
    BY <2>3, CommitTables DEF AccountsInv, LinksDiffer, TablesGrow
  <2>4. CASE links'[h] # None /\ ~(links[g] # None /\ links[h] # None)
    BY <2>1, <2>4, CommitTables DEF TablesGrow
  <2> QED
    BY <2>2, <2>3, <2>4
<1>5. LinkedUsersExist'
  <2> SUFFICES ASSUME NEW g \in Identity, links'[g] # None PROVE users'[links'[g]] # None
    BY DEF LinkedUsersExist
  <2>1. CASE links[g] # None
    <3>1. links'[g] = links[g] /\ links[g] \in User /\ users[links[g]] # None
      BY <2>1, CommitTables DEF TablesGrow, AccountsInv, TablesType, LinkedUsersExist
    <3> QED
      BY <3>1, CommitTables
  <2>2. CASE links[g] = None
    <3>1. links'[g] = draft[r].user /\ draft[r].id # None
      BY <2>2, CommitTables
    <3>2. CASE draft[r].row # None
      BY <3>1, <3>2, CommitTables
    <3>3. CASE draft[r].row = None
      <4>1. draft[r].user \in User /\ users[draft[r].user] # None
        BY <1>1, <3>1, <3>3, ReadyToCommit
      <4> QED
        BY <3>1, <4>1, CommitTables
    <3> QED
      BY <3>2, <3>3
  <2> QED
    BY <2>1, <2>2
<1>6. ASSUME NEW s \in Request \ {r} PROVE DraftFits(s)'
  <2>1. /\ pc'[s] = pc[s] /\ req'[s] = req[s] /\ draft'[s] = draft[s]
        /\ DraftFits(s) /\ DraftsDiffer(r, s) /\ TablesGrow
    BY <1>2, <1>6, CommitTables DEF AccountsInv, RequestInv
  <2>2. draft[s].row # None =>
          users'[req[s].user] = None /\ ~EmailTaken(draft[s].row.email)'
    <3> SUFFICES ASSUME draft[s].row # None
                 PROVE  users'[req[s].user] = None /\ ~EmailTaken(draft[s].row.email)'
      OBVIOUS
    <3>1. /\ draft[s] # NoDraft /\ draft[s].user = req[s].user /\ req[s].user \in User
          /\ users[req[s].user] = None /\ ~EmailTaken(draft[s].row.email)
      BY <2>1, Defaults DEF DraftFits
    <3>2. draft[r].row # None =>
            draft[r].user # draft[s].user /\ draft[r].row.email # draft[s].row.email
      BY <2>1 DEF DraftsDiffer
    <3>3. users'[req[s].user] = None
      BY <3>1, <3>2, CommitTables
    <3>4. ASSUME NEW u \in User, users'[u] # None PROVE users'[u].email # draft[s].row.email
      <4>1. CASE users[u] # None
        BY <3>1, <4>1, CommitTables DEF EmailTaken
      <4>2. CASE users[u] = None
        BY <3>2, <3>4, <4>2, CommitTables
      <4> QED
        BY <4>1, <4>2
    <3> QED
      BY <2>1, <3>3, <3>4 DEF EmailTaken
  <2>3. draft[s].id # None =>
          /\ ~LinkTaken(req[s].id, req[s].user)'
          /\ draft[s].row = None => users'[req[s].user] # None
    <3> SUFFICES ASSUME draft[s].id # None
                 PROVE  /\ ~LinkTaken(req[s].id, req[s].user)'
                        /\ draft[s].row = None => users'[req[s].user] # None
      OBVIOUS
    <3>1. /\ draft[s] # NoDraft /\ draft[s].user = req[s].user /\ req[s].user \in User
          /\ draft[s].id = req[s].id /\ req[s].id \in Identity
          /\ ~LinkTaken(req[s].id, req[s].user)
          /\ draft[s].row = None => users[req[s].user] # None
      BY <2>1, Defaults DEF DraftFits
    <3>2. draft[r].id # None => draft[r].id # req[s].id /\ draft[r].user # req[s].user
      BY <2>1, <3>1 DEF DraftsDiffer
    <3>3. links'[req[s].id] = None
      BY <3>1, <3>2, CommitTables DEF LinkTaken
    <3>4. ASSUME NEW other \in Identity PROVE links'[other] # req[s].user
      <4>1. CASE links[other] # None
        BY <2>1, <3>1, <4>1 DEF LinkTaken, TablesGrow
      <4>2. CASE links[other] = None
        BY <3>1, <3>2, <4>2, CommitTables, Defaults
      <4> QED
        BY <4>1, <4>2
    <3>5. draft[s].row = None => users'[req[s].user] # None
      BY <2>1, <3>1 DEF TablesGrow
    <3> QED
      BY <2>1, <3>3, <3>4, <3>5 DEF LinkTaken
  <2> QED
    BY <2>1, <2>2, <2>3 DEF DraftFits, EmailTaken, LinkTaken
<1>7. ASSUME NEW s \in Request \ {r} PROVE RequestInv(s)'
  BY <1>2, <1>6, <1>7, CommitTables, OthersFit
<1>8. RequestInv(r)'
  <2>1. DraftFits(r)' /\ FoundFits(r)'
    BY <1>2, Defaults DEF DraftFits, FoundFits
  <2>2. StepFits(r)'
    <3>1. TablesGrow
      BY CommitTables
    <3> QED
      BY <1>1, <1>2, <3>1 DEF RequestInv, StepFits, TablesGrow
  <2>3. AnswerFits(r)'
    <3>1. TablesGrow /\ AnswerFits(r) /\ StepFits(r)
      BY <1>1, CommitTables DEF RequestInv
    <3>2. answer[r] = "integrityError" =>
            req[r].op = "link" /\ \E g \in Identity \ {req[r].id} : links'[g] = req[r].user
      BY <3>1, Defaults DEF AnswerFits, StepFits, TablesGrow
    <3>3. req[r].op = "callback" /\ answer[r] = "signedIn" =>
            req[r].id \in Identity /\ links'[req[r].id] = req[r].user /\ req[r].user # None
      <4>1. CASE draft[r] # NoDraft
        BY <1>1, <4>1, ReadyToCommit, CommitTables, Defaults
      <4>2. CASE draft[r] = NoDraft
        BY <3>1, <4>2 DEF AnswerFits, TablesGrow
      <4> QED
        BY <4>1, <4>2
    <3> QED
      BY <1>2, <3>2, <3>3 DEF AnswerFits
  <2> QED
    BY <2>1, <2>2, <2>3 DEF RequestInv
<1>9. ASSUME NEW s \in Request, NEW q \in Request, s # q PROVE DraftsDiffer(s, q)'
  <2>1. CASE s = r \/ q = r
    BY <1>2, <2>1, Defaults DEF DraftsDiffer
  <2>2. CASE s # r /\ q # r
    BY <1>2, <1>9, <2>2 DEF AccountsInv, DraftsDiffer
  <2> QED
    BY <2>1, <2>2
<1> QED
  BY <1>2, <1>3, <1>4, <1>5, <1>7, <1>8, <1>9, CommitTables DEF AccountsInv

-----------------------------------------------------------------------------
(* The UI session.                                                          *)

\* A request stays what it is while it runs.
LEMMA StatementKeepsOp ==
  ASSUME AccountsInv, NEW r \in Request, Statement(r), NEW s \in Request
  PROVE  req'[s].op = req[s].op
<1>1. req \in [Request -> ReqType] /\ req[r] \in ReqType
  BY SlotTypes DEF AccountsInv, SlotsType
<1>2. ASSUME NEW x, req' = [req EXCEPT ![r].user = x] PROVE req'[s].op = req[s].op
  BY <1>1, <1>2 DEF ReqType
<1>3. CASE req' = req
  BY <1>3
<1>4. CASE ByEmail(r)
  BY <1>3, <1>4 DEF ByEmail, Answer, Proceed
<1>5. CASE InsertAccount(r) \/ InsertUser(r)
  BY <1>2, <1>3, <1>5 DEF InsertAccount, InsertUser, Answer, Proceed, NewUser
<1>6. CASE GetLink(r) \/ RecoverLink(r)
  BY <1>2, <1>3, <1>6 DEF GetLink, RecoverLink, Find, Answer, Proceed
<1>7. CASE GetUser(r) \/ RecoverUser(r) \/ RecoverEmail(r) \/ RecoverOwn(r)
  BY <1>3, <1>7 DEF GetUser, RecoverUser, RecoverEmail, RecoverOwn, Answer
<1>8. CASE InsertLink(r) \/ InsertOwnLink(r)
  BY <1>3, <1>8 DEF InsertLink, InsertOwnLink, Answer, Proceed
<1>9. CASE GetOwn(r)
  BY <1>3, <1>9 DEF GetOwn, Answer, Proceed
<1>10. CASE Commit(r)
  BY <1>3, <1>10 DEF Commit
<1> QED
  BY <1>4, <1>5, <1>6, <1>7, <1>8, <1>9, <1>10 DEF Statement

LEMMA SessionStays ==
  ASSUME SessionInv, UNCHANGED session, \A s \in Request : req'[s].op = req[s].op
  PROVE  SessionInv'
BY DEF SessionInv, session, CopyFits

LEMMA BeginSession ==
  ASSUME IInv, NEW r \in Request, NEW op, NEW email, NEW step, NEW session_ \in UiSession,
         Begin(r, op, email, step, session_),
         session_.csrf = jar.csrf, op \notin {"start", "callback"} => session_.oauth = jar.oauth
  PROVE  SessionInv'
<1>1. /\ took' = [took EXCEPT ![r] = jar] /\ copy' = [copy EXCEPT ![r] = session_]
      /\ jar' = jar /\ req' = [req EXCEPT ![r] = [NoReq EXCEPT !.op = op, !.email = email]]
  BY DEF Begin
<1>2. req'[r].op = op /\ \A s \in Request \ {r} : req'[s] = req[s]
  BY <1>1 DEF IInv, AccountsInv, SlotsType, NoReq
<1>3. /\ jar' \in UiSession /\ took' \in [Request -> UiSession]
      /\ copy' \in [Request -> UiSession]
  BY <1>1 DEF IInv, SessionInv
<1>4. ASSUME NEW s \in Request PROVE CopyFits(s)'
  <2>1. CASE s = r
    BY <1>1, <1>2, <2>1 DEF IInv, SessionInv, CopyFits
  <2>2. CASE s # r
    BY <1>1, <1>2, <2>2 DEF IInv, SessionInv, CopyFits
  <2> QED
    BY <2>1, <2>2
<1> QED
  BY <1>3, <1>4 DEF SessionInv

LEMMA FlowChanges ==
  ASSUME IInv, NEW held \in State \cup {None}
  PROVE  /\ [jar EXCEPT !.oauth = held] \in UiSession
         /\ [jar EXCEPT !.oauth = held].csrf = jar.csrf
BY DEF IInv, SessionInv, UiSession

LEMMA ArriveSession ==
  ASSUME IInv, NEW r \in Request, Arrive(r)
  PROVE  SessionInv'
<1>1. jar \in UiSession
  BY DEF IInv, SessionInv
<1>2. CASE Page(r) \/ SubmitForm(r) \/ SubmitJson(r)
  <2>1. PICK op, email, step :
          Begin(r, op, email, step, jar) /\ op \notin {"start", "callback"}
    BY <1>2 DEF Page, SubmitForm, SubmitJson
  <2> QED
    BY <1>1, <2>1, BeginSession
<1>3. CASE GoogleStart(r)
  <2>1. PICK held \in NewState : Begin(r, "start", None, "respond", [jar EXCEPT !.oauth = held])
    BY <1>3 DEF GoogleStart
  <2> QED
    BY <2>1, BeginSession, FlowChanges DEF NewState
<1>4. CASE GoogleCallback(r)
  <2>1. PICK step : Begin(r, "callback", None, step, [jar EXCEPT !.oauth = None])
    BY <1>4 DEF GoogleCallback, CheckState
  <2> QED
    BY <2>1, BeginSession, FlowChanges
<1>5. CASE LinkAccount(r)
  <2>1. PICK u \in User, g \in Identity :
          req' = [req EXCEPT ![r] = [op |-> "link", email |-> None, id |-> g, user |-> u]]
    BY <1>5 DEF LinkAccount
  <2>2. req[r].op = "page" /\ UNCHANGED session
    BY <1>5, SlotTypes DEF LinkAccount, IInv, RequestInv, StepFits
  <2>3. req'[r].op = "link" /\ \A s \in Request \ {r} : req'[s] = req[s]
    BY <2>1 DEF IInv, AccountsInv, SlotsType
  <2> QED
    BY <2>2, <2>3 DEF IInv, SessionInv, CopyFits, session
<1> QED
  BY <1>2, <1>3, <1>4, <1>5 DEF Arrive

LEMMA EndSession ==
  ASSUME IInv, NEW r \in Request, End(r), jar' \in UiSession
  PROVE  SessionInv'
<1>1. /\ took' = [took EXCEPT ![r] = Empty] /\ copy' = [copy EXCEPT ![r] = Empty]
      /\ \A s \in Request \ {r} : req'[s] = req[s]
  BY DEF End, IInv, AccountsInv, SlotsType
<1>2. took' \in [Request -> UiSession] /\ copy' \in [Request -> UiSession]
  BY <1>1, Defaults DEF IInv, SessionInv
<1>3. ASSUME NEW s \in Request PROVE CopyFits(s)'
  BY <1>1, <1>3 DEF IInv, SessionInv, CopyFits
<1> QED
  BY <1>2, <1>3 DEF SessionInv

LEMMA NewSession ==
  ASSUME IInv, NEW r \in Request, NEW token \in EnsureToken(r)
  PROVE  [copy[r] EXCEPT !.csrf = token] \in UiSession
BY DEF IInv, SessionInv, UiSession, EnsureToken, NewToken

-----------------------------------------------------------------------------
(* The invariant is inductive.                                              *)

LEMMA InitInv == Init => IInv
<1> SUFFICES ASSUME Init PROVE IInv
  OBVIOUS
<1>1. \A r \in Request : RequestInv(r)
  BY Defaults
  DEF Init, InitAccounts, RequestInv, DraftFits, StepFits, FoundFits, AnswerFits
<1>2. \A r, s \in Request : DraftsDiffer(r, s)
  BY Defaults DEF Init, InitAccounts, DraftsDiffer
<1>3. TablesType /\ SlotsType /\ EmailsDiffer /\ LinksDiffer /\ LinkedUsersExist
  BY Defaults DEF Init, InitAccounts, TablesType, SlotsType, EmailsDiffer, LinksDiffer,
                  LinkedUsersExist, Steps, Answers
<1>4. SessionInv
  BY Defaults DEF Init, SessionInv, CopyFits
<1> QED
  BY <1>1, <1>2, <1>3, <1>4 DEF IInv, AccountsInv

LEMMA ArriveInv ==
  ASSUME IInv, NEW r \in Request, Arrive(r)
  PROVE  IInv'
<1>1. AccountsInv'
  BY PageInv, SubmitFormInv, SubmitJsonInv, GoogleStartInv, GoogleCallbackInv, LinkAccountInv
  DEF Arrive, IInv
<1> QED
  BY <1>1, ArriveSession DEF IInv

LEMMA StatementInv ==
  ASSUME IInv, NEW r \in Request, Statement(r), UNCHANGED session
  PROVE  IInv'
<1>1. AccountsInv'
  BY ByEmailInv, InsertAccountInv, GetLinkInv, GetUserInv, InsertUserInv, InsertLinkInv,
     RecoverLinkInv, RecoverUserInv, RecoverEmailInv, GetOwnInv, InsertOwnLinkInv,
     RecoverOwnInv, CommitInv
  DEF Statement, IInv
<1> QED
  BY <1>1, StatementKeepsOp, SessionStays DEF IInv

LEMMA HandleInv ==
  ASSUME IInv, NEW r \in Request, Handle(r)
  PROVE  IInv'
<1>1. CASE Statement(r) /\ UNCHANGED session
  BY <1>1, StatementInv
<1>2. CASE Google(r)
  <2>1. UNCHANGED session
    BY <1>2 DEF Google
  <2>2. req[r] \in ReqType /\ req \in [Request -> ReqType]
    BY DEF IInv, AccountsInv, SlotsType
  <2>3. ASSUME NEW g, NEW e, req' = [req EXCEPT ![r].id = g, ![r].email = e]
        PROVE  \A s \in Request : req'[s].op = req[s].op
    <3>1. req' = [req EXCEPT ![r] = [req[r] EXCEPT !.id = g, !.email = e]]
      BY <2>2, <2>3
    <3>2. req'[r].op = req[r].op
      BY <2>2, <3>1 DEF ReqType
    <3> QED
      BY <2>2, <3>1, <3>2
  <2>4. \A s \in Request : req'[s].op = req[s].op
    BY <1>2, <2>3 DEF Google, Answer
  <2> QED
    BY <1>2, <2>1, <2>4, GoogleInv, SessionStays DEF IInv
<1>3. CASE Fail(r)
  BY <1>3, EndInv, EndSession DEF Fail, IInv, SessionInv
<1>4. CASE Respond(r)
  <2>1. End(r) /\ jar' \in UiSession
    BY <1>4, NewSession DEF Respond, IInv, SessionInv
  <2> QED
    BY <2>1, EndInv, EndSession DEF IInv
<1> QED
  BY <1>1, <1>2, <1>3, <1>4 DEF Handle

LEMMA NextInv == IInv /\ [Next]_vars => IInv'
<1> SUFFICES ASSUME IInv, [Next]_vars PROVE IInv'
  OBVIOUS
<1>1. CASE UNCHANGED vars
  <2>1. UNCHANGED <<users, links, pc, req, draft, answer, jar, took, copy>>
    BY <1>1 DEF vars, accounts, session
  <2>2. AccountsInv'
    BY <2>1 DEF IInv, AccountsInv, TablesType, SlotsType, EmailsDiffer, LinksDiffer,
                LinkedUsersExist, RequestInv, DraftFits, StepFits, FoundFits, AnswerFits,
                DraftsDiffer, EmailTaken, LinkTaken
  <2> QED
    BY <2>1, <2>2 DEF IInv, SessionInv, CopyFits
<1>2. CASE SetActive /\ UNCHANGED session
  <2>1. UNCHANGED req
    BY <1>2 DEF SetActive
  <2> QED
    BY <1>2, <2>1, SetActiveInv, SessionStays DEF IInv
<1> QED
  BY <1>1, <1>2, ArriveInv, HandleInv DEF Next

-----------------------------------------------------------------------------
(* Theorems.                                                                *)

\* The constraints and what the requests rely on hold for ever.
THEOREM Invariant == Spec => []IInv
<1> QED
  BY InitInv, NextInv, PTL DEF Spec

\* The tables, the slots and the session have their types.
THEOREM TypeCorrect == Spec => []TypeOK
<1> QED
  BY Invariant, InvIsTyped, PTL

\* Whoever meets a unique constraint finds out why; only a link may answer with a bare
\* IntegrityError, and only when its user has linked another identity meanwhile.
THEOREM LostRacesAreExplained == Spec => []RaceIsExplained
<1>1. IInv => RaceIsExplained
  BY DEF IInv, AccountsInv, RequestInv, AnswerFits, RaceIsExplained
<1> QED
  BY <1>1, Invariant, PTL

\* A committed sign-in with Google is one to the account of the identity.
THEOREM SignInsAreOwn == Spec => []SignedInAsOwnIdentity
<1>1. IInv => SignedInAsOwnIdentity
  <2> SUFFICES ASSUME IInv, NEW r \in Request,
                      pc[r] = "respond", req[r].op = "callback", answer[r] = "signedIn"
               PROVE  links[req[r].id] = req[r].user /\ users[req[r].user] # None
    BY DEF SignedInAsOwnIdentity
  <2>1. req[r].id \in Identity /\ links[req[r].id] = req[r].user /\ req[r].user # None
    BY DEF IInv, AccountsInv, RequestInv, AnswerFits
  <2> QED
    BY <2>1 DEF IInv, AccountsInv, LinkedUsersExist
<1> QED
  BY <1>1, Invariant, PTL

\* A chain of waiting requests has at most two links: one that inserts users waits for
\* one that inserts links, which waits for one that commits.
THEOREM NoWaitIsForEver == Spec => []NobodyWaitsForEver
<1>1. IInv => NobodyWaitsForEver
  <2> SUFFICES ASSUME IInv, NEW r \in Request, Waits(r)
               PROVE  \E s \in Request : draft[s] # NoDraft /\ pc[s] # "idle" /\ ~Waits(s)
    BY DEF NobodyWaitsForEver
  <2>1. \A s \in Request : /\ draft[s] # NoDraft => pc[s] \in {"insertLink", "commit"}
                           /\ draft[s].id # None => pc[s] = "commit" /\ draft[s] # NoDraft
    BY Defaults DEF IInv, AccountsInv, RequestInv, DraftFits
  <2>2. \A s \in Request : pc[s] = "commit" => ~Waits(s)
    BY DEF Waits
  <2>3. PICK s \in Request : draft[s] # NoDraft
    BY Defaults DEF Waits, EmailPending, LinkPending, Others
  <2>4. CASE Waits(s)
    <3>1. PICK t \in Request : draft[t].id # None
      BY <2>1, <2>3, <2>4 DEF Waits, LinkPending, Others
    <3> QED
      BY <2>1, <2>2, <3>1
  <2>5. CASE ~Waits(s)
    BY <2>1, <2>3, <2>5
  <2> QED
    BY <2>4, <2>5
<1> QED
  BY <1>1, Invariant, PTL

\* A commit is an account that registers, one that joins with its identity, or an
\* identity that is linked to an account.
LEMMA CommitIsRegistryStep ==
  ASSUME IInv, NEW r \in Request, Commit(r)
  PROVE  [Book!Next]_(Book!vars)
<1> DEFINE d == draft[r]
<1>1. pc[r] = "commit" /\ AccountsInv /\ DraftFits(r) /\ d \in DraftType
  BY SlotTypes DEF Commit, IInv, RequestInv
<1>2. /\ users' = IF d.row = None THEN users ELSE [users EXCEPT ![d.user] = d.row]
      /\ links' = IF d.id = None THEN links ELSE [links EXCEPT ![d.id] = d.user]
  BY DEF Commit
<1> HIDE DEF d
<1>3. CASE d.row = None /\ d.id = None
  BY <1>2, <1>3 DEF Book!vars
<1>4. CASE d.row # None
  <2>1. /\ d.user \in User /\ d.row.email \in Email /\ users[d.user] = None
        /\ ~EmailTaken(d.row.email)
    BY <1>1, <1>4, ReadyToCommit DEF d, Row
  <2>2. PICK password \in BOOLEAN :
          /\ d.row = [email |-> d.row.email, active |-> TRUE, password |-> password]
          /\ password <=> d.id = None
    <3>1. /\ d.row = [email |-> d.row.email, active |-> TRUE, password |-> req[r].op = "register"]
          /\ req[r].op = "register" <=> d.id = None
      BY <1>1, <1>4 DEF DraftFits, d
    <3> QED
      BY <3>1
  <2>3. Book!Create(d.user, d.row.email, password)
    BY <1>2, <1>4, <2>1, <2>2 DEF Book!Create, Book!Account, Book!Unused, EmailTaken
  <2>4. CASE d.id = None
    <3>1. Book!Register(d.user, d.row.email)
      BY <1>2, <2>2, <2>3, <2>4 DEF Book!Register
    <3> QED
      BY <2>1, <3>1 DEF Book!Next
  <2>5. CASE d.id # None
    <3>1. d.id \in Identity /\ links[d.id] = None
      BY <1>1, <2>5, ReadyToCommit DEF d, LinkTaken
    <3>2. Book!Join(d.user, d.row.email, d.id)
      BY <1>2, <2>2, <2>3, <2>5, <3>1 DEF Book!Join
    <3> QED
      BY <2>1, <3>1, <3>2 DEF Book!Next
  <2> QED
    BY <2>4, <2>5
<1>5. CASE d.row = None /\ d.id # None
  <2>1. d.user \in User /\ d.id \in Identity /\ users[d.user] # None /\ ~LinkTaken(d.id, d.user)
    BY <1>1, <1>5, ReadyToCommit DEF d
  <2>2. Book!Link(d.user, d.id)
    BY <1>2, <1>5, <2>1 DEF Book!Link, LinkTaken
  <2> QED
    BY <2>1, <2>2 DEF Book!Next
<1> QED
  BY <1>3, <1>4, <1>5

\* Under every interleaving the tables change as the registry does.
THEOREM StatementsImplementRegistry == Spec => ImplementsRegistry
<1>1. Init => Book!Init
  BY DEF Init, InitAccounts, Book!Init
<1>2. IInv /\ [Next]_vars => [Book!Next]_(Book!vars)
  <2> SUFFICES ASSUME IInv, [Next]_vars PROVE [Book!Next]_(Book!vars)
    OBVIOUS
  <2>1. CASE UNCHANGED tables
    BY <2>1 DEF tables, Book!vars
  <2>2. CASE SetActive
    BY <2>2 DEF SetActive, Book!SetActive, Book!Next
  <2>3. ASSUME NEW r \in Request, Arrive(r) PROVE UNCHANGED tables
    BY <2>3 DEF Arrive, Page, SubmitForm, SubmitJson, GoogleStart, GoogleCallback, CheckState,
                LinkAccount, Begin
  <2>4. ASSUME NEW r \in Request, Statement(r), ~Commit(r) PROVE UNCHANGED tables
    BY <2>4 DEF Statement, ByEmail, InsertAccount, GetLink, GetUser, InsertUser, InsertLink,
                RecoverLink, RecoverUser, RecoverEmail, GetOwn, InsertOwnLink, RecoverOwn,
                Answer, Proceed, Find
  <2>5. ASSUME NEW r \in Request, Google(r) \/ Fail(r) \/ Respond(r) PROVE UNCHANGED tables
    BY <2>5 DEF Google, Answer, Fail, Respond, End
  <2>6. CASE UNCHANGED vars
    BY <2>6 DEF vars, accounts, tables, Book!vars
  <2> QED
    BY <2>1, <2>2, <2>3, <2>4, <2>5, <2>6, CommitIsRegistryStep DEF Next, Handle
<1> QED
  BY <1>1, <1>2, Invariant, PTL DEF Spec, ImplementsRegistry, Book!Spec

\* Only a response changes what the browser holds, and it drops or replaces a token or
\* a flow only when its request began without it, or is about the flow.
THEOREM PagesKeepTheSession == Spec => SessionKept
<1> DEFINE Kept == \A key \in {"csrf", "oauth"} :
       jar[key] \notin {None, jar'[key]} =>
         \E r \in Request :
           /\ pc[r] = "respond" /\ pc'[r] = "idle"
           /\ \/ took[r][key] # jar[key]
              \/ key = "oauth" /\ req[r].op \in {"start", "callback"}
<1>1. IInv /\ [Next]_vars => [Kept]_vars
  <2> SUFFICES ASSUME IInv, [Next]_vars PROVE Kept \/ UNCHANGED vars
    OBVIOUS
  <2>1. CASE UNCHANGED jar
    BY <2>1
  <2>2. ASSUME NEW r \in Request, Arrive(r) PROVE UNCHANGED jar
    BY <2>2 DEF Arrive, Page, SubmitForm, SubmitJson, GoogleStart, GoogleCallback, CheckState,
                LinkAccount, Begin, session
  <2>3. ASSUME NEW r \in Request, Google(r) \/ Fail(r) PROVE UNCHANGED jar
    BY <2>3 DEF Google, Fail, session
  <2>4. ASSUME NEW r \in Request, Respond(r) PROVE Kept
    <3>1. /\ pc[r] = "respond" /\ pc'[r] = "idle" /\ CopyFits(r) /\ copy[r] \in UiSession
      BY <2>4 DEF Respond, End, Goto, IInv, AccountsInv, SlotsType, SessionInv
    <3>2. PICK token \in EnsureToken(r) : jar' \in {jar, [copy[r] EXCEPT !.csrf = token]}
      BY <2>4 DEF Respond
    <3>3. CASE jar' = jar
      BY <3>3
    <3>4. CASE jar' = [copy[r] EXCEPT !.csrf = token]
      <4>1. jar'.csrf = token /\ jar'.oauth = copy[r].oauth
        BY <3>1, <3>4 DEF UiSession
      <4>2. copy[r].csrf # None => token = copy[r].csrf
        BY <3>2 DEF EnsureToken
      <4>3. jar.csrf \notin {None, jar'.csrf} => took[r].csrf # jar.csrf
        BY <3>1, <4>1, <4>2 DEF CopyFits
      <4>4. jar.oauth \notin {None, jar'.oauth} =>
              took[r].oauth # jar.oauth \/ req[r].op \in {"start", "callback"}
        BY <3>1, <4>1 DEF CopyFits
      <4> QED
        BY <3>1, <4>3, <4>4
    <3> QED
      BY <3>2, <3>3, <3>4
  <2>5. CASE UNCHANGED vars
    BY <2>5
  <2> QED
    BY <2>1, <2>2, <2>3, <2>4, <2>5 DEF Next, Handle, session
<1>2. SessionKept <=> [][Kept]_vars
  BY DEF SessionKept
<1> QED
  BY <1>1, <1>2, Invariant, PTL DEF Spec

=============================================================================
