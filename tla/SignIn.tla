------------------------------- MODULE SignIn -------------------------------
(***************************************************************************)
(* Signing in from one browser: the pages, forms and redirects of          *)
(* src/routers/auth.py, the two tables behind them (Accounts), and the UI  *)
(* session, a signed cookie that holds the csrf token and the Google flow. *)
(*                                                                         *)
(* Every request works on the session its cookie held when it began, and   *)
(* its response puts that copy, as the handler left it, in the place of    *)
(* whatever the browser holds by then (Starlette's SessionMiddleware).     *)
(* Who is signed in is decided in Sessions; here it is either way.  That a *)
(* response may arrive before the commit is also left to Sessions.         *)
(***************************************************************************)
EXTENDS Accounts

CONSTANTS
  Token, State   \* random tokens and states, one more than are remembered at a time

VARIABLES
  jar,           \* the UI session the browser holds
  took,          \* the one that came with each request
  copy           \* and as its handler has changed it

session == <<jar, took, copy>>
accounts == <<users, links, pc, req, draft, answer>>
vars == <<accounts, session>>

UiSession == [csrf : Token \cup {None}, oauth : State \cup {None}]
Empty == [csrf |-> None, oauth |-> None]

Init ==
  /\ InitAccounts
  /\ jar = Empty
  /\ took = [r \in Request |-> Empty] /\ copy = [r \in Request |-> Empty]

-----------------------------------------------------------------------------
(* Requests arrive.                                                         *)

Begin(r, op, email, step, session_) ==
  /\ pc[r] = "idle" /\ Goto(r, step)
  /\ req' = [req EXCEPT ![r] = [NoReq EXCEPT !.op = op, !.email = email]]
  /\ took' = [took EXCEPT ![r] = jar]
  /\ copy' = [copy EXCEPT ![r] = session_]
  /\ UNCHANGED <<tables, draft, jar>>

\* login_page, register_page.
Page(r) == Begin(r, "page", None, "respond", jar) /\ UNCHANGED answer

\* validate_csrf: a form is refused without the token of the session.
SubmitForm(r) ==
  \E token \in Token \cup {None}, e \in Email :
    IF token # None /\ token = jar.csrf
    THEN Begin(r, "register", e, "byEmail", jar) /\ UNCHANGED answer
    ELSE /\ Begin(r, "page", None, "respond", jar)
         /\ answer' = [answer EXCEPT ![r] = "refused"]

\* A JSON body needs no token.
SubmitJson(r) ==
  \E e \in Email : Begin(r, "register", e, "byEmail", jar) /\ UNCHANGED answer

Remembered == {jar} \cup {copy[s] : s \in Request}

NewState == State \ {held.oauth : held \in Remembered}
NewToken == Token \ {held.csrf : held \in Remembered}

GoogleStart(r) ==
  /\ \E s \in NewState : Begin(r, "start", None, "respond", [jar EXCEPT !.oauth = s])
  /\ UNCHANGED answer

\* complete_google_oauth_login goes on to Google only with the state of the session's
\* flow; otherwise, or with a flow that has become too old, it refuses.
CheckState(r, flow, left) ==
  \/ flow # None /\ Begin(r, "callback", None, "google", left) /\ UNCHANGED answer
  \/ /\ Begin(r, "callback", None, "respond", left)
     /\ answer' = [answer EXCEPT ![r] = "refused"]

\* The flow is taken out of the session, valid or not.
GoogleCallback(r) == CheckState(r, jar.oauth, [jar EXCEPT !.oauth = None])

\* The user declines, Google does not answer in time, or says who this is.  The
\* email an identity has with Google may change.
Google(r) ==
  /\ pc[r] = "google"
  /\ \/ Answer(r, "failed")
     \/ /\ \E g \in Identity, e \in Email :
             req' = [req EXCEPT ![r].id = g, ![r].email = e]
        /\ Goto(r, "getLink")
        /\ UNCHANGED <<tables, draft, answer>>
  /\ UNCHANGED session

LinkAccount(r) ==
  /\ pc[r] = "idle" /\ Goto(r, "getLink")
  /\ \E u \in User, g \in Identity :
       /\ users[u] # None
       /\ req' = [req EXCEPT ![r] = [op |-> "link", email |-> None, id |-> g, user |-> u]]
  /\ UNCHANGED <<tables, draft, answer, session>>

-----------------------------------------------------------------------------
(* Responses arrive.                                                        *)

End(r) ==
  /\ Goto(r, "idle")
  /\ req' = [req EXCEPT ![r] = NoReq]
  /\ draft' = [draft EXCEPT ![r] = NoDraft]
  /\ answer' = [answer EXCEPT ![r] = "none"]
  /\ took' = [took EXCEPT ![r] = Empty] /\ copy' = [copy EXCEPT ![r] = Empty]
  /\ UNCHANGED tables

\* A response that renders a template: an auth page, or an error of the callback or,
\* when the request accepts HTML, of a registration.
Renders(r) ==
  \/ req[r].op = "page"
  \/ req[r].op = "callback" /\ answer[r] \notin {"signedIn", "integrityError"}
  \/ req[r].op = "register" /\ answer[r] = "emailExists"

\* Who is signed in may be redirected instead, and an error may be sent in JSON.
MayRenderNothing(r) == req[r].op \in {"page", "register"} \/ answer[r] = "refused"

\* Mutant: every page makes a token.
AlwaysNewToken(r) == IF Renders(r) THEN NewToken ELSE {copy[r].csrf}

\* ensure_csrf_token: one is made only when the session has none.
EnsureToken(r) ==
  IF copy[r].csrf # None THEN {copy[r].csrf}
  ELSE {t \in NewToken : Renders(r)} \cup {t \in {None} : Renders(r) => MayRenderNothing(r)}

\* A session empty before and after sets no cookie; a failure sets none either.
Respond(r) ==
  /\ pc[r] = "respond"
  /\ \E token \in EnsureToken(r) :
       LET left == [copy[r] EXCEPT !.csrf = token]
       IN jar' = IF req[r].op = "link" \/ answer[r] = "integrityError"
                    \/ (left = Empty /\ took[r] = Empty)
                 THEN jar ELSE left
  /\ End(r)

\* Mutant: the transaction is left open.
FailAndLeak(r) ==
  /\ pc[r] = "commit" /\ Goto(r, "idle")
  /\ req' = [req EXCEPT ![r] = NoReq]
  /\ answer' = [answer EXCEPT ![r] = "none"]
  /\ UNCHANGED <<tables, draft, session>>

\* An exception after the last statement, as when the session cannot be stored.
Fail(r) ==
  /\ pc[r] = "commit"
  /\ End(r)
  /\ UNCHANGED jar

-----------------------------------------------------------------------------

Arrive(r) ==
  Page(r) \/ SubmitForm(r) \/ SubmitJson(r) \/ GoogleStart(r) \/ GoogleCallback(r)
  \/ LinkAccount(r)

Handle(r) ==
  \/ Statement(r) /\ UNCHANGED session
  \/ Google(r) \/ Fail(r) \/ Respond(r)

Next ==
  \/ \E r \in Request : Arrive(r) \/ Handle(r)
  \/ SetActive /\ UNCHANGED session

Spec == Init /\ [][Next]_vars

-----------------------------------------------------------------------------

TypeOK ==
  /\ users \in [User -> Row \cup {None}]
  /\ links \in [Identity -> User \cup {None}]
  /\ pc \in [Request -> Steps]
  /\ req \in [Request -> [op : Ops, email : Email \cup {None}, id : Identity \cup {None},
                          user : User \cup {None}]]
  /\ draft \in [Request -> [user : User \cup {None}, row : Row \cup {None},
                            id : Identity \cup {None}]]
  /\ answer \in [Request -> Answers]
  /\ jar \in UiSession
  /\ took \in [Request -> UiSession] /\ copy \in [Request -> UiSession]

\* Losing a race is always explained: whoever meets a unique constraint in a sign-in
\* or a registration then finds the row that holds the key.  Only linking may run
\* into the bare IntegrityError, when its user has linked another identity meanwhile
\* (create_user_with_oauth_account_idempotent, create_oauth_account_idempotent).
RaceIsExplained ==
  \A r \in Request :
    answer[r] = "integrityError" =>
      req[r].op = "link" /\ \E g \in Identity \ {req[r].id} : links[g] = req[r].user

\* A sign-in with Google that has been committed is one to the account its identity
\* is linked to, also when another callback of the identity has created it meanwhile,
\* and never to an account that merely has the same email (get_or_create_oauth_user).
SignedInAsOwnIdentity ==
  \A r \in Request :
    pc[r] = "respond" /\ req[r].op = "callback" /\ answer[r] = "signedIn" =>
      links[req[r].id] = req[r].user /\ users[req[r].user] # None

Book == INSTANCE Registry

\* Whatever the interleaving of the statements, the tables change as the registry
\* does: emails and identities stay unique, an account is never committed without
\* a way in, and a sign-in attaches its identity only to an account it creates.
ImplementsRegistry == Book!Spec

\* What a shown form and a begun flow need stays in the browser: pages opened later,
\* sign-ins and failures do not drop or replace the token, and only the flow's own
\* requests end the flow.  Otherwise only the response to a request does that began
\* before the browser held them (ensure_csrf_token, google_start, google_callback).
SessionKept ==
  [][\A key \in {"csrf", "oauth"} :
       jar[key] \notin {None, jar'[key]} =>
         \E r \in Request :
           /\ pc[r] = "respond" /\ pc'[r] = "idle"
           /\ \/ took[r][key] # jar[key]
              \/ key = "oauth" /\ req[r].op \in {"start", "callback"}]_vars

Waits(r) ==
  \/ pc[r] \in {"insertAccount", "insertUser"} /\ EmailPending(r, req[r].email)
  \/ pc[r] \in {"insertLink", "insertOwnLink"} /\ LinkPending(r, req[r].id, req[r].user)

\* Who waits for a row, waits for a request that goes on: the two tables are filled in
\* one order, and no transaction outlives its request (get_db closes every session).
NobodyWaitsForEver ==
  \A r \in Request :
    Waits(r) => \E s \in Request : draft[s] # NoDraft /\ pc[s] # "idle" /\ ~Waits(s)

=============================================================================
