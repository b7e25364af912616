------------------------------ MODULE Registry ------------------------------
(***************************************************************************)
(* What the tables users and oauth_accounts promise: an email and a Google *)
(* identity belong to one account for ever, an account comes into being    *)
(* with a way to sign in to it, and signing in with Google never attaches  *)
(* an identity to an account that was there before.                        *)
(***************************************************************************)
CONSTANTS
  User,        \* ids of accounts
  Email,       \* normalized addresses
  Identity,    \* the accounts of the provider
  None         \* no account

VARIABLES
  users,       \* users[u]: the account, or None
  links        \* links[g]: the account an identity signs in to, or None

vars == <<users, links>>

Init == users = [u \in User |-> None] /\ links = [g \in Identity |-> None]

Account(e, password) == [email |-> e, active |-> TRUE, password |-> password]

Unused(e) == \A u \in User : users[u] # None => users[u].email # e

Create(u, e, password) ==
  /\ users[u] = None /\ Unused(e)
  /\ users' = [users EXCEPT ![u] = Account(e, password)]

Register(u, e) == Create(u, e, TRUE) /\ UNCHANGED links

Join(u, e, g) ==
  /\ Create(u, e, FALSE)
  /\ links[g] = None /\ links' = [links EXCEPT ![g] = u]

\* Asked for by the user of the account.
Link(u, g) ==
  /\ users[u] # None /\ links[g] = None /\ \A other \in Identity : links[other] # u
  /\ links' = [links EXCEPT ![g] = u]
  /\ UNCHANGED users

SetActive(u) ==
  /\ users[u] # None
  /\ \E active \in BOOLEAN : users' = [users EXCEPT ![u].active = active]
  /\ UNCHANGED links

Next ==
  \E u \in User :
    \/ SetActive(u)
    \/ \E e \in Email : Register(u, e)
    \/ \E g \in Identity : Link(u, g) \/ \E e \in Email : Join(u, e, g)

Spec == Init /\ [][Next]_vars

=============================================================================
