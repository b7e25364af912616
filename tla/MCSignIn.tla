------------------------------ MODULE MCSignIn ------------------------------
(* Two requests at once of one browser. *)
EXTENDS SignIn, TLC

Interchangeable ==
  Permutations(Request) \cup Permutations(User) \cup Permutations(Email)
    \cup Permutations(Identity) \cup Permutations(Token) \cup Permutations(State)

=============================================================================
