----------------------------- MODULE MCSessions -----------------------------
(***************************************************************************)
(* Instances of Sessions: two requests at once, two session ids, with a    *)
(* lifetime of two ticks.                                                  *)
(***************************************************************************)
EXTENDS Sessions, TLC

Interchangeable == Permutations(Task) \cup Permutations(Sid) \cup Permutations(User)

=============================================================================
