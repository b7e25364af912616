------------------------------ MODULE MCThemes ------------------------------
(***************************************************************************)
(* Instances of Themes: two requests at once on two themes and a task.     *)
(***************************************************************************)
EXTENDS Themes, TLC

CONSTANTS n1, n2, c1, c2

\* string_to_hex ignores case: of two names that differ by it only, the colors
\* are the same.
MCHashColorSame == n1 :> c1 @@ n2 :> c1

MCHashColor == n1 :> c1 @@ n2 :> c2

\* A name alone, a color alone, and a name with a color to be generated.
MCBodies ==
  { [sent |-> {"name"}, name |-> n1, color |-> None],
    [sent |-> {"color"}, name |-> None, color |-> c1],
    [sent |-> {"name", "color"}, name |-> n2, color |-> None] }

\* No definition tells apart requests, users or ids of one kind.
MCSymmetry == Permutations(Request) \cup Permutations(User) \cup Permutations(Theme)

=============================================================================
