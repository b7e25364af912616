----------------------------- MODULE QuoteShelf -----------------------------
(***************************************************************************)
(* What the home page may rely on: a shelf of quotes that only grows, by   *)
(* whole batches, and a page that shows one of them, or a fallback as long *)
(* as the shelf is empty.                                                  *)
(***************************************************************************)
CONSTANTS
  Payloads,    \* the lists of quotes the provider answers with
  Fallback,    \* FALLBACK_QUOTES of src/services/quotes.py
  None         \* nothing shown yet

VARIABLES
  offered,     \* the quotes a page can draw from
  page         \* what the home page showed last

vars == <<offered, page>>

Init == offered = {} /\ page = None

Fill(batch) == offered' = offered \cup batch /\ UNCHANGED page

Show ==
  /\ page' \in (IF offered = {} THEN {Fallback} ELSE offered)
  /\ UNCHANGED offered

Next == Show \/ \E batch \in Payloads : Fill(batch)

Spec == Init /\ [][Next]_vars

=============================================================================
