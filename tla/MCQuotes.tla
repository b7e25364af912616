------------------------------ MODULE MCQuotes ------------------------------
(* Two quotes and two answers of the provider. *)
EXTENDS Quotes

CONSTANTS q1, q2

MCPayloads == {{q1}, {q1, q2}}

=============================================================================
