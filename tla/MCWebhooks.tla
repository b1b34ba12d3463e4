-------------------------- MODULE MCWebhooks --------------------------
(* A small instance of Webhooks for TLC.                                  *)
EXTENDS Webhooks, TLC

CONSTANTS a, A, b, message, reaction

MCTypes == {message, reaction}
MCNames == {a, A, b}

(* Two ways to write one type.                                            *)
MCType == [n \in MCNames |-> IF n = b THEN reaction ELSE message]

MCLists == {{a}, {a, A}, {Blank, b}, {Blank}}

Symmetry == Permutations(Hooks)

=======================================================================
