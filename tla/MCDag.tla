------------------------------- MODULE MCDag -------------------------------
(* A diamond a <- b, a <- c, {b, c} <- d sent by two accounts.             *)
EXTENDS Dag

CONSTANTS a, b, c, d, s1, s2

MCFrom == [h \in Hash |-> IF h \in {a, d} THEN s1 ELSE s2]
MCParents == [h \in Hash |-> (CASE h = a -> {} [] h = b -> {a} [] h = c -> {a} [] h = d -> {b, c})
                            \cap Hash]
MCTimestamp == [h \in Hash |-> CASE h = a -> 1 [] h = b -> 2 [] h = c -> 3 [] h = d -> 4]
=============================================================================
