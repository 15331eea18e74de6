------------------------- MODULE MCFastPathService -------------------------
(* Three validators, one of which holds half of the stake.                 *)
EXTENDS FastPathService

CONSTANTS v1, v2, v3

MCAckStake == [S \in SUBSET Validator |-> Cardinality(S) + IF v1 \in S THEN 1 ELSE 0]
=============================================================================
