-------------------------------- MODULE Maps --------------------------------
(***************************************************************************)
(* The std::collections::HashMap operations the node uses, on functions    *)
(* whose domain is the current key set.                                    *)
(***************************************************************************)
EXTENDS Functions

\* A map with keys in S and values in R.
IsMap(f, S, R) == DOMAIN f \subseteq S /\ \A k \in DOMAIN f : f[k] \in R

Insert(f, k, v) == [x \in DOMAIN f \cup {k} |-> IF x = k THEN v ELSE f[x]]

Without(f, K) == Restrict(f, DOMAIN f \ K)

\* map.get(k).unwrap_or(d)
GetOr(f, k, d) == IF k \in DOMAIN f THEN f[k] ELSE d
=============================================================================
