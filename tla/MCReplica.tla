----------------------------- MODULE MCReplica -----------------------------
(* A replica of a chain of two heights that crashes once and restarts.     *)
EXTENDS Replica, TLC

MCFrom == 1 :> "a" @@ 2 :> "a" @@ 3 :> "b"
MCTo == 1 :> "b" @@ 2 :> "c" @@ 3 :> "c"
MCPushes == {[bodies |-> TRUE, proofs |-> TRUE]}
=============================================================================
