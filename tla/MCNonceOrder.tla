---------------------------- MODULE MCNonceOrder ----------------------------
(* Two accounts, the first with two transactions for its nonce 1. *)
EXTENDS NonceOrder, TLC

MCFrom == (1 :> 1 @@ 2 :> 1 @@ 3 :> 1 @@ 4 :> 2)
MCNonce == (1 :> 0 @@ 2 :> 1 @@ 3 :> 1 @@ 4 :> 0)
=============================================================================
