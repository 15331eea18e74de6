------------------------------ MODULE MCMerge ------------------------------
(* Two sides of a healed partition, with double spends and a transaction   *)
(* that depends on one of them.                                            *)
EXTENDS Merge, TLC

Transfer(from, to, amount, gas, nonce, parents) ==
  [from |-> from, to |-> to, amount |-> amount, gas |-> gas, nonce |-> nonce, parents |-> parents]

MCTx == 1 :> Transfer("a", "b", 6, 0, 0, {}) @@ 2 :> Transfer("a", "c", 7, 1, 0, {})
        @@ 3 :> Transfer("b", "c", 4, 1, 0, {1}) @@ 4 :> Transfer("a", "b", 2, 0, 1, {})
MCWeight == 1 :> 2 @@ 2 :> 3 @@ 3 :> 2 @@ 4 :> 1
MCAccounts ==
  "a" :> [balance |-> 10, nonce |-> 0, staked |-> 5, reputation |-> 0, violations |-> 0]
  @@ "b" :> [balance |-> 0, nonce |-> 0, staked |-> 0, reputation |-> 0, violations |-> 0]

MCSpec == MergeInit /\ [][MergeNext]_mgVars
=============================================================================
