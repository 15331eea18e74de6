------------------------------ MODULE MCLedger ------------------------------
(* Instances of Ledger: transfers with a gap (2 after 1), two rivals for   *)
(* one nonce (1 and 3) and a sender that lacks funds until it is paid (4); *)
(* and a sender that stakes, claims and unstakes.                          *)
EXTENDS Ledger

Info(f, to, n, amount, kind) ==
  [from |-> f, to |-> to, nonce |-> n, amount |-> amount, gas_price |-> 2, kind |-> kind]

Infos ==
  <<Info(1, 2, 0, 3, "Transfer"), Info(1, 2, 1, 1, "Transfer"), Info(1, 2, 0, 1, "Transfer"),
    Info(2, 1, 0, 2, "Transfer"), Info(1, 1, 0, 4, "Stake"), Info(1, 1, 1, 0, "ClaimRewards"),
    Info(1, 1, 2, 0, "Unstake")>>
MCInfo == [t \in Tx |-> Infos[t]]
MCBalance == (1 :> 9 @@ 2 :> 1)
MCAmpleBalance == (1 :> 14 @@ 2 :> 1)
MCRewards == [a \in Addr |-> IF a = 1 THEN 1 ELSE 0]
TaskSymmetry == Permutations(Task)
MCNoRewards == [a \in Addr |-> 0]
=============================================================================
