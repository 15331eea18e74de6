----------------------------- MODULE NonceOrder -----------------------------
(***************************************************************************)
(* What the ledger promises about execution, whatever path a transaction   *)
(* takes: every execution consumes the nonces it passes, and a rollback    *)
(* gives back exactly the transactions whose nonces it gives back.  Ledger *)
(* is checked to implement this specification.                             *)
(***************************************************************************)
EXTENDS Integers

CONSTANTS Tx, Addr, From, Nonce,
          MaxNonce     \* largest value of an account's nonce (a u64 in the code)

ASSUME NonceOrderAssumption ==
  From \in [Tx -> Addr] /\ Nonce \in [Tx -> Nat] /\ MaxNonce \in Nat

VARIABLES nonce,      \* per account
          executed    \* how often each transaction's effect is in the accounts
vars == <<nonce, executed>>

Init == nonce = [a \in Addr |-> 0] /\ executed = [t \in Tx |-> 0]

SameSlot(t, u) == From[t] = From[u] /\ Nonce[t] = Nonce[u]

(* A batch executes the transactions E: each at a nonce its account passes *)
(* in this step, no two at the same one.                                   *)
Execute(E) ==
  /\ nonce' \in [Addr -> 0..MaxNonce]
  /\ \A a \in Addr : nonce[a] <= nonce'[a]
  /\ \A t \in E : nonce[From[t]] <= Nonce[t] /\ Nonce[t] < nonce'[From[t]]
  /\ \A t, u \in E : SameSlot(t, u) => t = u
  /\ executed' = [t \in Tx |-> IF t \in E THEN executed[t] + 1 ELSE executed[t]]

(* A rollback moves accounts back and takes back every execution at or     *)
(* above the restored nonce.                                               *)
Revert ==
  /\ nonce' \in [Addr -> 0..MaxNonce]
  /\ \A a \in Addr : nonce'[a] <= nonce[a]
  /\ executed' = [t \in Tx |-> IF Nonce[t] < nonce'[From[t]] THEN executed[t] ELSE 0]

Next == (\E E \in SUBSET Tx : Execute(E)) \/ Revert
Spec == Init /\ [][Next]_vars

(* An executed transaction lies below its account's nonce, so no batch can *)
(* execute it, or another one for the same nonce, again.                   *)
NonceConsumed ==
  /\ nonce \in [Addr -> 0..MaxNonce] /\ executed \in [Tx -> Nat]
  /\ \A t \in Tx : executed[t] > 0 => Nonce[t] < nonce[From[t]]

(* No transaction is executed twice, and no two use the same nonce of the  *)
(* same account: whichever of the fast path and the checkpoints runs       *)
(* first, the other skips (execute_batch_inline and                        *)
(* execute_fast_path_batch).                                               *)
OneTransactionPerNonce ==
  /\ \A t \in Tx : executed[t] <= 1
  /\ \A t, u \in Tx : executed[t] > 0 /\ executed[u] > 0 /\ SameSlot(t, u) => t = u
=============================================================================
