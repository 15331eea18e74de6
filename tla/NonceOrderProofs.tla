-------------------------- MODULE NonceOrderProofs --------------------------
(* NonceOrder for any transactions, accounts and nonces. *)
EXTENDS NonceOrder, TLAPS

Inv == NonceConsumed /\ OneTransactionPerNonce

(* A batch starts at nonces no executed transaction has reached, so what   *)
(* it executes is new in every slot.                                       *)
LEMMA ExecuteInv ==
  ASSUME Inv, NEW E \in SUBSET Tx, Execute(E) PROVE Inv'
<1>1. \A t \in Tx : executed[t] \in Nat /\ Nonce[t] \in Nat /\ From[t] \in Addr
  BY NonceOrderAssumption DEF Inv, NonceConsumed
<1>2. ASSUME NEW t \in E PROVE t \in Tx /\ executed[t] = 0
  <2>1. nonce[From[t]] <= Nonce[t] /\ nonce[From[t]] \in Nat
    BY <1>1, NonceOrderAssumption DEF Inv, NonceConsumed, Execute
  <2>2. QED BY <1>1, <2>1 DEF Inv, NonceConsumed
<1>3. NonceConsumed'
  BY <1>1, NonceOrderAssumption DEF Inv, NonceConsumed, Execute
<1>4. \A t \in Tx : executed'[t] <= 1
  BY <1>1, <1>2 DEF Inv, OneTransactionPerNonce, Execute
<1>5. ASSUME NEW t \in Tx, NEW u \in Tx, executed'[t] > 0, executed'[u] > 0, SameSlot(t, u)
      PROVE  t = u
  <2>1. (t \in E \/ executed[t] > 0) /\ (u \in E \/ executed[u] > 0)
    BY <1>5 DEF Execute
  <2>2. CASE executed[t] > 0 /\ executed[u] > 0
    BY <1>5, <2>2 DEF Inv, OneTransactionPerNonce
  <2>3. CASE t \in E /\ u \in E
    BY <1>5, <2>3 DEF Execute
  <2>4. ASSUME NEW x \in Tx, executed[x] > 0, NEW y \in E, SameSlot(x, y) PROVE FALSE
    <3>1. Nonce[x] < nonce[From[x]] /\ nonce[From[y]] <= Nonce[y]
      BY <2>4 DEF Inv, NonceConsumed, Execute
    <3>2. Nonce[x] \in Nat /\ nonce[From[x]] \in Nat /\ From[x] = From[y] /\ Nonce[x] = Nonce[y]
      BY <1>1, <2>4 DEF Inv, NonceConsumed, SameSlot
    <3>3. QED BY <3>1, <3>2
  <2>5. SameSlot(u, t)
    BY <1>5 DEF SameSlot
  <2>6. QED BY <1>5, <2>1, <2>2, <2>3, <2>4, <2>5
<1>6. QED BY <1>3, <1>4, <1>5 DEF Inv, OneTransactionPerNonce, SameSlot

LEMMA RevertInv ==
  ASSUME Inv, Revert PROVE Inv'
BY NonceOrderAssumption DEF Inv, NonceConsumed, OneTransactionPerNonce, SameSlot, Revert

(* Every behaviour of the specification executes at most one transaction   *)
(* per account and nonce (execute_batch_inline, execute_fast_path_batch,   *)
(* rollback_last_checkpoint through the refinement).                       *)
THEOREM OncePerNonce == Spec => [](NonceConsumed /\ OneTransactionPerNonce)
<1>1. Init => Inv
  BY NonceOrderAssumption DEF Init, Inv, NonceConsumed, OneTransactionPerNonce
<1>2. Inv /\ [Next]_vars => Inv'
  <2>1. Inv /\ UNCHANGED vars => Inv'
    BY DEF Inv, NonceConsumed, OneTransactionPerNonce, SameSlot, vars
  <2>2. QED BY <2>1, ExecuteInv, RevertInv DEF Next
<1>3. Inv => NonceConsumed /\ OneTransactionPerNonce
  BY DEF Inv
<1>4. QED BY <1>1, <1>2, <1>3, PTL DEF Spec
=============================================================================
