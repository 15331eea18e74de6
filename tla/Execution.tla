----------------------------- MODULE Execution -----------------------------
(***************************************************************************)
(* The two executors of rinku-node/src/state/transactions.rs as pure       *)
(* operators on the ledger's value state: execute_batch_inline, which runs *)
(* the transactions of a checkpoint, and execute_fast_path_batch, which    *)
(* runs transactions certified between checkpoints.  Both are called with  *)
(* the state's write lock held, so each is one atomic step of Ledger.      *)
(*                                                                         *)
(* Transactions are numbers, ordered like the hashes they stand for, and   *)
(* addresses are numbers, ordered like the address strings.                *)
(***************************************************************************)
EXTENDS Integers, Sequences, FiniteSets, SequencesExt, Maps

CONSTANTS Tx,        \* transaction hashes (a set of naturals)
          Addr,      \* account addresses (a set of naturals)
          TxInfo,    \* [Tx -> [from, to, amount, nonce, gas_price, kind]]
          PoolCap    \* FAST_PATH_FINALIZED_CAP

Kind == {"Transfer", "Stake", "Unstake", "ClaimRewards", "Contract", "Consolidation"}

ASSUME ExecutionAssumption ==
  /\ Tx \subseteq Nat /\ Addr \subseteq Nat
  /\ TxInfo \in [Tx -> [from : Addr, to : Addr, amount : Nat, nonce : Nat,
                        gas_price : Nat, kind : Kind]]
  /\ PoolCap \in Nat \ {0}

Account == [balance : Nat, nonce : Nat, staked : Nat]
NewAccount == [balance |-> 0, nonce |-> 0, staked |-> 0]

(* The order (from, nonce, hash) in which every batch is sorted. *)
Before(t, u) ==
  LET a == TxInfo[t]
      b == TxInfo[u]
  IN \/ a.from < b.from
     \/ a.from = b.from /\ a.nonce < b.nonce
     \/ a.from = b.from /\ a.nonce = b.nonce /\ t < u

Sorted(S) ==
  [i \in 1..Cardinality(S) |-> CHOOSE t \in S : Cardinality({u \in S : Before(u, t)}) = i - 1]

(* What the sender pays: a stake locks its amount, the other special kinds *)
(* pay gas only; a contract's value is not moved here.                     *)
TxCost(t) ==
  TxInfo[t].gas_price +
    IF TxInfo[t].kind \in {"Unstake", "ClaimRewards", "Contract"} THEN 0 ELSE TxInfo[t].amount

Debit(accounts, t) ==
  [accounts EXCEPT ![TxInfo[t].from].balance = @ - TxCost(t),
                   ![TxInfo[t].from].nonce = TxInfo[t].nonce + 1]

Credit(accounts, addr, amount) ==
  LET old == GetOr(accounts, addr, NewAccount)
  IN Insert(accounts, addr, [old EXCEPT !.balance = @ + amount])

CreditReceiver(accounts, t) ==
  IF TxInfo[t].kind \in {"Transfer", "Consolidation"}
  THEN Credit(accounts, TxInfo[t].to, TxInfo[t].amount)
  ELSE accounts

-----------------------------------------------------------------------------
(* execute_batch_inline.                                                   *)

(* The nonces each sender has in the batch. *)
AvailableNonces(txs) ==
  [a \in Addr |-> {TxInfo[t].nonce : t \in {u \in Range(txs) :
                      TxInfo[u].from = a /\ TxInfo[u].kind # "Consolidation"}}]

(* A sender whose account is behind its first nonce of the batch is moved  *)
(* forward when the fast-path pool shows that nonce was reached there.     *)
BridgeNonces(accounts, pool, available) ==
  [a \in DOMAIN accounts |->
     LET fast == {TxInfo[t].nonce + 1 : t \in {u \in Range(pool) : TxInfo[u].from = a}}
         first == Min(available[a])
     IN IF /\ available[a] # {}
           /\ first > accounts[a].nonce
           /\ fast # {} /\ Max(fast) >= first
        THEN [accounts[a] EXCEPT !.nonce = first]
        ELSE accounts[a]]

(* Mutant: the whole fee is burned and half of it is paid out too. *)
AppliedBurningWholeFee(s, t, paid) ==
  [s EXCEPT !.accounts = CreditReceiver(paid, t),
            !.burned = @ + TxInfo[t].gas_price,
            !.to_validators = @ + TxInfo[t].gas_price \div 2,
            !.executed = @ \union {t},
            !.progress = TRUE,
            !.special = IF TxInfo[t].kind = "Transfer" THEN @ ELSE Append(@, t)]

(* The bookkeeping of an executed transaction.  `paid` is the account map  *)
(* after the sender's debit; a transaction whose sender has no account is  *)
(* executed without one.                                                   *)
Applied(s, t, paid) ==
  [s EXCEPT !.accounts = CreditReceiver(paid, t),
            !.burned = @ + TxInfo[t].gas_price \div 2,
            !.to_validators = @ + TxInfo[t].gas_price \div 2,
            !.executed = @ \union {t},
            !.progress = TRUE,
            !.special = IF TxInfo[t].kind = "Transfer" THEN @ ELSE Append(@, t)]

(* Mutant: a nonce the account has passed is executed again. *)
InlineStepReplaying(s, t, available) ==
  LET from == TxInfo[t].from
  IN IF from \in s.gap_skipped THEN [s EXCEPT !.deferred = Append(@, t)]
     ELSE IF TxInfo[t].nonce > s.accounts[from].nonce
          THEN [s EXCEPT !.deferred = Append(@, t), !.gap_skipped = @ \union {from}]
     ELSE IF s.accounts[from].balance < TxCost(t)
          THEN [s EXCEPT !.balance_deferred = Append(@, t)]
     ELSE Applied(s, t, Debit(s.accounts, t))

InlineStep(s, t, available) ==
  LET from == TxInfo[t].from
      nonce == TxInfo[t].nonce
  IN IF TxInfo[t].kind = "Consolidation" THEN s
     ELSE IF from \in s.gap_skipped THEN [s EXCEPT !.deferred = Append(@, t)]
     ELSE IF from \notin DOMAIN s.accounts THEN Applied(s, t, s.accounts)
     ELSE IF nonce > s.accounts[from].nonce
          THEN [s EXCEPT !.deferred = Append(@, t),
                         !.gap_skipped = IF s.accounts[from].nonce \in available[from]
                                         THEN @ ELSE @ \union {from}]
     ELSE IF nonce < s.accounts[from].nonce THEN s
     ELSE IF s.accounts[from].balance < TxCost(t)
          THEN [s EXCEPT !.balance_deferred = Append(@, t)]
     ELSE Applied(s, t, Debit(s.accounts, t))

(* One cross-sender retry pass over the transactions that lacked funds. *)
RetryStep(s, t) ==
  LET from == TxInfo[t].from
  IN IF from \notin DOMAIN s.accounts THEN Applied(s, t, s.accounts)
     ELSE IF \/ TxInfo[t].nonce # s.accounts[from].nonce
             \/ s.accounts[from].balance < TxCost(t)
          THEN [s EXCEPT !.balance_deferred = Append(@, t)]
     ELSE Applied(s, t, Debit(s.accounts, t))

RetryPass(s) ==
  FoldLeft(RetryStep,
           [s EXCEPT !.balance_deferred = <<>>, !.progress = FALSE],
           Sorted(Range(s.balance_deferred)))

MaxCrossSenderPasses == 5

ExecuteBatchInline(accounts, pool, burned, to_validators, txs, available) ==
  LET start == [accounts |-> BridgeNonces(accounts, pool, available),
                burned |-> burned, to_validators |-> to_validators,
                executed |-> {}, special |-> <<>>, deferred |-> <<>>,
                balance_deferred |-> <<>>, gap_skipped |-> {}, progress |-> TRUE]
      first == FoldLeft(LAMBDA s, t : InlineStep(s, t, available), start, txs)
      pass[k \in 0..MaxCrossSenderPasses] ==
        IF k = 0 THEN [first EXCEPT !.progress = TRUE]
        ELSE LET last == pass[k-1]
             IN IF last.balance_deferred = <<>> \/ ~last.progress THEN last ELSE RetryPass(last)
  IN pass[MaxCrossSenderPasses]

-----------------------------------------------------------------------------
(* execute_fast_path_batch.  A transaction that is settled in one pass     *)
(* (executed, rejected or found already applied) is not looked at again; a *)
(* future nonce skips its sender for the rest of the pass only.            *)

PushToPool(pool, t) ==
  LET pushed == IF t \in Range(pool) THEN pool ELSE Append(pool, t)
  IN SubSeq(pushed, 1 + Len(pushed) - Min({Len(pushed), PoolCap}), Len(pushed))

FastPathExecuted(s, t) ==
  LET from == TxInfo[t].from
      paid == Debit(s.accounts, t)
      locked == IF TxInfo[t].kind = "Stake"
                THEN [paid EXCEPT ![from].staked = @ + TxInfo[t].amount] ELSE paid
  IN [s EXCEPT !.accounts = CreditReceiver(locked, t),
               !.burned = @ + TxInfo[t].gas_price,
               !.pool = PushToPool(@, t),
               !.settled = @ \union {t},
               !.executed = @ \union {t},
               !.progress = TRUE]

(* Mutant: a nonce the account has passed is executed again. *)
FastPathStepReplaying(s, t) ==
  LET from == TxInfo[t].from
  IN IF t \in s.settled \/ from \in s.skipped THEN s
     ELSE IF s.accounts[from].balance < TxCost(t) THEN [s EXCEPT !.settled = @ \union {t}]
     ELSE IF TxInfo[t].nonce > s.accounts[from].nonce
          THEN [s EXCEPT !.skipped = @ \union {from}]
     ELSE FastPathExecuted(s, t)

(* What a transaction needs to run: funds, and the next nonce. *)
Payable(accounts, t) ==
  /\ TxInfo[t].kind \notin {"Consolidation", "Contract"}
  /\ TxInfo[t].from \in DOMAIN accounts
  /\ accounts[TxInfo[t].from].balance >= TxCost(t)

FastPathRuns(accounts, t) == Payable(accounts, t) /\ TxInfo[t].nonce = accounts[TxInfo[t].from].nonce

FastPathStep(s, t) ==
  LET from == TxInfo[t].from
  IN IF t \in s.settled \/ from \in s.skipped THEN s
     ELSE IF FastPathRuns(s.accounts, t) THEN FastPathExecuted(s, t)
     ELSE IF Payable(s.accounts, t) /\ TxInfo[t].nonce > s.accounts[from].nonce
          THEN [s EXCEPT !.skipped = @ \union {from}]
     ELSE [s EXCEPT !.settled = @ \union {t}]

MaxFastPathPasses == 4

ExecuteFastPathBatch(accounts, pool, burned, txs) ==
  LET start == [accounts |-> accounts, pool |-> pool, burned |-> burned,
                settled |-> {}, executed |-> {}, skipped |-> {}, progress |-> TRUE]
      pass[k \in 0..MaxFastPathPasses] ==
        IF k = 0 THEN start
        ELSE LET last == pass[k-1]
             IN IF ~last.progress THEN last
                ELSE FoldLeft(FastPathStep, [last EXCEPT !.skipped = {}, !.progress = FALSE], txs)
  IN pass[MaxFastPathPasses]
=============================================================================
