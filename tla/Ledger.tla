------------------------------- MODULE Ledger -------------------------------
(***************************************************************************)
(* One node's ledger: the fast path and the checkpoint path both write the *)
(* same accounts.  rinku-node/src/state/transactions.rs (fast-path batch,  *)
(* deferred queue, special transactions), state/checkpoints.rs             *)
(* (apply_checkpoint_with_finalized_hashes in its two lock phases,         *)
(* rollback_last_checkpoint), checkpoint.rs (the proposer's application),  *)
(* gossip.rs (a late push of transaction bodies) and the stake side of     *)
(* rewards.rs.                                                             *)
(*                                                                         *)
(* Every action is one critical section: the code releases the state lock  *)
(* between them and the tasks of a node interleave there.                  *)
(***************************************************************************)
EXTENDS Execution

CONSTANTS Task,             \* concurrent checkpoint applications
          MaxHeight,        \* bound on checkpoint heights
          MaxRollbacks,     \* bound on fork resolutions
          Sent,             \* the transactions that clients send
          Variants,         \* competing checkpoints at one height (lower hash = lower number)
          InitialBalance,   \* [Addr' -> Nat], the accounts at genesis
          InitialRewards,   \* [Addr -> Nat], rewards.pending_rewards
          MinStake,         \* config.min_stake_amount
          MaxDeferred,      \* MAX_DEFERRED
          MaxDeferredRetries

ASSUME LedgerAssumption ==
  /\ MaxHeight \in Nat /\ MaxRollbacks \in Nat /\ Variants \subseteq Nat /\ Sent \subseteq Tx
  /\ 0 \notin Tx
  /\ DOMAIN InitialBalance \subseteq Addr
  /\ \A a \in DOMAIN InitialBalance : InitialBalance[a] \in Nat
  /\ InitialRewards \in [Addr -> Nat]
  /\ MinStake \in Nat /\ MaxDeferred \in Nat /\ MaxDeferredRetries \in Nat

VARIABLES
  accounts,        \* state.accounts
  burned,          \* state.total_burned
  to_validators,   \* state.total_to_validators
  pool,            \* fast_path_finalized_txs in fast_path_finalized_order
  dag,             \* [Tx -> {"absent", "pending", "final"}]
  checkpoints,     \* state.checkpoints
  pre_snapshot,    \* pre_checkpoint_accounts_snapshot, as a set with at most one element
  deferred,        \* deferred_batch_txs
  retries,         \* deferred_batch_retry_counts
  stakes,          \* rewards.stakes: staker -> amount
  cooling,         \* stakers whose position is inside the unstake cooldown
  processed,       \* rewards.processed_stake_tx_hashes
  rewards,         \* rewards.pending_rewards
  registrations,   \* fast-path batches whose rewards section has not run yet
  task,            \* the local state of each checkpoint application
  rollbacks,       \* number of fork resolutions so far
  certified,       \* the transactions of every checkpoint <<height, variant>> seen
  executed,        \* history: how often each transaction's effect is in the accounts
  overpaid         \* history: unstake payouts minus the account stake they released

ledger == <<accounts, burned, to_validators, pool, executed, overpaid>>
queue == <<deferred, retries>>
staking == <<stakes, cooling, processed, rewards>>
chain == <<checkpoints, pre_snapshot, rollbacks, certified>>
vars == <<ledger, dag, chain, queue, staking, registrations, task>>

Special == {"Stake", "Unstake", "ClaimRewards"}
ByHash(S) == SelectSeq([t \in 1..Max(Tx) |-> t], LAMBDA t : t \in S)

SumOver(S, f(_)) == MapThenSumSet(f, S)

Local == IF checkpoints = <<>> THEN 0 ELSE Last(checkpoints).height

NoCredits == [unstake |-> <<>>, claim |-> <<>>, stake |-> <<>>]

Idle == [pc |-> "idle", cp |-> <<0, 0>>, list |-> {}, hashes |-> {}, fast |-> {}, txs |-> <<>>,
         deferred |-> <<>>, retries |-> <<>>, special |-> <<>>,
         credits |-> NoCredits, staked |-> <<>>, late |-> FALSE]

Init ==
  /\ accounts = [a \in DOMAIN InitialBalance |->
                   [balance |-> InitialBalance[a], nonce |-> 0, staked |-> 0]]
  /\ burned = 0 /\ to_validators = 0
  /\ pool = <<>>
  /\ dag = [t \in Tx |-> "absent"]
  /\ checkpoints = <<>> /\ pre_snapshot = {} /\ certified = <<>> /\ rollbacks = 0
  /\ deferred = <<>> /\ retries = <<>>
  /\ stakes = <<>> /\ cooling = {} /\ processed = {} /\ rewards = InitialRewards
  /\ registrations = {}
  /\ task = [p \in Task |-> Idle]
  /\ executed = [t \in Tx |-> 0] /\ overpaid = 0

-----------------------------------------------------------------------------
(* rewards.rs: the stake positions.                                        *)

(* RewardsService::stake.  A hash seen before changes nothing while the    *)
(* staker has a position, and stakes again when the position is gone.      *)
RewardsStake(r, t) ==
  LET a == TxInfo[t].from
      amount == TxInfo[t].amount
  IN IF amount < MinStake \/ (t \in r.processed /\ a \in DOMAIN r.stakes) THEN r
     ELSE [r EXCEPT !.stakes = Insert(@, a, GetOr(@, a, 0) + amount),
                    !.cooling = @ \union {a},
                    !.processed = @ \union {t}]

RegisterStakeDedup(r, t) == [r EXCEPT !.processed = @ \union {t}]

(* RewardsService::unstake pays the whole position once its cooldown is    *)
(* over and is an error otherwise.                                         *)
RewardsUnstake(r, t) ==
  LET a == TxInfo[t].from
  IN IF a \in DOMAIN r.stakes /\ a \notin r.cooling
     THEN [r EXCEPT !.credits.unstake = Insert(@, a, r.stakes[a]),
                    !.stakes = Without(@, {a})]
     ELSE r

ClaimRewards(r, t) ==
  LET a == TxInfo[t].from
  IN IF r.rewards[a] > 0
     THEN [r EXCEPT !.credits.claim = Insert(@, a, r.rewards[a]), !.rewards[a] = 0]
     ELSE r

Rewards == [stakes |-> stakes, cooling |-> cooling, processed |-> processed,
            rewards |-> rewards, credits |-> NoCredits]

SetRewards(r) ==
  /\ stakes' = r.stakes /\ cooling' = r.cooling
  /\ processed' = r.processed /\ rewards' = r.rewards

(* The cooldown of a position (24 h of wall-clock time) runs out. *)
CooldownPasses(a) ==
  /\ a \in cooling
  /\ cooling' = cooling \ {a}
  /\ UNCHANGED <<ledger, dag, chain, queue, stakes, processed, rewards, registrations, task>>

-----------------------------------------------------------------------------
(* The fast path.                                                          *)

CountExecuted(E) == [t \in Tx |-> IF t \in E THEN executed[t] + 1 ELSE executed[t]]

(* execute_fast_path_batch under the state lock.  The gossip loop hands it *)
(* any confirmed transactions, sorted; a batch of which none can run       *)
(* changes nothing.  The stake registrations are made after the lock is    *)
(* released, under the rewards lock.                                       *)
FastPathBatch(S) ==
  /\ \E t \in S : FastPathRuns(accounts, t)
  /\ \E r \in {ExecuteFastPathBatch(accounts, pool, burned, Sorted(S))} :
       LET special == {t \in r.executed : TxInfo[t].kind \in Special}
       IN /\ accounts' = r.accounts /\ burned' = r.burned /\ pool' = r.pool
          /\ executed' = CountExecuted(r.executed)
          /\ registrations' = registrations \union IF special = {} THEN {} ELSE {Sorted(special)}
  /\ UNCHANGED <<to_validators, overpaid, dag, chain, queue, staking, task>>

RegisterOne(r, t) ==
  IF TxInfo[t].kind = "Stake" THEN RewardsStake(r, t) ELSE RegisterStakeDedup(r, t)

(* The rewards section of execute_fast_path_batch. *)
RegisterFastPathStakes(batch) ==
  /\ batch \in registrations
  /\ SetRewards(FoldLeft(RegisterOne, Rewards, batch))
  /\ registrations' = registrations \ {batch}
  /\ UNCHANGED <<ledger, dag, chain, queue, task>>

-----------------------------------------------------------------------------
(* Transactions enter the DAG by gossip, sync or a leader's bodies.        *)
AddToDag(t) ==
  /\ dag[t] = "absent"
  /\ dag' = [dag EXCEPT ![t] = "pending"]
  /\ UNCHANGED <<ledger, chain, queue, staking, registrations, task>>

(* purge_zombie_dag_txs: unfinalized nodes that the account's nonce has    *)
(* passed, or that cannot be reached from it through unfinalized nodes.    *)
Zombies ==
  LET pending == {t \in Tx : dag[t] = "pending"}
      confirmed(t) == GetOr(accounts, TxInfo[t].from, NewAccount).nonce
      has(a, n) == \E u \in pending : TxInfo[u].from = a /\ TxInfo[u].nonce = n
  IN {t \in pending \ Range(pool) :
        \/ TxInfo[t].nonce < confirmed(t)
        \/ \E n \in confirmed(t)..TxInfo[t].nonce - 1 : ~has(TxInfo[t].from, n)}

PurgeZombieDagTxs ==
  /\ Zombies # {}
  /\ dag' = [t \in Tx |-> IF t \in Zombies THEN "absent" ELSE dag[t]]
  /\ UNCHANGED <<ledger, chain, queue, staking, registrations, task>>

PurgeStaleDeferredTxs ==
  LET live(t) == \/ TxInfo[t].from \notin DOMAIN accounts
                 \/ TxInfo[t].nonce >= accounts[TxInfo[t].from].nonce
      kept == SelectSeq(deferred, live)
  IN /\ kept # deferred
     /\ deferred' = kept
     /\ retries' = Restrict(retries, DOMAIN retries \intersect Range(kept))
     /\ UNCHANGED <<ledger, dag, chain, staking, registrations, task>>

-----------------------------------------------------------------------------
(* apply_checkpoint_with_finalized_hashes_inner.                           *)

(* Every checkpoint <<height, variant>> has one transaction list.  The     *)
(* first node to see it may choose any list that was not final before.     *)
MayContain(cp, S) ==
  IF cp \in DOMAIN certified THEN S = certified[cp]
  ELSE \A i \in 1..Len(checkpoints) : S \intersect checkpoints[i].hashes = {}

Unexpired(q) == SelectSeq(q, LAMBDA t : GetOr(retries, t, 0) < MaxDeferredRetries)

(* The caller checks that the height is the next one, then the deferred    *)
(* queue is taken, before any lock on the state.  Without a list from the  *)
(* leader the node uses its own unfinalized nodes if their Merkle root is  *)
(* the checkpoint's, and no transaction otherwise.                         *)
BeginApply(p, v, content, listed) ==
  LET cp == <<Local + 1, v>>
      pending == {t \in Tx : dag[t] = "pending"}
  IN /\ task[p].pc = "idle"
     /\ Local < MaxHeight
     /\ MayContain(cp, content)
     /\ certified' = Insert(certified, cp, content)
     /\ task' = [task EXCEPT ![p] =
          [Idle EXCEPT !.pc = "taken", !.cp = cp,
                       !.list = IF listed THEN content ELSE {},
                       !.hashes = IF listed \/ content \subseteq pending THEN content ELSE {},
                       !.deferred = Unexpired(deferred), !.retries = retries]]
     /\ deferred' = <<>>
     /\ UNCHANGED <<ledger, dag, checkpoints, pre_snapshot, rollbacks, retries, staking, registrations>>

Abort(p) ==
  /\ task' = [task EXCEPT ![p] = Idle]
  /\ UNCHANGED <<ledger, dag, chain, queue, staking, registrations>>

(* Phase 1, under the write lock: snapshot the accounts, note which        *)
(* transactions the fast path has run, mark the nodes final.               *)
Phase1(p) ==
  LET k == task[p]
      present == {t \in k.hashes : dag[t] # "absent"}
      fast == k.hashes \intersect Range(pool)
  IN /\ k.pc = "taken"
     /\ k.cp[1] > Local
     /\ pre_snapshot' = {[height |-> k.cp[1], accounts |-> accounts, executed |-> executed]}
     /\ dag' = [t \in Tx |-> IF t \in present THEN "final" ELSE dag[t]]
     /\ task' = [task EXCEPT ![p] =
          [k EXCEPT !.pc = "marked",
                    !.fast = fast,
                    !.txs = Sorted(present \ fast),
                    !.special = ByHash({t \in present \intersect fast : TxInfo[t].kind \in Special}),
                    !.deferred = SelectSeq(@, LAMBDA t : t \notin fast)]]
     /\ UNCHANGED <<ledger, checkpoints, rollbacks, certified, queue, staking, registrations>>

Phase1Stale(p) == task[p].pc = "taken" /\ task[p].cp[1] <= Local /\ Abort(p)

(* The lock is released after the batch: what the task still needs is the  *)
(* deferred transactions, the special ones and those the fast path ran.    *)
Executed(p, k, r, kept) ==
  LET special == r.special \o k.special
  IN /\ accounts' = r.accounts /\ burned' = r.burned /\ to_validators' = r.to_validators
     /\ executed' = CountExecuted(r.executed) /\ UNCHANGED overpaid
     /\ task' = [task EXCEPT ![p] =
          [Idle EXCEPT !.pc = "executed", !.late = k.late, !.retries = k.retries,
                       !.hashes = IF k.late THEN k.hashes ELSE {},
                       !.deferred = r.deferred \o kept, !.special = special,
                       !.fast = k.fast \intersect Range(special)]]

(* Mutant: phase 2 trusts the height check of phase 1. *)
Phase2Unguarded(p) ==
  LET k == task[p]
  IN /\ k.pc = "marked"
     /\ checkpoints' = Append(checkpoints,
          [height |-> k.cp[1], variant |-> k.cp[2], hashes |-> k.list])
     /\ pool' = SelectSeq(pool, LAMBDA t : t \notin k.fast)
     /\ \E r \in {ExecuteBatchInline(accounts, pool, burned, to_validators, k.txs, AvailableNonces(k.txs))} :
          Executed(p, k, r, SelectSeq(k.deferred, LAMBDA t : t \notin Range(k.txs)))
     /\ UNCHANGED <<dag, pre_snapshot, rollbacks, certified, queue, staking, registrations>>

(* Phase 2, under the write lock again: push the checkpoint, execute what  *)
(* phase 1 selected, forget the fast-path entries it noted.                *)
Phase2(p) ==
  LET k == task[p]
  IN /\ k.pc = "marked"
     /\ k.cp[1] > Local
     /\ checkpoints' = Append(checkpoints,
          [height |-> k.cp[1], variant |-> k.cp[2], hashes |-> k.list])
     /\ pool' = SelectSeq(pool, LAMBDA t : t \notin k.fast)
     /\ \E r \in {ExecuteBatchInline(accounts, pool, burned, to_validators, k.txs, AvailableNonces(k.txs))} :
          Executed(p, k, r, SelectSeq(k.deferred, LAMBDA t : t \notin Range(k.txs)))
     /\ UNCHANGED <<dag, pre_snapshot, rollbacks, certified, queue, staking, registrations>>

(* The race guard: another application advanced the height in the gap. *)
Phase2Stale(p) == task[p].pc = "marked" /\ task[p].cp[1] <= Local /\ Abort(p)

(* apply_certified_checkpoint: the proposer applies its own checkpoint     *)
(* under one lock.  It does not take the deferred queue.                   *)
ProposerApply(p, v, content) ==
  LET cp == <<Local + 1, v>>
      fast == content \intersect Range(pool)
      txs == Sorted(content \ fast)
  IN /\ task[p].pc = "idle"
     /\ Local < MaxHeight
     /\ MayContain(cp, content)
     /\ \A t \in content : dag[t] # "absent"
     /\ certified' = Insert(certified, cp, content)
     /\ pre_snapshot' = {[height |-> cp[1], accounts |-> accounts, executed |-> executed]}
     /\ checkpoints' = Append(checkpoints, [height |-> cp[1], variant |-> v, hashes |-> content])
     /\ dag' = [t \in Tx |-> IF t \in content THEN "final" ELSE dag[t]]
     /\ pool' = SelectSeq(pool, LAMBDA t : t \notin fast)
     /\ \E r \in {ExecuteBatchInline(accounts, pool, burned, to_validators, txs, AvailableNonces(txs))} :
          Executed(p, [Idle EXCEPT !.cp = cp, !.hashes = content, !.fast = fast,
                         !.special = Sorted({t \in fast : TxInfo[t].kind \in Special})],
                   r, <<>>)
     /\ UNCHANGED <<rollbacks, queue, staking, registrations>>

(* apply_received_checkpoint for a checkpoint already applied: missing     *)
(* bodies are added and the whole list is executed again with the deferred *)
(* queue (execute_finalized_transactions_batch, prepare_batch_txs).        *)
LateSyncPush(p, i) ==
  LET content == certified[<<checkpoints[i].height, checkpoints[i].variant>>]
      taken == Unexpired(deferred)
  IN /\ task[p].pc = "idle"
     /\ \E t \in content : dag[t] = "absent"
     /\ dag' = [t \in Tx |-> IF t \in content /\ dag[t] = "absent" THEN "pending" ELSE dag[t]]
     /\ deferred' = <<>>
     /\ task' = [task EXCEPT ![p] =
          [Idle EXCEPT !.pc = "late", !.late = TRUE, !.hashes = content, !.retries = retries,
                       !.txs = Sorted(content \union Range(taken))]]
     /\ UNCHANGED <<ledger, chain, retries, staking, registrations>>

LateExecute(p) ==
  LET k == task[p]
      available == [a \in Addr |-> {TxInfo[t].nonce : t \in {u \in Range(k.txs) : TxInfo[u].from = a}}]
  IN /\ k.pc = "late"
     /\ \E r \in {ExecuteBatchInline(accounts, pool, burned, to_validators, k.txs, available)} :
          Executed(p, k, r, <<>>)
     /\ UNCHANGED <<pool, dag, chain, queue, staking, registrations>>

-----------------------------------------------------------------------------
(* The tail of every application, outside the state lock.                  *)

(* store_batch_deferred overwrites the queue with what this batch leaves;  *)
(* above the cap the lowest nonces stay.  Retry counts are only compared   *)
(* with MAX_DEFERRED_RETRIES and saturate there.                           *)
StoreBatchDeferred(p) ==
  LET k == task[p]
      kept == IF Len(k.deferred) <= MaxDeferred THEN k.deferred
              ELSE SubSeq(SetToSortSeq(Range(k.deferred), LAMBDA t, u :
                            \/ TxInfo[t].nonce < TxInfo[u].nonce
                            \/ TxInfo[t].nonce = TxInfo[u].nonce /\ t < u),
                          1, MaxDeferred)
  IN /\ k.pc = "executed"
     /\ deferred' = kept
     /\ retries' = [t \in Range(kept) |-> Min({GetOr(k.retries, t, 0) + 1, MaxDeferredRetries})]
     /\ task' = [task EXCEPT ![p] = [k EXCEPT !.pc = IF k.special = <<>> THEN "settled" ELSE "stored",
                       !.deferred = <<>>, !.retries = <<>>]]
     /\ UNCHANGED <<ledger, dag, chain, staking, registrations>>

(* Mutant: the stake is added whether or not the fast path has applied it. *)
StakeSpecialTwice(r, t, fast) ==
  [RewardsStake(r, t) EXCEPT !.credits.stake =
     Insert(@, TxInfo[t].from, GetOr(@, TxInfo[t].from, 0) + TxInfo[t].amount)]

(* A stake that the fast path has not applied adds to the account's stake  *)
(* in the second half; its delta is 0 otherwise.                           *)
StakeSpecial(r, t, fast) ==
  LET a == TxInfo[t].from
      s == RewardsStake(r, t)
  IN [s EXCEPT !.credits.stake =
        Insert(@, a, GetOr(@, a, 0) + IF t \in fast THEN 0 ELSE TxInfo[t].amount)]

SpecialOne(r, t, fast) ==
  CASE TxInfo[t].kind = "Stake" -> StakeSpecial(r, t, fast)
    [] TxInfo[t].kind = "Unstake" -> RewardsUnstake(r, t)
    [] TxInfo[t].kind = "ClaimRewards" -> ClaimRewards(r, t)
    [] OTHER -> r

(* process_batch_special_txs_with_skip, first half, under the rewards lock. *)
SpecialRewards(p) ==
  LET k == task[p]
  IN /\ k.pc = "stored"
     /\ \E r \in {FoldLeft(LAMBDA s, t : SpecialOne(s, t, k.fast), Rewards, k.special)} :
          /\ SetRewards(r)
          /\ task' = [task EXCEPT ![p] = [k EXCEPT !.pc = "credits", !.credits = r.credits, !.special = <<>>]]
     /\ UNCHANGED <<ledger, dag, chain, queue, registrations>>

CreditSpecial(a, acc, c) ==
  [acc EXCEPT
     !.balance = @ + GetOr(c.unstake, a, 0) + GetOr(c.claim, a, 0),
     !.staked = (IF a \in DOMAIN c.unstake THEN 0 ELSE @) + GetOr(c.stake, a, 0)]

(* Second half, under the state lock. *)
SpecialCredits(p) ==
  LET k == task[p]
  IN /\ k.pc = "credits"
     /\ accounts' = [a \in DOMAIN accounts |-> CreditSpecial(a, accounts[a], k.credits)]
     /\ overpaid' = overpaid + SumOver(DOMAIN k.credits.unstake,
                                       LAMBDA a : k.credits.unstake[a] - accounts[a].staked)
     /\ task' = [task EXCEPT ![p] = [k EXCEPT !.pc = "settled", !.credits = NoCredits]]
     /\ UNCHANGED <<burned, to_validators, pool, executed, dag, chain, queue, staking, registrations>>

(* reconcile_rewards_stakes_from_accounts: the stakes are read under the   *)
(* state lock and written to the rewards service under its own.            *)
ReconcileRead(p) ==
  /\ task[p].pc = "settled" /\ ~task[p].late
  /\ task' = [task EXCEPT ![p] =
       [Idle EXCEPT !.pc = "read", !.staked = [a \in DOMAIN accounts |-> accounts[a].staked]]]
  /\ UNCHANGED <<ledger, dag, chain, queue, staking, registrations>>

ReconcileWrite(p) ==
  LET staked == task[p].staked
      holders == {a \in DOMAIN staked : staked[a] > 0}
  IN /\ task[p].pc = "read"
     /\ stakes' = Restrict(staked, holders)
     /\ cooling' = (cooling \intersect holders) \union (holders \ DOMAIN stakes)
     /\ task' = [task EXCEPT ![p] = Idle]
     /\ UNCHANGED <<ledger, dag, chain, queue, processed, rewards, registrations>>

(* set_tx_checkpoint_height after a late push. *)
LateFinalize(p) ==
  /\ task[p].pc = "settled" /\ task[p].late
  /\ dag' = [t \in Tx |-> IF t \in task[p].hashes /\ dag[t] # "absent" THEN "final" ELSE dag[t]]
  /\ task' = [task EXCEPT ![p] = Idle]
  /\ UNCHANGED <<ledger, chain, queue, staking, registrations>>

(* Fork resolution: a competing checkpoint with the lower hash at the      *)
(* local tip rolls the tip back, if the accounts before it were kept.      *)
RollbackLastCheckpoint(v) ==
  /\ rollbacks < MaxRollbacks
  /\ checkpoints # <<>>
  /\ v < Last(checkpoints).variant
  /\ \E s \in pre_snapshot :
       /\ s.height = Local
       /\ accounts' = Restrict(s.accounts, DOMAIN s.accounts \intersect DOMAIN accounts)
       /\ executed' = s.executed
  /\ checkpoints' = Front(checkpoints)
  /\ dag' = [t \in Tx |-> IF t \in Last(checkpoints).hashes /\ dag[t] = "final"
                          THEN "pending" ELSE dag[t]]
  /\ pre_snapshot' = {}
  /\ pool' = <<>>
  /\ rollbacks' = rollbacks + 1
  /\ UNCHANGED <<burned, to_validators, overpaid, certified, queue, staking, registrations, task>>

-----------------------------------------------------------------------------
Next ==
  \/ \E S \in SUBSET Sent \ {{}} : FastPathBatch(S)
  \/ \E batch \in registrations : RegisterFastPathStakes(batch)
  \/ \E a \in Addr : CooldownPasses(a)
  \/ \E t \in Sent : AddToDag(t)
  \/ PurgeZombieDagTxs
  \/ PurgeStaleDeferredTxs
  \/ \E v \in Variants : RollbackLastCheckpoint(v)
  \/ \E p \in Task, v \in Variants, content \in SUBSET Sent \ {{}} :
       \/ \E listed \in BOOLEAN : BeginApply(p, v, content, listed)
       \/ ProposerApply(p, v, content)
  \/ \E p \in Task :
       \/ \E i \in 1..Len(checkpoints) : LateSyncPush(p, i)
       \/ Phase1(p) \/ Phase1Stale(p) \/ Phase2(p) \/ Phase2Stale(p)
       \/ LateExecute(p) \/ LateFinalize(p)
       \/ StoreBatchDeferred(p) \/ SpecialRewards(p) \/ SpecialCredits(p)
       \/ ReconcileRead(p) \/ ReconcileWrite(p)

Spec == Init /\ [][Next]_vars

-----------------------------------------------------------------------------
(* Properties.                                                             *)

TypeOK ==
  /\ IsMap(accounts, Addr, Account)
  /\ burned \in Nat /\ to_validators \in Nat
  /\ pool \in Seq(Tx) /\ Len(pool) <= PoolCap
  /\ dag \in [Tx -> {"absent", "pending", "final"}]
  /\ deferred \in Seq(Tx) /\ Len(deferred) <= MaxDeferred
  /\ IsMap(retries, Tx, 1..MaxDeferredRetries)
  /\ IsMap(stakes, Addr, Nat \ {0}) /\ cooling \subseteq Addr
  /\ rewards \in [Addr -> Nat]
  /\ executed \in [Tx -> Nat] /\ processed \subseteq Tx

(* Stake that a batch has taken from the balances and not yet added to the *)
(* accounts, and claims that have left the rewards service.                *)
InFlight(p) ==
  LET k == task[p]
  IN IF k.pc \in {"executed", "stored"}
     THEN SumOver({t \in Range(k.special) : TxInfo[t].kind = "Stake" /\ t \notin k.fast},
                  LAMBDA t : TxInfo[t].amount)
     ELSE SumFunction(k.credits.stake) + SumFunction(k.credits.claim)

Supply ==
  SumOver(DOMAIN accounts, LAMBDA a : accounts[a].balance + accounts[a].staked)
  + burned + to_validators + SumFunction(rewards) + SumOver(Task, InFlight)

(* No interleaving of fast-path batches and checkpoint applications        *)
(* creates or destroys value: balances, stakes, fees and unclaimed rewards *)
(* add up to the genesis supply, except for unstakes paid from a position  *)
(* that differs from the account's stake: a fast-path stake registered     *)
(* during reconcile_rewards_stakes_from_accounts leaves the rewards        *)
(* service and the account apart.  Gas prices are even and there is no     *)
(* rollback.                                                               *)
Conservation ==
  Supply = SumFunction(InitialBalance) + SumFunction(InitialRewards) + overpaid

(* Heights ascend, and a height is left out only when a fork resolution    *)
(* rolled the tip back while an application was open: the caller's check   *)
(* for the next height is made before the phases, whose own guards only    *)
(* ask for a height above the local one.                                   *)
HolesNeedRollbacks ==
  /\ \A i \in 1..Len(checkpoints) : checkpoints[i].height \in i..(i + rollbacks)
  /\ \A i, j \in 1..Len(checkpoints) : i < j => checkpoints[i].height < checkpoints[j].height

(* A transaction the fast path has executed stays executed until its       *)
(* checkpoint (rollback_last_checkpoint clears the pool).                  *)
FastPathFinal == [][\A t \in Range(pool) : executed'[t] > 0]_vars

Nonces == INSTANCE NonceOrder WITH
  nonce <- [a \in Addr |-> GetOr(accounts, a, NewAccount).nonce],
  From <- [t \in Tx |-> TxInfo[t].from],
  Nonce <- [t \in Tx |-> TxInfo[t].nonce],
  MaxNonce <- 1 + Max({TxInfo[t].nonce : t \in Tx})

(* The node's ledger implements NonceOrder: fast-path batches, the two     *)
(* phases of an application, late pushes and rollbacks never run two       *)
(* transactions at one nonce, and never one transaction twice.             *)
ImplementsNonceOrder == Nonces!Spec
=============================================================================
