------------------------------- MODULE Merge -------------------------------
(***************************************************************************)
(* The merge of two partitions (rinku-node/src/merge): detection of direct *)
(* and economic conflicts, their resolution, the cascade rollback, the     *)
(* penalties, and the application of the result to a node's accounts, DAG  *)
(* and checkpoints.                                                        *)
(*                                                                         *)
(* A transaction hash is a number: hashes are only compared.  Weights and  *)
(* stakes are integers, the 1.5 threshold is exact.  execute_merge reads   *)
(* the DAG under one lock, the accounts under a second and writes under a  *)
(* third, so it is three steps.  A DAG holds one transaction per sender    *)
(* and nonce when the exchange begins, so the index of local nonces has no *)
(* collision.  Old peers that send no weights are left out.                *)
(***************************************************************************)
EXTENDS Integers, Sequences, FiniteSets, FiniteSetsExt, SequencesExt, Maps

CONSTANTS
  Sides,        \* the two nodes, one from each partition
  PTx,          \* hash -> [from, to, amount, gas, nonce, parents]
  ForkAccounts, \* the accounts when the partition began
  ForkHeight,   \* the last checkpoint both sides share
  PWeight,      \* hash -> DAG weight
  Stakes,       \* values of visible_stake_pct
  Mergers,      \* the nodes whose merges are explored
  MaxMerges     \* bound: merges per node

VARIABLES
  node,     \* Sides -> [accounts, dag, checkpoints, visible, healed, merges, clean];
            \* clean (history): since its payload went out, the node only merged
  payloads, \* MergePayload messages on the wire: re-delivered at will
  merging   \* Sides -> progress of execute_merge

mgVars == <<node, payloads, merging>>

THRESHOLD_NUM == 3   \* WEIGHT_PROXIMITY_THRESHOLD = 3/2
THRESHOLD_DEN == 2
Percent100 == 100    \* reputation penalties are held in percent

NewAccount(balance) ==
  [balance |-> balance, nonce |-> 0, staked |-> 0, reputation |-> 0, violations |-> 0]

Cost(t) == PTx[t.id].amount + PTx[t.id].gas

Summary(id, side, weight, stake) ==
  [id |-> id, side |-> side, weight |-> weight, stake |-> stake]

IdsOf(S) == {t.id : t \in S}

Slot(t) == <<PTx[t.id].from, PTx[t.id].nonce>>

(***************************************************************************)
(* conflict_detection.rs                                                   *)
(***************************************************************************)
DetectDirect(local, remote) ==
  {c \in local \X remote : Slot(c[1]) = Slot(c[2]) /\ c[1].id # c[2].id}

SentBy(S, a) == MapThenSumSet(Cost, {t \in S : PTx[t.id].from = a})

Received(S, a) ==
  MapThenSumSet(LAMBDA t : PTx[t.id].amount,
                {t \in S : PTx[t.id].to = a /\ PTx[t.id].from # a})

BalanceOf(accounts, a) == IF a \in DOMAIN accounts THEN accounts[a].balance ELSE 0

Senders(S) == {PTx[t.id].from : t \in S}

DetectEconomic(local, remote, accounts) ==
  {a \in Senders(local) \cap Senders(remote) :
     SentBy(local \cup remote, a) > BalanceOf(accounts, a) + Received(local \cup remote, a)}

(***************************************************************************)
(* resolution.rs                                                           *)
(***************************************************************************)
Close(l, r) ==
  LET high == IF l.weight > r.weight THEN l.weight ELSE r.weight
      low  == IF l.weight > r.weight THEN r.weight ELSE l.weight
  IN low > 0 /\ THRESHOLD_DEN * high <= THRESHOLD_NUM * low

LowerHash(l, r) == IF l.id < r.id THEN l ELSE r

Winner(l, r) ==
  IF l.weight = r.weight THEN LowerHash(l, r)
  ELSE IF ~Close(l, r) THEN IF l.weight > r.weight THEN l ELSE r
  ELSE IF l.stake # r.stake THEN IF l.stake > r.stake THEN l ELSE r
  ELSE LowerHash(l, r)

DirectLosers(conflicts) ==
  {IF Winner(c[1], c[2]) = c[1] THEN c[2].id ELSE c[1].id : c \in conflicts}

\* The chained list is sorted stably: a copy of the local side comes first.
LocalFirst(x, y) == x.side = "local" /\ y.side = "remote"

SpendOrder(x, y) ==
  LET nx == PTx[x.id].nonce  ny == PTx[y.id].nonce
  IN \/ nx < ny
     \/ nx = ny /\ x.weight > y.weight
     \/ nx = ny /\ x.weight = y.weight /\ x.id < y.id
     \/ nx = ny /\ x.weight = y.weight /\ x.id = y.id /\ LocalFirst(x, y)

(* Everything from the first unaffordable transaction on loses. *)
EconomicLosers(a, all, accounts) ==
  LET Step(s, t) ==
        IF s.hit \/ s.balance < Cost(t)
        THEN [s EXCEPT !.hit = TRUE, !.losers = @ \cup {t.id}]
        ELSE [s EXCEPT !.balance = @ - Cost(t)]
  IN FoldLeft(Step,
       [balance |-> BalanceOf(accounts, a) + Received(all, a), hit |-> FALSE, losers |-> {}],
       SetToSortSeq({t \in all : PTx[t.id].from = a}, SpendOrder)).losers

(***************************************************************************)
(* cascade.rs                                                              *)
(***************************************************************************)
AssignDagDepths(ids) ==
  LET depth[i \in ids] ==
        LET inSet == PTx[i].parents \cap ids
        IN IF inSet = {} THEN 0
           ELSE 1 + CHOOSE d \in {depth[p] : p \in inSet} : \A p \in inSet : depth[p] <= d
  IN depth

CanonicalOrder(depth, x, y) ==
  LET kx == <<PTx[x.id].nonce, depth[x.id], x.id>>
      ky == <<PTx[y.id].nonce, depth[y.id], y.id>>
  IN \/ \E i \in 1..3 : kx[i] < ky[i] /\ \A j \in 1..(i - 1) : kx[j] = ky[j]
     \/ kx = ky /\ LocalFirst(x, y)

(* Mutant: the receiver is credited although the sender could not pay. *)
ReplayStepCrediting(s, t) ==
  LET tx == PTx[t.id]  credited == Insert(s.balances, tx.to, GetOr(s.balances, tx.to, 0) + tx.amount)
  IN IF tx.nonce # GetOr(s.nonces, tx.from, 0) THEN [s EXCEPT !.failed = @ \cup {t.id}]
     ELSE IF GetOr(s.balances, tx.from, 0) < Cost(t) THEN [s EXCEPT !.balances = credited, !.failed = @ \cup {t.id}]
     ELSE [s EXCEPT !.balances = credited, !.nonces = Insert(@, tx.from, tx.nonce + 1)]

ReplayStep(s, t) ==
  LET tx == PTx[t.id]
      debited == Insert(s.balances, tx.from, GetOr(s.balances, tx.from, 0) - Cost(t))
  IN IF tx.nonce # GetOr(s.nonces, tx.from, 0) \/ GetOr(s.balances, tx.from, 0) < Cost(t)
     THEN [s EXCEPT !.failed = @ \cup {t.id}]
     ELSE [s EXCEPT !.balances = Insert(debited, tx.to, GetOr(debited, tx.to, 0) + tx.amount),
                    !.nonces = Insert(@, tx.from, tx.nonce + 1)]

Surviving(ids, losers, rolled) == ids \ (losers \cup rolled)

(* The survivors are replayed until a pass rolls nothing more back; a hash *)
(* both sides hold is replayed twice.                                      *)
CascadeRollback(losers, all, accounts) ==
  LET depth == AssignDagDepths(IdsOf(all))
      order == SetToSortSeq({t \in all : t.id \notin losers},
                            LAMBDA x, y : CanonicalOrder(depth, x, y))
      start == [balances |-> [a \in DOMAIN accounts |-> accounts[a].balance],
                nonces |-> [a \in DOMAIN accounts |-> accounts[a].nonce], failed |-> {}]
      pass[rolled \in SUBSET IdsOf(all)] ==
        LET r == FoldLeft(ReplayStep, start, SelectSeq(order, LAMBDA t : t.id \notin rolled))
        IN IF r.failed = {}
           THEN [kept |-> Surviving(IdsOf(all), losers, rolled), rolled |-> rolled, balances |-> r.balances]
           ELSE pass[rolled \cup r.failed]
  IN pass[{}]

(***************************************************************************)
(* orchestrator.rs                                                         *)
(***************************************************************************)
AfterFork(dag) == {i \in DOMAIN dag : dag[i].height = 0 \/ dag[i].height > ForkHeight}

(* The penalty is a tenth of the balance read before the merge. *)
Penalized(accounts, report) ==
  [a \in DOMAIN accounts |->
     IF a \in report.reusers
     THEN LET tenth == report.before[a].balance \div 10
          IN [accounts[a] EXCEPT !.balance = IF @ < tenth THEN 0 ELSE @ - tenth, !.staked = 0,
                !.reputation = IF @ + 50 > Percent100 THEN Percent100 ELSE @ + 50,
                !.violations = @ + 1]
     ELSE IF a \in report.overdrawn
     THEN [accounts[a] EXCEPT
             !.reputation = IF @ + 10 > Percent100 THEN Percent100 ELSE @ + 10,
             !.violations = @ + 1]
     ELSE accounts[a]]

(* What execute_merge computes from the local transactions, the payload    *)
(* and the accounts: get_fork_point_accounts returns the current ones.     *)
Report(local, remote, accounts) ==
  LET all      == local \cup remote
      direct   == DetectDirect(local, remote)
      economic == DetectEconomic(local, remote, accounts)
      losers   == DirectLosers(direct) \cup UNION {EconomicLosers(a, all, accounts) : a \in economic}
      cascade  == CascadeRollback(losers, all, accounts)
      reusers  == {PTx[c[1].id].from : c \in direct}
  IN [kept |-> cascade.kept, losers |-> losers, rolled |-> cascade.rolled,
      rejected |-> losers \cup cascade.rolled, balances |-> cascade.balances,
      reusers |-> reusers \cap DOMAIN accounts, overdrawn |-> economic \ reusers,
      before |-> accounts, all |-> IdsOf(all)]

WithBalances(accounts, balances) ==
  [a \in DOMAIN accounts \cup {b \in DOMAIN balances : balances[b] > 0} |->
     IF a \notin DOMAIN accounts THEN NewAccount(balances[a])
     ELSE IF a \in DOMAIN balances THEN [accounts[a] EXCEPT !.balance = balances[a]]
     ELSE accounts[a]]

(* Surviving remote transactions are added, losers removed, cascaded ones  *)
(* unfinalized and marked, survivors finalized at the merge height.        *)
MergedDag(dag, report, remote) ==
  LET present == (DOMAIN dag \cup (report.kept \cap IdsOf(remote))) \ report.losers
  IN [i \in present |->
        IF i \in report.kept
        THEN [height |-> ForkHeight + 1, rolled_back |-> FALSE]
        ELSE IF i \in report.rolled THEN [dag[i] EXCEPT !.height = 0, !.rolled_back = TRUE]
        ELSE dag[i]]

MergedCheckpoints(cps, kept) ==
  Append(SelectSeq(cps, LAMBDA c : c.height <= ForkHeight \/ ~c.provisional),
         [height |-> ForkHeight + 1, provisional |-> FALSE, txs |-> kept])

Idle == [stage |-> "idle"]

Executable(accounts, i) ==
  LET tx == PTx[i]
  IN /\ tx.from \in DOMAIN accounts
     /\ accounts[tx.from].nonce = tx.nonce
     /\ accounts[tx.from].balance >= tx.amount + tx.gas

Executed(accounts, i) ==
  LET tx == PTx[i]
      paid == [accounts EXCEPT ![tx.from].balance = @ - tx.amount - tx.gas, ![tx.from].nonce = @ + 1]
      have == IF tx.to \in DOMAIN paid THEN paid[tx.to] ELSE NewAccount(0)
  IN Insert(paid, tx.to, [have EXCEPT !.balance = @ + tx.amount])

LastHeight(cps) == cps[Len(cps)].height

(* A checkpoint finalizing one transaction: provisional while partitioned. *)
Checkpoint(n, i) ==
  LET s == node[n]  h == LastHeight(s.checkpoints) + 1
  IN /\ i \in DOMAIN s.dag /\ s.dag[i].height = 0
     /\ Executable(s.accounts, i)
     /\ node' = [node EXCEPT
          ![n].accounts = Executed(@, i), ![n].dag[i].height = h,
          ![n].checkpoints = Append(@, [height |-> h, provisional |-> ~s.healed, txs |-> {i}]),
          ![n].clean = @ /\ ~s.healed]
     /\ merging' = [merging EXCEPT ![n] = IF @ = Idle THEN @ ELSE [@ EXCEPT !.fresh = FALSE]]
     /\ UNCHANGED payloads

NoncesOf(dag, a) == {PTx[i].nonce : i \in {j \in DOMAIN dag : PTx[j].from = a}}

(* Admission of the next nonce of its sender (effective nonce). *)
Submit(n, i) ==
  LET s == node[n]  tx == PTx[i]
  IN /\ ~s.healed /\ i \notin DOMAIN s.dag
     /\ tx.from \in DOMAIN s.accounts
     /\ tx.nonce = Cardinality(NoncesOf(s.dag, tx.from))
     /\ s.accounts[tx.from].balance >= tx.amount + tx.gas
     /\ node' = [node EXCEPT ![n].dag =
          Insert(@, i, [height |-> 0, rolled_back |-> FALSE])]
     /\ UNCHANGED <<payloads, merging>>

(* send_merge_payload after the detector saw the partition heal. *)
SendMergePayload(n, visible) ==
  /\ ~node[n].healed
  /\ node' = [node EXCEPT ![n].healed = TRUE, ![n].visible = visible]
  /\ payloads' = payloads \cup
       {[from |-> n, stake |-> visible, txs |-> AfterFork(node[n].dag)]}
  /\ UNCHANGED merging

(* The first lock of execute_merge: the local transactions. *)
ReceiveMergePayload(n, p) ==
  /\ p.from # n /\ n \in Mergers
  /\ merging[n] = Idle /\ node[n].merges < MaxMerges
  /\ merging' = [merging EXCEPT ![n] =
       [stage |-> "read", fresh |-> TRUE,
        local |-> {Summary(i, "local", PWeight[i], node[n].visible) : i \in AfterFork(node[n].dag)},
        remote |-> {Summary(i, "remote", PWeight[i], p.stake) : i \in p.txs}]]
  /\ node' = [node EXCEPT ![n].clean = @ /\ node[n].healed]
  /\ UNCHANGED payloads

(* The second lock: the accounts; the report needs nothing more. *)
ComputeMerge(n) ==
  /\ merging[n].stage = "read"
  /\ merging' = [merging EXCEPT ![n] =
       [stage |-> "apply", fresh |-> @.fresh, remote |-> @.remote,
        report |-> Report(@.local, @.remote, node[n].accounts)]]
  /\ UNCHANGED <<node, payloads>>

ApplyMergeState(n) ==
  /\ merging[n].stage = "apply"
  /\ LET r == merging[n].report
     IN node' = [node EXCEPT
          ![n].accounts = Penalized(WithBalances(@, r.balances), r),
          ![n].dag = MergedDag(@, r, merging[n].remote),
          ![n].checkpoints = MergedCheckpoints(@, r.kept),
          ![n].merges = @ + 1]
  /\ merging' = [merging EXCEPT ![n] = Idle]
  /\ UNCHANGED payloads

MergeInit ==
  /\ node = [n \in Sides |->
       [accounts |-> ForkAccounts, dag |-> <<>>, visible |-> 0, healed |-> FALSE, merges |-> 0, clean |-> TRUE,
        checkpoints |-> <<[height |-> ForkHeight, provisional |-> FALSE, txs |-> {}]>>]]
  /\ payloads = {}
  /\ merging = [n \in Sides |-> Idle]

MergeNext ==
  \E n \in Sides :
    \/ \E i \in DOMAIN PTx : Submit(n, i) \/ Checkpoint(n, i)
    \/ \E v \in Stakes : SendMergePayload(n, v)
    \/ \E p \in payloads : ReceiveMergePayload(n, p)
    \/ ComputeMerge(n)
    \/ ApplyMergeState(n)

(***************************************************************************)
(* Properties                                                              *)
(***************************************************************************)
Supply(accounts) == FoldFunction(LAMBDA acct, sum : acct.balance + sum, 0, accounts)

(* Reconciliation creates no money: a merge during which no checkpoint was *)
(* applied never raises the sum of the balances, whatever survived         *)
(* (apply_merge_state writes the replayed balances over the current ones). *)
MergeMintsNothing ==
  [][\A n \in Sides : node'[n].merges > node[n].merges /\ merging[n].fresh
       => Supply(node'[n].accounts) <= Supply(node[n].accounts)]_mgVars

(* The winner of a direct conflict does not depend on which of the two     *)
(* nodes resolves it (resolve_direct_conflicts), for any weights and       *)
(* stakes both nodes see alike.                                            *)
WinnerIsSymmetric ==
  \A n \in Sides : merging[n].stage = "read" =>
    \A l \in merging[n].local, r \in merging[n].remote :
      l.id # r.id => Winner(l, r) = Winner(r, l)

(* A merge neither mints nor lets each side keep its own transaction.      *)
MergeSound == MergeMintsNothing /\ []WinnerIsSymmetric

(* The two sides agree after each merged the other's payload and nothing   *)
(* else happened: docs/architecture/partition-tolerance.md:318, "Using     *)
(* pre-partition state (from the fork point checkpoint) as the canonical   *)
(* starting balance".                                                      *)
MergeConverges ==
  \A m, n \in Sides :
    node[m].merges = 1 /\ node[n].merges = 1 /\ node[m].clean /\ node[n].clean
      => [a \in DOMAIN node[m].accounts |-> node[m].accounts[a].balance]
       = [a \in DOMAIN node[n].accounts |-> node[n].accounts[a].balance]
=============================================================================
