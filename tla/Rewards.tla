------------------------------ MODULE Rewards ------------------------------
(***************************************************************************)
(* RewardsService (rewards.rs) and EmissionService (emission.rs) of one    *)
(* node, and what its checkpoint service does with them: a proposer pays   *)
(* the reward of a height before the votes are collected and takes it back *)
(* when they are not, every other path pays when a checkpoint is applied,  *)
(* and the record of the last height paid keeps a height from being paid   *)
(* twice.  Amounts are small numbers, the schedule a parameter.            *)
(***************************************************************************)
EXTENDS Integers, Sequences, FiniteSets, FiniteSetsExt, Maps

CONSTANTS
  Staker,
  StakeAmount,  \* amounts a reconciliation with the accounts may set
  MinStake,     \* min_stake_amount
  Initial, Interval, Halvings, MinReward, \* the emission schedule
  Threshold,    \* QCC_SELF_YIELD_THRESHOLD
  TipReward,    \* tip and witness rewards of a transaction
  MaxHeight,    \* bound: heights
  MaxFailures,  \* bound: failed vote collections
  MaxOther      \* bound: saves of the state, claims, changes of a stake, rewards of transactions

VARIABLES
  stakes,   \* amounts of the stake positions: staker -> amount
  young,    \* stakers whose position is younger than 15 s
  pending,  \* pending_rewards
  claimed,  \* claimed_rewards
  last,     \* last_reward_height
  emitted,  \* total_emitted
  tip,      \* height of the last applied checkpoint
  qcc,      \* the proposal being built or voted on: [height, dists, voting]
  retry,    \* qcc_retry_data
  failures, \* consecutive_qcc_failures
  minted,   \* what transactions have paid
  image,    \* the state a running save has read, with the steps done
  disk,     \* the state in the storage
  others,   \* saves, claims, stake changes and transactions so far
  merging,  \* the peer's snapshot being merged: [height, rewards still to merge]
  slips     \* what has happened that the payments do not survive

rewardVars == <<stakes, young, pending, claimed, last, emitted, tip, qcc, retry, failures, minted,
                image, disk, others, merging, slips>>

None == [height |-> 0, dists |-> <<>>, voting |-> FALSE]
Idle == [height |-> 0, rewards |-> FALSE]

Total(f) == FoldFunction(+, 0, f)

(* get_checkpoint_reward. *)
RewardAt(h) == Max({Initial \div 2^Min({h \div Interval, Halvings}), MinReward})

Scheduled(from, to) == Total([h \in from..to |-> RewardAt(h)])

Share(r, s, total) == (r * stakes[s]) \div total

(* distribute_checkpoint_rewards: what each eligible staker gets of r. *)
Distribution(r) ==
  LET eligible == {s \in DOMAIN stakes : stakes[s] >= MinStake /\ s \notin young}
      total == Total(Restrict(stakes, eligible))
  IN IF total = 0 THEN <<>> ELSE [s \in eligible |-> Share(r, s, total)]

(* add_reward and reverse_reward, for all of a distribution. *)
Added(p, dists) == [s \in Staker |-> p[s] + GetOr(dists, s, 0)]
Reversed(p, dists) == [s \in Staker |-> Max({0, p[s] - GetOr(dists, s, 0)})]

-----------------------------------------------------------------------------
Nothing == [tip |-> 0, stakes |-> <<>>, pending |-> [s \in Staker |-> 0], claimed |-> [s \in Staker |-> 0],
            upTo |-> 0, last |-> 0, emitted |-> 0, step |-> 0]

RewardsInit ==
  /\ stakes = [s \in Staker |-> Min(StakeAmount \ {0})] /\ young = {}
  /\ pending = [s \in Staker |-> 0] /\ claimed = [s \in Staker |-> 0]
  /\ last = 0 /\ emitted = 0 /\ tip = 0 /\ qcc = None /\ retry = None /\ failures = 0 /\ minted = 0
  /\ image = Nothing /\ disk = [Nothing EXCEPT !.stakes = stakes] /\ others = 0 /\ merging = Idle /\ slips = {}

(* record_emission_for_height. *)
IsNew(h) == h > last

Pay(h) ==
  IF IsNew(h)
  THEN /\ last' = h /\ emitted' = emitted + RewardAt(h)
       /\ pending' = Added(pending, Distribution(RewardAt(h)))
  ELSE UNCHANGED <<last, emitted, pending>>

(* EmissionService::rollback_to_height. *)
RollbackEmission(to) ==
  IF to >= last THEN UNCHANGED <<last, emitted>>
  ELSE /\ last' = to /\ emitted' = Max({0, emitted - Scheduled(to + 1, last)})

Store == <<image, disk, merging>>

(* The proposer pays for the next height before it computes the state      *)
(* root.  A cached proposal of another height is dropped.                  *)
Propose ==
  /\ qcc = None /\ tip < MaxHeight /\ retry.height # tip + 1
  /\ Pay(tip + 1) /\ retry' = None
  /\ qcc' = [height |-> tip + 1, voting |-> FALSE,
             dists |-> IF IsNew(tip + 1) THEN Distribution(RewardAt(tip + 1)) ELSE <<>>]
  /\ UNCHANGED <<stakes, young, claimed, tip, failures, minted, Store, others, slips>>

(* No executable transaction, another checkpoint came, or the vote is      *)
(* locked on another proposal: create_snapshot returns.                    *)
DropProposal ==
  /\ qcc # None /\ ~qcc.voting /\ qcc' = None
  /\ slips' = IF tip < qcc.height THEN slips \union {"dropped"} ELSE slips
  /\ UNCHANGED <<stakes, young, pending, claimed, last, emitted, tip, retry, failures, minted, Store, others>>

StartCollecting ==
  /\ qcc # None /\ ~qcc.voting /\ tip < qcc.height /\ qcc' = [qcc EXCEPT !.voting = TRUE]
  /\ UNCHANGED <<stakes, young, pending, claimed, last, emitted, tip, retry, failures, minted, Store, others, slips>>

(* The cached proposal again, with the distribution of its first time.     *)
RetryProposal ==
  /\ qcc = None /\ retry # None /\ retry.height = tip + 1
  /\ Pay(retry.height) /\ retry' = None /\ qcc' = retry
  /\ slips' = IF IsNew(retry.height) /\ Distribution(RewardAt(retry.height)) # retry.dists
              THEN slips \union {"restaked"} ELSE slips
  /\ UNCHANGED <<stakes, young, claimed, tip, failures, minted, Store, others>>

(* The vote is locked on another proposal. *)
AbandonRetry ==
  /\ qcc = None /\ retry # None /\ retry.height = tip + 1 /\ retry' = None
  /\ UNCHANGED <<stakes, young, pending, claimed, last, emitted, tip, qcc, failures, minted, Store, others, slips>>

Certified ==
  /\ qcc.voting /\ qcc' = None /\ retry' = None /\ failures' = 0
  /\ tip' = IF tip + 1 = qcc.height THEN qcc.height ELSE tip
  /\ UNCHANGED <<stakes, young, pending, claimed, last, emitted, minted, Store, others, slips>>

(* Mutant: the distribution is left in place. *)
TakeBackNothing(dists) == UNCHANGED pending

TakeBack(dists) == pending' = Reversed(pending, dists)

Failed ==
  /\ failures < MaxFailures /\ failures' = failures + 1
  /\ qcc' = None /\ retry' = IF failures' < Threshold THEN qcc ELSE None
  /\ RollbackEmission(qcc.height - 1) /\ TakeBack(qcc.dists)
  /\ slips' = slips \union (IF tip >= qcc.height THEN {"overtaken"} ELSE {})
                    \union (IF \E s \in DOMAIN qcc.dists : pending[s] < qcc.dists[s] THEN {"claimed"} ELSE {})
  /\ UNCHANGED <<stakes, young, claimed, tip, minted, Store, others>>

NoQuorum ==
  /\ qcc.voting
  /\ IF tip < qcc.height THEN Failed
     ELSE /\ qcc' = None
          /\ UNCHANGED <<stakes, young, pending, claimed, last, emitted, tip, retry, failures, minted, Store, others, slips>>

(* After 8 s the collection is aborted, without a look at the tip. *)
TimedOut == qcc.voting /\ Failed

(* A checkpoint of another node, pushed, gossiped, adopted or of a delta,  *)
(* is paid for and then applied; the next of a delta is paid for even when *)
(* applying this one fails.                                                *)
ApplyRemote(h, ok) ==
  /\ h \in (tip + 1)..Min({Max({last, tip}) + 1, MaxHeight}) /\ (ok => h = tip + 1)
  /\ Pay(h) /\ tip' = IF ok THEN h ELSE tip
  /\ slips' = slips \union (IF ok THEN {} ELSE {"unapplied"})
                    \union (IF IsNew(h) /\ merging # Idle THEN {"merging"} ELSE {})
  /\ UNCHANGED <<stakes, young, claimed, qcc, retry, failures, minted, Store, others>>

-----------------------------------------------------------------------------
(* sync_stake_amount: zero removes the position, a new one starts young. *)
SyncStake(s, n) ==
  /\ n # GetOr(stakes, s, 0) /\ others < MaxOther /\ others' = others + 1
  /\ stakes' = IF n = 0 THEN Without(stakes, {s}) ELSE Insert(stakes, s, n)
  /\ young' = IF n = 0 THEN young \ {s} ELSE IF s \notin DOMAIN stakes THEN young \union {s} ELSE young
  /\ UNCHANGED <<pending, claimed, last, emitted, tip, qcc, retry, failures, minted, Store, slips>>

Ages ==
  /\ young # {} /\ young' = {}
  /\ UNCHANGED <<stakes, pending, claimed, last, emitted, tip, qcc, retry, failures, minted, Store, others, slips>>

(* claim_rewards. *)
Claim(s) ==
  /\ pending[s] > 0 /\ others < MaxOther /\ others' = others + 1
  /\ pending' = [pending EXCEPT ![s] = 0] /\ claimed' = [claimed EXCEPT ![s] = @ + pending[s]]
  /\ UNCHANGED <<stakes, young, last, emitted, tip, qcc, retry, failures, minted, Store, slips>>

(* Tip and witness rewards of an executed transaction; no emission. *)
RewardTx(s) ==
  /\ others < MaxOther /\ others' = others + 1 /\ minted' = minted + TipReward
  /\ pending' = [pending EXCEPT ![s] = @ + TipReward]
  /\ UNCHANGED <<stakes, young, claimed, last, emitted, tip, qcc, retry, failures, Store, slips>>

(* The snapshot of a peer that has applied h checkpoints and seen no       *)
(* claim: its chain, merge_from of its rewards (the greater pending reward *)
(* of every address) and merge_from of its emission, under three locks.    *)
PeerPending(h) == [s \in Staker |-> Total([k \in 1..h |-> GetOr(Distribution(RewardAt(k)), s, 0)])]

MergeChain(h) ==
  /\ merging = Idle /\ h > tip /\ tip' = h /\ merging' = [height |-> h, rewards |-> TRUE]
  /\ UNCHANGED <<stakes, young, pending, claimed, last, emitted, qcc, retry, failures, minted, image, disk, others, slips>>

MergeRewards ==
  /\ merging.rewards /\ merging' = [merging EXCEPT !.rewards = FALSE]
  /\ pending' = [s \in Staker |-> Max({pending[s], PeerPending(merging.height)[s]})]
  /\ slips' = IF Total(claimed) > 0 THEN slips \union {"merged"} ELSE slips
  /\ UNCHANGED <<stakes, young, claimed, last, emitted, tip, qcc, retry, failures, minted, image, disk, others>>

MergeEmission ==
  /\ merging # Idle /\ ~merging.rewards /\ merging' = Idle
  /\ last' = Max({last, merging.height}) /\ emitted' = Max({emitted, Scheduled(1, merging.height)})
  /\ UNCHANGED <<stakes, young, pending, claimed, tip, qcc, retry, failures, minted, image, disk, others, slips>>

-----------------------------------------------------------------------------
(* A save reads the chain, the rewards and the emission under three locks  *)
(* and then writes them in three transactions.                             *)
Save ==
  /\ \/ image.step = 0 /\ others < MaxOther /\ others' = others + 1
        /\ image' = [image EXCEPT !.tip = tip, !.step = 1] /\ UNCHANGED disk
     \/ /\ image.step = 1
        /\ image' = [image EXCEPT !.stakes = stakes, !.pending = pending, !.claimed = claimed,
                                  !.upTo = IF merging.rewards THEN last ELSE Max({last, merging.height}), !.step = 2]
        /\ UNCHANGED <<disk, others>>
     \/ image.step = 2 /\ image' = [image EXCEPT !.last = last, !.emitted = emitted, !.step = 3]
        /\ UNCHANGED <<disk, others>>
     \/ image.step = 3 /\ image' = [image EXCEPT !.step = 4] /\ UNCHANGED others
        /\ disk' = [disk EXCEPT !.tip = image.tip]
     \/ /\ image.step = 4 /\ image' = [image EXCEPT !.step = 5] /\ UNCHANGED others
        /\ disk' = [disk EXCEPT !.stakes = image.stakes, !.pending = image.pending,
                                !.claimed = image.claimed, !.upTo = image.upTo]
     \/ image.step = 5 /\ image' = Nothing /\ UNCHANGED others
        /\ disk' = [disk EXCEPT !.last = image.last, !.emitted = image.emitted]
  /\ UNCHANGED <<stakes, young, pending, claimed, last, emitted, tip, qcc, retry, failures, minted, merging, slips>>

RestoredLast == Max({disk.last, disk.tip})

Restart ==
  /\ stakes' = disk.stakes /\ pending' = disk.pending /\ claimed' = disk.claimed /\ tip' = disk.tip
  /\ last' = RestoredLast /\ emitted' = disk.emitted
  /\ young' = {} /\ qcc' = None /\ retry' = None /\ failures' = 0 /\ image' = Nothing /\ merging' = Idle
  /\ slips' = IF disk.upTo > RestoredLast \/ disk.last < disk.tip THEN slips \union {"torn"} ELSE slips
  /\ UNCHANGED <<minted, disk, others>>

ProposerNext ==
  \/ Propose \/ DropProposal \/ StartCollecting \/ RetryProposal \/ AbandonRetry
  \/ Certified \/ NoQuorum \/ TimedOut
  \/ \E h \in 1..MaxHeight, ok \in BOOLEAN : ApplyRemote(h, ok)
  \/ \E s \in Staker, n \in StakeAmount : SyncStake(s, n)
  \/ Ages
  \/ \E s \in Staker : Claim(s) \/ RewardTx(s)

FollowerNext ==
  \/ \E h \in 1..MaxHeight : ApplyRemote(h, TRUE)
  \/ \E s \in Staker : Claim(s)
  \/ \E h \in 1..MaxHeight : MergeChain(h)
  \/ MergeRewards \/ MergeEmission \/ Save \/ Restart

-----------------------------------------------------------------------------
(* No reward comes from nowhere: what validators have claimed or may claim *)
(* is covered by the schedule up to the last height paid and by what the   *)
(* transactions paid, however proposals fail, are retried, are overtaken   *)
(* by other checkpoints, or the node restarts.                             *)
RewardsCovered ==
  slips = {} /\ merging = Idle
    => Total(pending) + Total(claimed) <= Scheduled(1, last) + minted

(* Every applied checkpoint has been paid for, and the emission is the     *)
(* schedule up to the last one paid.                                       *)
EmissionFollowsChain ==
  slips \intersect {"overtaken", "torn", "merging"} = {} /\ merging = Idle
    => tip <= last /\ emitted = Scheduled(1, last)

(* The reward books: nothing is paid twice or from nowhere, and nothing    *)
(* that was applied stays unpaid.                                          *)
RewardBooks == RewardsCovered /\ EmissionFollowsChain
=============================================================================
