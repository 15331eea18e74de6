---------------------------- MODULE MCProgress ----------------------------
(* Services of one node, in lanes that `scenario` fixes in the initial     *)
(* state: the fast-path tracker, a partition that heals, a replica of the  *)
(* chain with pushes and deltas in any order, with snapshots of peers,     *)
(* with crashes and restarts, and catching up with a chain that stands     *)
(* still, the rewards of a proposer and of a follower, and the weight      *)
(* votes.                                                                  *)
EXTENDS MCFastPathService, Replica, TLC

CONSTANT Scenarios

VARIABLES scenario,
  pstate, peers, height, outbox, runs, account, pending, admitting,
  stakes, young, due, claimed, rewarded, emitted, tip, qcc, retry, failures, minted, image, tables,
  others, merging, slips,
  weights, voted, cachedRoot, known, top, keep, stored, rounds

partitionVars == <<pstate, peers, height, outbox, runs, account, pending, admitting>>
rewardVars == <<stakes, young, due, claimed, rewarded, emitted, tip, qcc, retry, failures, minted,
                image, tables, others, merging, slips>>
weightVars == <<weights, voted, cachedRoot, known, top, keep, stored, rounds>>
dataVars == <<rewardVars, weightVars>>
laneVars == <<scenario, vars, partitionVars, replicaVars, dataVars>>

P == INSTANCE Partition WITH
  VStake <- "v1" :> 1 @@ "v2" :> 1 @@ "v3" :> 1, SelfValidator <- "v1",
  ConfirmCycles <- 6, RecoveryCycles <- 2, GasPrice <- 1, U64 <- 64, MaxHeight <- 3,
  StartBalances <- "a" :> 7, Budgets <- {4},
  ATx <- 1 :> [from |-> "a", kind |-> "transfer", amount |-> 2, nonce |-> 0, wellformed |-> TRUE]

Pushed(b, p) == [bodies |-> b, proofs |-> p]
MCFrom == 1 :> "a" @@ 2 :> "a" @@ 3 :> "b"
MCTo == 1 :> "b" @@ 2 :> "c" @@ 3 :> "c"
MCPushes == {Pushed(TRUE, TRUE), Pushed(FALSE, FALSE)}

S == INSTANCE Replica WITH
  Cached <- {FALSE}, Pushes <- {Pushed(FALSE, FALSE)}, LateHeights <- {}, MaxSnapshots <- 1

C == INSTANCE Replica WITH
  NetTip <- 2, Busy <- {"g1", "g2"}, MaxDelta <- 0, Cached <- {},
  Pushes <- {Pushed(TRUE, TRUE)}, LateHeights <- {}, MaxSaves <- 1, MaxCrashes <- 1

L == INSTANCE Replica WITH
  NetTip <- 2, MaxDelta <- 1, Pushes <- {Pushed(TRUE, TRUE)}, LateHeights <- {},
  StartHeights <- {0, 1}, MaxCrashes <- 1

W == INSTANCE Rewards WITH
  pending <- due, last <- rewarded, disk <- tables,
  Staker <- {"a", "b"}, StakeAmount <- {0, 2, 4}, MinStake <- 2, Initial <- 5, Interval <- 2,
  Halvings <- 2, MinReward <- 1, Threshold <- 2, TipReward <- 1, MaxHeight <- 2, MaxFailures <- 2,
  MaxOther <- 1

F == INSTANCE Rewards WITH
  pending <- due, last <- rewarded, disk <- tables,
  Staker <- {"a", "b"}, StakeAmount <- {0, 2, 4}, MinStake <- 2, Initial <- 5, Interval <- 2,
  Halvings <- 2, MinReward <- 1, Threshold <- 2, TipReward <- 1, MaxHeight <- 2, MaxFailures <- 0,
  MaxOther <- 2

Vote(tx, voter, kind) == [tx |-> tx, voter |-> voter, kind |-> kind]

U == INSTANCE WeightTrie WITH
  pending <- voted, snapshot <- keep, saved <- stored,
  leaves <- <<>>, committed <- <<>>, delta <- <<>>, faults <- 0,
  Leaf <- {1, 2}, MaxLeaves <- 6, Tx <- {1, 2}, MaxFaults <- 0,
  Ballot <- {Vote(1, "a", "boost"), Vote(1, "a", "suppress"), Vote(2, "A", "neutral")},
  Address <- "a" :> "a" @@ "A" :> "a", Stake <- "a" :> 2 @@ "b" :> 1,
  Retention <- 1, MaxVotes <- 2, MaxRounds <- 2, MaxHeight <- 2

Split(A) == scenario = "heal" /\ A /\ UNCHANGED <<scenario, vars, replicaVars, dataVars>>
Live(A) == scenario = "live" /\ A /\ UNCHANGED <<scenario, vars, partitionVars, dataVars>>

ProgressInit ==
  /\ scenario \in Scenarios /\ Init /\ P!PartitionInit /\ (IF scenario = "live" THEN L!ReplicaInit ELSE ReplicaInit)
  /\ W!RewardsInit /\ U!WeightInit

DataLane ==
  \/ scenario = "proposer" /\ W!ProposerNext /\ UNCHANGED weightVars
  \/ scenario = "follower" /\ F!FollowerNext /\ UNCHANGED weightVars
  \/ scenario = "weights" /\ U!WeightNext /\ UNCHANGED rewardVars

ReplicaLane ==
  \/ scenario = "deliver" /\ ReplicaNext
  \/ scenario = "snapshot" /\ S!ReplicaNext
  \/ scenario = "crash" /\ C!ReplicaNext

ProgressNext ==
  \/ /\ scenario = "fast path" /\ Next
     /\ UNCHANGED <<scenario, partitionVars, replicaVars, dataVars>>
  \/ Split(P!PartitionNext)
  \/ Live(L!ReplicaNext)
  \/ ReplicaLane /\ UNCHANGED <<scenario, vars, partitionVars, dataVars>>
  \/ DataLane /\ UNCHANGED <<scenario, vars, partitionVars, replicaVars>>

(* The detector's cycle runs on a timer, and the loop that sends the       *)
(* payloads of a healed partition follows it; a restart, a running         *)
(* application and the tick of the checkpoint service are never put off    *)
(* for ever, and a fetch that is repeated is answered.                     *)
Fairness ==
  /\ WF_laneVars(Split(P!DetectCycle)) /\ WF_laneVars(Split(P!SendHealPayload))
  /\ WF_laneVars(Live(L!Restart \/ L!FirstStart))
  /\ WF_laneVars(Live(L!Apply("g1"))) /\ WF_laneVars(Live(L!Apply("service") \/ L!NextOfDelta("service")))
  /\ WF_laneVars(Live(L!SpawnFetch)) /\ WF_laneVars(Live(L!PickUpDelta))
  /\ SF_laneVars(Live(L!FetchAnswered))

ProgressSpec == ProgressInit /\ [][ProgressNext]_laneVars /\ Fairness

(* See the properties of Partition, Replica, Rewards and WeightTrie.       *)
ReturnsToNormal == scenario = "heal" => P!ReturnsToNormal
FollowerCatchesUp == scenario = "live" => L!CatchesUp
RewardBooks == scenario \in {"proposer", "follower"} => W!RewardBooks
WeightsSound == scenario = "weights" => U!WeightsSound
=============================================================================
