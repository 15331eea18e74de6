------------------------------ MODULE MCBooks ------------------------------
(* What one node keeps books of, in lanes that `scenario` fixes in the     *)
(* initial state: two tasks that apply checkpoints to one ledger, the same *)
(* two with a fork resolution between their steps, the validator registry, *)
(* the liveness counters of the consensus and of the slashing service,     *)
(* admissions and the detector in a partition, and the merge of two        *)
(* partitions.                                                             *)
EXTENDS MCLedger

CONSTANTS Scenarios, a1, a2, A, B

VARIABLES scenario,
  vset, sl, clock, saved, peer, accepted, punished,
  with_identity, pending_votes, finalized_heights, vote_history, slashed_validators,
  liveness_tracking,
  pstate, peers, height, outbox, runs, account, pending, admitting,
  node, payloads, merging

otherServices == <<sl, clock, saved, peer, accepted, punished, with_identity, pending_votes,
                   finalized_heights, vote_history, slashed_validators, liveness_tracking>>
validatorVars == <<vset, otherServices>>
partitionVars == <<pstate, peers, height, outbox, runs, account, pending, admitting>>
mergeVars == <<node, payloads, merging>>
splitVars == <<partitionVars, mergeVars>>
laneVars == <<scenario, vars, validatorVars, splitVars>>

-----------------------------------------------------------------------------
F == INSTANCE Ledger WITH Sent <- {1}, MaxRollbacks <- 1, Variants <- {1, 2}

R == INSTANCE ConsensusService WITH
  Addr <- {a1, a2}, Genesis <- {a1}, Amounts <- {20},
  LegacySets <- {(a1 :> 20), (a1 :> 20 @@ a2 :> 20)},
  MIN_VALIDATOR_STAKE <- 20, GENESIS_VALIDATOR_STAKE <- 20, ACTIVATION_DELAY_EPOCHS <- 2,
  EXIT_DELAY_EPOCHS <- 4, MaxStake <- 40, MinSlashed <- 40,
  StateValidators <- (a1 :> 20 @@ a2 :> 20), MaxMisses <- 6,
  Offender <- {a1}, Height <- {1}, Hash <- {"x", "y"}, StakeAmounts <- {10},
  EventCap <- 2, EventKeep <- 1, LIVENESS_MISS_THRESHOLD <- 3, DOUBLE_SIGN_EVIDENCE_EXPIRY <- 1,
  LIVENESS_REPEAT_WINDOW <- 1, MaxClock <- 2, MaxEvents <- 3

Request(kind, amount, nonce) ==
  [from |-> "a", kind |-> kind, amount |-> amount, nonce |-> nonce, wellformed |-> TRUE]

P == INSTANCE Partition WITH
  VStake <- "v1" :> 1 @@ "v2" :> 1 @@ "v3" :> 1, SelfValidator <- "v1",
  ConfirmCycles <- 6, RecoveryCycles <- 2, GasPrice <- 1, U64 <- 64, MaxHeight <- 3,
  StartBalances <- "a" :> 7, Budgets <- {-1, 4},
  ATx <- 1 :> Request("transfer", 2, 0) @@ 2 :> Request("stake", 3, 0)
      @@ 3 :> Request("transfer", 2, 1) @@ 4 :> Request("claim", 0, 2)

Transfer(from, to, amount, gas, n, parents) ==
  [from |-> from, to |-> to, amount |-> amount, gas |-> gas, nonce |-> n, parents |-> parents]

M == INSTANCE Merge WITH
  Sides <- {A, B}, Mergers <- {A}, MaxMerges <- 1, ForkHeight <- 1, Stakes <- {7, 10},
  PTx <- 1 :> Transfer("a", "b", 6, 0, 0, {}) @@ 2 :> Transfer("a", "c", 7, 1, 0, {})
      @@ 3 :> Transfer("b", "c", 4, 1, 0, {1}) @@ 4 :> Transfer("a", "b", 2, 0, 1, {}),
  PWeight <- 1 :> 2 @@ 2 :> 3 @@ 3 :> 2 @@ 4 :> 1,
  ForkAccounts <-
    "a" :> [balance |-> 10, nonce |-> 0, staked |-> 5, reputation |-> 0, violations |-> 0]
    @@ "b" :> [balance |-> 0, nonce |-> 0, staked |-> 0, reputation |-> 0, violations |-> 0]

-----------------------------------------------------------------------------
BooksInit ==
  /\ scenario \in Scenarios /\ Init
  /\ R!ValidatorSetInit /\ R!SlashingInit /\ R!ConsensusInit
  /\ scenario # "liveness" => with_identity
  /\ P!PartitionInit /\ M!MergeInit

BooksNext ==
  /\ UNCHANGED scenario
  /\ \/ scenario = "ledger" /\ Next /\ UNCHANGED <<validatorVars, splitVars>>
     \/ scenario = "rollback" /\ F!Next /\ UNCHANGED <<validatorVars, splitVars>>
     \/ /\ scenario = "registry" /\ R!ValidatorSetNext
        /\ UNCHANGED <<vars, otherServices, splitVars>>
     \/ scenario = "liveness" /\ R!LivenessNext /\ UNCHANGED <<vars, splitVars>>
     \/ /\ scenario = "partition" /\ P!PartitionNext
        /\ UNCHANGED <<vars, validatorVars, mergeVars>>
     \/ /\ scenario = "merge" /\ M!MergeNext
        /\ UNCHANGED <<vars, validatorVars, partitionVars>>

BooksSpec == BooksInit /\ [][BooksNext]_laneVars

-----------------------------------------------------------------------------
(* See Conservation of Ledger; a rollback gives back neither what was      *)
(* burned nor what was claimed.                                            *)
NothingMinted == scenario # "rollback" => Conservation

(* See the properties of ValidatorSet, ConsensusService, Partition and     *)
(* Merge.  The liveness counters are those of the lane in which the        *)
(* consensus service drives the slashing service (track_liveness is its    *)
(* only caller of record_liveness_failure).                                *)
RegistryConsistent == scenario = "registry" => R!RegistryConsistent
LivenessInStep == scenario = "liveness" => R!LivenessCountersInStep
PendingIsPayable == scenario = "partition" => P!PendingIsPayable
TransitionsAreSustained == P!TransitionsAreSustained
MergeSound == M!MergeSound
=============================================================================
