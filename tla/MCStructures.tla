--------------------------- MODULE MCStructures ---------------------------
(* The DAG, the slashing service and the voting rounds of the consensus    *)
(* service, explored one at a time: `scenario` is fixed in the initial     *)
(* state.                                                                  *)
EXTENDS MCDag

CONSTANT Scenarios

VARIABLES scenario,
  vset, sl, clock, saved, peer, accepted, punished,
  with_identity, pending_votes, finalized_heights, vote_history, slashed_validators, liveness_tracking

registryVars == <<vset>>
slashingVars == <<sl, clock, saved, peer, accepted, punished>>
roundVars == <<with_identity, pending_votes, finalized_heights, vote_history, slashed_validators,
               liveness_tracking>>
structureVars == <<scenario, vars, registryVars, slashingVars, roundVars>>

Staked == "a1" :> 20 @@ "a2" :> 20

S == INSTANCE ConsensusService WITH
  Addr <- {"a1", "a2"}, Genesis <- {"a1"}, Amounts <- {20}, LegacySets <- {"a1" :> 20, Staked},
  MIN_VALIDATOR_STAKE <- 20, GENESIS_VALIDATOR_STAKE <- 20, ACTIVATION_DELAY_EPOCHS <- 2,
  EXIT_DELAY_EPOCHS <- 4, MaxStake <- 40, MinSlashed <- 40, StateValidators <- Staked, MaxMisses <- 6,
  Offender <- {"a1"}, Height <- {1}, Hash <- {"x", "y"}, StakeAmounts <- {10}, EventCap <- 2, EventKeep <- 1,
  LIVENESS_MISS_THRESHOLD <- 3, DOUBLE_SIGN_EVIDENCE_EXPIRY <- 1, LIVENESS_REPEAT_WINDOW <- 1,
  MaxClock <- 2, MaxEvents <- 3

StructuresInit ==
  /\ scenario \in Scenarios /\ Init
  /\ S!ValidatorSetInit /\ S!SlashingInit /\ S!ConsensusInit /\ (scenario # "rounds" => with_identity)

StructuresNext ==
  \/ scenario = "dag" /\ Next /\ UNCHANGED <<scenario, registryVars, slashingVars, roundVars>>
  \/ scenario = "slashing" /\ S!SlashingNext /\ UNCHANGED <<scenario, vars, registryVars, roundVars>>
  \/ scenario = "rounds" /\ S!ConsensusNext /\ UNCHANGED <<scenario, vars>>

StructuresSpec == StructuresInit /\ [][StructuresNext]_structureVars

(* See the properties of Slashing and ConsensusService. *)
SlashLogSound == scenario = "slashing" => S!SlashLogSound
PowerCountedOnce == scenario = "rounds" => S!PowerCountedOnce
=============================================================================
