-------------------------- MODULE ConsensusService --------------------------
(***************************************************************************)
(* ConsensusService of rinku-node/src/consensus.rs: voting rounds over a   *)
(* frozen copy of the validator set, double-sign detection that slashes in *)
(* the registry, the slashing log and every open round, and the tracking   *)
(* of validators that miss checkpoints.                                    *)
(*                                                                         *)
(* The service sits behind one write lock, so each method is one action.   *)
(* It works on ValidatorSet (validator_service) when with_identity holds   *)
(* and on state.validators otherwise, which is how main.rs builds it.      *)
(* Votes are those whose BLS signature verifies.                           *)
(***************************************************************************)
EXTENDS ValidatorSet, Slashing

CONSTANTS StateValidators,   \* state.validators: address -> stake
          MaxMisses          \* bound: consecutive misses that are counted

VARIABLES
  with_identity,      \* validator_service.is_some()
  pending_votes,      \* height -> VoteAccumulator
  finalized_heights,
  vote_history,       \* <<validator, height>> -> hash of the last vote
  slashed_validators,
  liveness_tracking   \* validator -> consecutive misses

csVars == <<with_identity, pending_votes, finalized_heights, vote_history,
            slashed_validators, liveness_tracking>>

Sum(power, S) == MapThenSumSet(LAMBDA a : power[a], S)

(* The powers a round freezes: every entry of the active map, the slashed  *)
(* ones included.                                                          *)
FrozenPower ==
  IF with_identity THEN [a \in DOMAIN vset.active |-> vset.active[a].stake] ELSE StateValidators

TotalStake ==
  IF with_identity THEN vset.total_active_stake
  ELSE Sum(StateValidators, DOMAIN StateValidators)

ConsensusInit ==
  /\ with_identity \in BOOLEAN
  /\ pending_votes = <<>>
  /\ finalized_heights = {}
  /\ vote_history = <<>>
  /\ slashed_validators = {}
  /\ liveness_tracking = <<>>

(* `full` is a ghost: the powers when the round was opened. *)
StartVotingRound(h, hash) ==
  /\ TotalStake > 0
  /\ pending_votes' = Insert(pending_votes, h,
       [hash |-> hash, votes |-> {}, total |-> TotalStake, accumulated |-> 0,
        frozen |-> FrozenPower, full |-> FrozenPower])
  /\ UNCHANGED <<with_identity, finalized_heights, vote_history, slashed_validators,
                 liveness_tracking, vsVars, slVars>>

SaturatingSub(x, y) == IF x >= y THEN x - y ELSE 0

ReduceValidatorPower(round, v) ==
  IF v \notin DOMAIN round.frozen THEN round
  ELSE LET reduction == (round.frozen[v] * 15) \div 100
       IN [round EXCEPT !.frozen[v] = @ - reduction, !.total = SaturatingSub(@, reduction),
                        !.accumulated = IF v \in round.votes THEN SaturatingSub(@, reduction) ELSE @]

QuorumReached(round) == round.total > 0 /\ 10000 * round.accumulated >= 6666 * round.total

(* Mutant: a second vote of a validator is counted again. *)
AddVoteTwice(round, v, power) ==
  [round EXCEPT !.votes = @ \cup {v}, !.accumulated = @ + power]

AddVote(round, v, power) ==
  IF v \in round.votes THEN round
  ELSE [round EXCEPT !.votes = @ \cup {v}, !.accumulated = @ + power]

Slashable(v) == with_identity /\ v \in DOMAIN vset.active \cup DOMAIN vset.exiting
SlashAmount(v) ==
  LET before == IF v \in DOMAIN vset.active THEN vset.active[v].stake ELSE vset.exiting[v].stake
  IN (before * 15) \div 100

(* handle_double_sign_detection: evidence is always submitted; the slash,  *)
(* its event and the reduced rounds need a validator the registry finds.   *)
HandleDoubleSign(v, h, h1, h2) ==
  LET reported == SubmitDoubleSignEvidence(sl, Offence(v, h, h1, h2))
  IN IF Slashable(v)
     THEN /\ Save(Slashed(vset, v, 15))
          /\ sl' = Slash(reported, v, (SlashAmount(v) * 100) \div 15, "DoubleSign")
          /\ slashed_validators' = slashed_validators \cup {v}
     ELSE sl' = reported /\ UNCHANGED <<vsVars, slashed_validators>>

DoubleSigns(v, h, hash) ==
  /\ <<v, h>> \in DOMAIN vote_history
  /\ vote_history[<<v, h>>] # hash
  /\ v \notin slashed_validators

(* process_vote.  The voting power is read before double-sign handling     *)
(* reduces it, and added after.  A vote for another hash than the round's  *)
(* is an error, but its history entry and its punishment stay.  (Room      *)
(* bounds the slash log.)                                                  *)
ProcessVote(v, h, hash) ==
  /\ h \in DOMAIN pending_votes
  /\ v \in DOMAIN pending_votes[h].frozen
  /\ Room(sl)
  /\ LET power == pending_votes[h].frozen[v]
         slashing == DoubleSigns(v, h, hash) /\ Slashable(v)
         rounds == [k \in DOMAIN pending_votes |->
                      IF slashing THEN ReduceValidatorPower(pending_votes[k], v)
                      ELSE pending_votes[k]]
         round == IF hash = rounds[h].hash THEN AddVote(rounds[h], v, power) ELSE rounds[h]
         new == round.votes # rounds[h].votes
     IN /\ IF DoubleSigns(v, h, hash)
           THEN HandleDoubleSign(v, h, vote_history[<<v, h>>], hash)
           ELSE UNCHANGED <<sl, vsVars, slashed_validators>>
        /\ pending_votes' = [rounds EXCEPT ![h] = round]
        /\ finalized_heights' = finalized_heights \cup IF new /\ QuorumReached(round) THEN {h} ELSE {}
  /\ vote_history' = Insert(vote_history, <<v, h>>, hash)
  /\ UNCHANGED <<with_identity, liveness_tracking, clock, saved, peer, accepted, punished>>

StakeOf(v) == IF with_identity THEN vset.active[v].stake ELSE StateValidators[v]
Tracked == IF with_identity THEN DOMAIN vset.active ELSE DOMAIN StateValidators
Misses(v) == GetOr(liveness_tracking, v, 0)

(* Mutant: a checkpoint signed leaves the slashing service's count alone. *)
LivenessAfterMissOnly(s, v, participants) ==
  IF v \notin participants /\ Misses(v) + 1 >= LIVENESS_MISS_THRESHOLD /\ StakeOf(v) > 0
  THEN RecordLivenessFailure(s, v, StakeOf(v)) ELSE s

(* A miss counts in liveness_tracking; from the threshold on it is also    *)
(* reported to the slashing service, which counts to the threshold again.  *)
LivenessAfter(s, v, participants) ==
  IF v \in participants THEN ResetLivenessCounter(s, v)
  ELSE IF Misses(v) + 1 >= LIVENESS_MISS_THRESHOLD /\ StakeOf(v) > 0
  THEN RecordLivenessFailure(s, v, StakeOf(v)) ELSE s

TrackLiveness(participants) ==
  /\ \A v \in Tracked \ participants : Misses(v) < MaxMisses
  /\ Room(sl)
  /\ sl' = FoldSet(LAMBDA v, s : LivenessAfter(s, v, participants), sl, Tracked)
  /\ liveness_tracking' =
       [v \in Tracked \ participants |-> Misses(v) + 1]
         @@ Without(liveness_tracking, Tracked \cap participants)
  /\ UNCHANGED <<with_identity, pending_votes, finalized_heights, vote_history,
                 slashed_validators, vsVars, clock, saved, peer, accepted, punished>>

CleanupOldRounds(keep) ==
  /\ pending_votes' = Restrict(pending_votes, {h \in DOMAIN pending_votes : h >= keep})
  /\ finalized_heights' = {h \in finalized_heights : h >= keep}
  /\ UNCHANGED <<with_identity, vote_history, slashed_validators, liveness_tracking, vsVars, slVars>>

CleanupOldVoteHistory(keep) ==
  /\ vote_history' = Restrict(vote_history, {k \in DOMAIN vote_history : k[2] >= keep})
  /\ UNCHANGED <<with_identity, pending_votes, finalized_heights, slashed_validators,
                 liveness_tracking, vsVars, slVars>>

ClearSlashedSet ==
  /\ slashed_validators' = {}
  /\ UNCHANGED <<with_identity, pending_votes, finalized_heights, vote_history,
                 liveness_tracking, vsVars, slVars>>

(* The registry changes under the open rounds by an exit or by a sync. *)
RegistryChanges ==
  /\ \/ \E a \in Addr : InitiateExit(a)
     \/ \E legacy \in LegacySets : SyncFromLegacyValidators(legacy)
  /\ UNCHANGED <<csVars, slVars>>

ConsensusNext ==
  \/ \E h \in Height, x \in Hash : StartVotingRound(h, x)
  \/ \E v \in Addr, h \in Height, x \in Hash : ProcessVote(v, h, x)
  \/ \E h \in Height : CleanupOldRounds(h) \/ CleanupOldVoteHistory(h)
  \/ ClearSlashedSet
  \/ RegistryChanges

LivenessNext == RegistryChanges \/ \E P \in SUBSET Addr : TrackLiveness(P)

-----------------------------------------------------------------------------

(* The power accumulated in a round counts each voter once, at a power     *)
(* between the one it has after slashing and the one frozen when the round *)
(* was opened, whatever votes are repeated or contradicted (process_vote). *)
PowerCountedOnce ==
  \A h \in DOMAIN pending_votes :
    LET r == pending_votes[h]
    IN Sum(r.frozen, r.votes) <= r.accumulated /\ r.accumulated <= Sum(r.full, r.votes)

(* The two counters of consecutive misses, liveness_tracking here and      *)
(* liveness_failures in the slashing service, stay in step: the second     *)
(* lags by the threshold, so the first LivenessFailure comes only after    *)
(* 2 * LIVENESS_MISS_THRESHOLD - 1 consecutive misses.                     *)
LivenessCountersInStep ==
  \A v \in DOMAIN liveness_tracking \cup DOMAIN sl.liveness :
    GetOr(sl.liveness, v, [count |-> 0]).count =
      SaturatingSub(Misses(v), LIVENESS_MISS_THRESHOLD - 1)
=============================================================================
