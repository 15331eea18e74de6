---------------------------- MODULE ValidatorSet ----------------------------
(***************************************************************************)
(* ValidatorIdentityService of rinku-node/src/validator_identity.rs: the   *)
(* registry of active, pending, exiting and exited validators, the total   *)
(* active stake cached beside it.                                          *)
(*                                                                         *)
(* Every operation holds the service's write lock, so it is one action;    *)
(* each ends with save_state, so a restart loads the current state (or,    *)
(* when that write failed, an earlier one, which is reachable as well).    *)
(* Epoch numbers are only ever compared with the current epoch, so an      *)
(* entry keeps `left`, the epochs still to go.                             *)
(* stake and effective_stake are equal after every operation: one field.   *)
(* Nothing reads an exited entry, so `exited` is the set of addresses.     *)
(***************************************************************************)
EXTENDS Integers, FiniteSets, FiniteSetsExt, Maps, TLC

CONSTANTS
  Addr,                     \* validator addresses
  Genesis,                  \* addresses seeded at start-up (may be empty)
  Amounts,                  \* stakes a call of register or add_stake brings
  LegacySets,               \* state.validators maps a peer sync can install
  MIN_VALIDATOR_STAKE, GENESIS_VALIDATOR_STAKE,
  ACTIVATION_DELAY_EPOCHS, EXIT_DELAY_EPOCHS,
  MaxStake, MinSlashed      \* bounds: add_stake stops at one, slashing at the other

VARIABLE vset   \* ValidatorSetState

vsVars == <<vset>>

Identity(stake, status, left) ==
  [stake |-> stake, status |-> status, slashed |-> FALSE, left |-> left]

IsActive(v) == v.status = "Active" /\ ~v.slashed

ActiveStake(active) ==
  MapThenSumSet(LAMBDA a : active[a].stake, {a \in DOMAIN active : IsActive(active[a])})

RecalculateTotalStake(s) == [s EXCEPT !.total_active_stake = ActiveStake(s.active)]

EmptySet ==
  [active |-> <<>>, pending |-> <<>>, exiting |-> <<>>, exited |-> {},
   total_active_stake |-> 0]

(* A wholesale replacement: pending and exiting are cleared, exited is not. *)
Replaced(s, active) ==
  RecalculateTotalStake([s EXCEPT !.active = active, !.pending = <<>>, !.exiting = <<>>])

SeedGenesisValidators(s) ==
  IF Genesis = {} THEN s
  ELSE Replaced(s, [a \in Genesis |-> Identity(GENESIS_VALIDATOR_STAKE, "Active", 0)])

Save(s) == vset' = s

ValidatorSetInit == vset = SeedGenesisValidators(EmptySet)

(* A validator in neither map may register: exiting is not looked at. *)
RegisterValidator(a, stake) ==
  /\ stake >= MIN_VALIDATOR_STAKE
  /\ a \notin DOMAIN vset.active \cup DOMAIN vset.pending
  /\ Save([vset EXCEPT !.pending =
             Insert(@, a, Identity(stake, "PendingActivation", ACTIVATION_DELAY_EPOCHS))])

(* Mutant: the cached total is not refreshed. *)
AddStakeNotRecounted(a, amount) ==
  /\ a \in DOMAIN vset.active
  /\ vset.active[a].stake + amount <= MaxStake
  /\ Save([vset EXCEPT !.active[a].stake = @ + amount])

AddStake(a, amount) ==
  \/ /\ a \in DOMAIN vset.active
     /\ vset.active[a].stake + amount <= MaxStake
     /\ Save(RecalculateTotalStake([vset EXCEPT !.active[a].stake = @ + amount]))
  \/ /\ a \in DOMAIN vset.pending \ DOMAIN vset.active
     /\ vset.pending[a].stake + amount <= MaxStake
     /\ Save([vset EXCEPT !.pending[a].stake = @ + amount])

InitiateExit(a) ==
  /\ a \in DOMAIN vset.active
  /\ Save(RecalculateTotalStake(
       [vset EXCEPT !.active = Without(@, {a}),
                    !.exiting = Insert(@, a, [vset.active[a] EXCEPT !.status = "PendingExit",
                                                !.left = EXIT_DELAY_EPOCHS])]))

(* slash_validator, as a function of the registry: (stake as f64 * percent) *)
(* as u64 rounds down.  Pending and exited validators are not found.        *)
Slashed(s, a, percent) ==
  LET Cut(v) == [v EXCEPT !.stake = @ - (@ * percent) \div 100,
                          !.slashed = TRUE, !.status = "Slashed"]
  IN IF a \in DOMAIN s.active
     THEN RecalculateTotalStake([s EXCEPT !.active[a] = Cut(@)])
     ELSE IF a \in DOMAIN s.exiting
     THEN RecalculateTotalStake([s EXCEPT !.exiting[a] = Cut(@)])
     ELSE s

SlashValidator(a, percent) ==
  /\ a \in DOMAIN vset.active \cup DOMAIN vset.exiting
  /\ (vset.active @@ vset.exiting)[a].stake >= MinSlashed
  /\ Save(Slashed(vset, a, percent))

Due(entries, k) == {a \in DOMAIN entries : entries[a].left <= k}
Closer(entries, k) == [a \in DOMAIN entries |-> [entries[a] EXCEPT !.left = @ - k]]

(* k epochs have passed since the last transition. *)
AfterEpochs(s, k) ==
  LET activated == Due(s.pending, k)
      leaving == Due(s.exiting, k)
  IN RecalculateTotalStake(
       [s EXCEPT !.active = [a \in activated |-> [s.pending[a] EXCEPT !.status = "Active",
                                                                     !.left = 0]] @@ @,
                 !.pending = Closer(Without(@, activated), k),
                 !.exited = @ \cup leaving,
                 !.exiting = Closer(Without(@, leaving), k)])

ProcessEpochTransition(k) == Save(AfterEpochs(vset, k))

EpochPasses == \E k \in 1 .. EXIT_DELAY_EPOCHS : ProcessEpochTransition(k)

(* sync_validator_identity_from_state: an empty map is not installed. *)
SyncFromLegacyValidators(legacy) ==
  /\ legacy # <<>>
  /\ Save(Replaced(vset, [a \in DOMAIN legacy |-> Identity(legacy[a], "Active", 0)]))

(* The node stops and starts again: `new` loads the file, or the default   *)
(* when the crash tore the write; main then seeds the genesis validators.  *)
Restart(torn) == vset' = SeedGenesisValidators(IF torn THEN EmptySet ELSE vset)

ValidatorSetNext ==
  \/ \E a \in Addr, n \in Amounts : RegisterValidator(a, n) \/ AddStake(a, n)
  \/ \E a \in Addr : InitiateExit(a) \/ SlashValidator(a, 25)
  \/ EpochPasses
  \/ \E legacy \in LegacySets : SyncFromLegacyValidators(legacy)
  \/ \E torn \in BOOLEAN : Restart(torn)

-----------------------------------------------------------------------------

(* The cached total that the voting rounds divide by is the stake of the   *)
(* active validators that are not slashed, after every change of the set   *)
(* (recalculate_total_stake).                                              *)
TotalIsActiveStake == vset.total_active_stake = ActiveStake(vset.active)

(* No validator is pending and active at once, so that an activation never *)
(* overwrites an active entry and its slashed flag (process_epoch_transition). *)
PendingNotActive == DOMAIN vset.pending \cap DOMAIN vset.active = {}

(* The registry after any sequence of registrations, stakes, exits,        *)
(* slashes, epochs and reloads.                                            *)
RegistryConsistent == TotalIsActiveStake /\ PendingNotActive
=============================================================================
