----------------------------- MODULE Partition -----------------------------
(***************************************************************************)
(* One node's view of a partition: the detector (partition_detector.rs),   *)
(* the partition state (state/partition.rs) and the admission of           *)
(* transactions from clients (admit_transaction_inner), which the          *)
(* partition restricts.                                                    *)
(*                                                                         *)
(* Time is counted in detection cycles.  The epoch number only labels a    *)
(* partition: current_epoch is 1 for Some(_) and 0 for None.  The checks   *)
(* of admission that look at the transaction alone (memo, references,      *)
(* contract data, timestamp, signature, minimum stake) are `wellformed`.   *)
(* Admission checks under a read lock and again under the write lock.      *)
(***************************************************************************)
EXTENDS Integers, FiniteSets, FiniteSetsExt, Maps

CONSTANTS
  VStake,        \* validator -> stake (state.validators)
  SelfValidator,
  ConfirmCycles, RecoveryCycles,  \* confirmation_timeout_ms, recovery_window_ms
  ATx,           \* hash -> [from, kind, amount, nonce, wellformed]
  StartBalances, \* account -> balance
  Budgets,       \* values of set_partition_budget (NoBudget: None)
  GasPrice,
  U64,           \* 2^64, scaled
  MaxHeight      \* bound: checkpoints

VARIABLES
  pstate,    \* PartitionState and the detector's recovery_started_at
  peers,     \* validators among the handshaken peers
  height,    \* checkpoint height
  outbox,    \* the heal's merge payload, before and after it is sent
  runs,      \* history: consecutive cycles of low and of good visibility
  account,   \* sender -> [balance, nonce, budget, spent]
  pending,   \* unfinalized transactions in the DAG
  admitting  \* admissions between their two locks

pnVars == <<pstate, peers, height, outbox, runs, account, pending, admitting>>
detectorVars == <<pstate, peers, height, outbox, runs>>
admissionVars == <<account, pending, admitting>>

NoBudget == -1
NotRecovering == -1
Capped(n) == IF n > ConfirmCycles + RecoveryCycles THEN n - 1 ELSE n

StakeOf(S) == MapThenSumSet(LAMBDA v : VStake[v], S)

(* compute_visibility, against stake_visibility_threshold = 0.6666. *)
Visible ==
  LET total == StakeOf(DOMAIN VStake)
  IN total = 0 \/ 10000 * StakeOf((peers \cup {SelfValidator}) \cap DOMAIN VStake) >= 6666 * total

TransitionToSuspected(s) == [s EXCEPT !.status = "Suspected", !.suspected = 0]

TransitionToPartitioned(s) ==
  [s EXCEPT !.status = "Partitioned", !.current_epoch = 1, !.fork = height, !.suspected = 0]

TransitionToNormal(s) ==
  [s EXCEPT !.status = "Normal", !.current_epoch = 0, !.fork = 0, !.suspected = 0]

ResetSpent == account' = [a \in DOMAIN account |-> [account[a] EXCEPT !.spent = 0]]

(* One iteration of detect_cycle; `suspected` and `recovering` are ages.   *)
InNormal ==
  /\ pstate.status = "Normal"
  /\ pstate' = IF Visible THEN pstate
               ELSE [TransitionToSuspected(pstate) EXCEPT !.recovering = NotRecovering]
  /\ UNCHANGED <<outbox, account>>

(* Mutant: a suspicion is not dropped when the validators are back. *)
InSuspectedForgetful ==
  /\ pstate.status = "Suspected"
  /\ \/ /\ pstate.suspected + 1 < ConfirmCycles
        /\ pstate' = [pstate EXCEPT !.suspected = @ + 1]
        /\ UNCHANGED account
     \/ /\ pstate.suspected + 1 >= ConfirmCycles
        /\ pstate' = TransitionToPartitioned(pstate)
        /\ ResetSpent
  /\ UNCHANGED outbox

InSuspected ==
  /\ pstate.status = "Suspected"
  /\ \/ /\ Visible
        /\ pstate' = [TransitionToNormal(pstate) EXCEPT !.recovering = NotRecovering]
        /\ UNCHANGED account
     \/ /\ ~Visible /\ pstate.suspected + 1 < ConfirmCycles
        /\ pstate' = [pstate EXCEPT !.suspected = @ + 1]
        /\ UNCHANGED account
     \/ /\ ~Visible /\ pstate.suspected + 1 >= ConfirmCycles
        /\ pstate' = TransitionToPartitioned(pstate)
        /\ ResetSpent
  /\ UNCHANGED outbox

(* Mutant: the recovery window is restarted by every good cycle. *)
InPartitionedRestarting ==
  /\ pstate.status = "Partitioned"
  /\ pstate' = [pstate EXCEPT !.recovering = IF Visible THEN 0 ELSE NotRecovering]
  /\ UNCHANGED <<account, outbox>>

(* A healed partition first becomes Normal; the payload is prepared after. *)
InPartitioned ==
  /\ pstate.status = "Partitioned"
  /\ \/ /\ ~Visible
        /\ pstate' = [pstate EXCEPT !.recovering = NotRecovering] /\ UNCHANGED outbox
     \/ /\ Visible /\ pstate.recovering + 1 < RecoveryCycles
        /\ pstate' = [pstate EXCEPT !.recovering = @ + 1] /\ UNCHANGED outbox
     \/ /\ Visible /\ pstate.recovering + 1 >= RecoveryCycles
        /\ pstate' = [TransitionToNormal(pstate) EXCEPT !.recovering = NotRecovering]
        /\ outbox' = [stage |-> "prepare", fork |-> pstate.fork, epoch |-> 0]
  /\ UNCHANGED account

DetectCycle ==
  /\ outbox.stage # "prepare"
  /\ InNormal \/ InSuspected \/ InPartitioned
  /\ runs' = [low |-> IF Visible THEN 0 ELSE Capped(runs.low + 1),
              good |-> IF Visible THEN Capped(runs.good + 1) ELSE 0]
  /\ UNCHANGED <<peers, height, pending, admitting>>

(* prepare_merge_payload reads current_epoch after it was cleared. *)
SendHealPayload ==
  /\ outbox.stage = "prepare"
  /\ outbox' = [outbox EXCEPT !.stage = "sent", !.epoch = pstate.current_epoch]
  /\ UNCHANGED <<pstate, peers, height, runs, admissionVars>>

PeersChange(S) ==
  /\ S # peers
  /\ peers' = S
  /\ UNCHANGED <<pstate, height, outbox, runs, admissionVars>>

(***************************************************************************)
(* Admission                                                               *)
(***************************************************************************)
PartitionSafety(kind) ==
  CASE kind \in {"transfer", "contract"} -> "BoundedSpend"
    [] kind \in {"stake", "unstake", "claim"} -> "CpOnly"
    [] OTHER -> "Safe"

TxCost(t) ==
  IF ATx[t].kind \in {"unstake", "claim", "contract"} THEN GasPrice ELSE ATx[t].amount + GasPrice

(* budget - partition_budget_spent is a u64 subtraction: it wraps. *)
Remaining(a) == (account[a].budget - account[a].spent) % U64

AllowedNow(t) ==
  pstate.status = "Partitioned" =>
    CASE PartitionSafety(ATx[t].kind) = "CpOnly" -> FALSE
      [] PartitionSafety(ATx[t].kind) = "BoundedSpend" ->
           account[ATx[t].from].budget = NoBudget
             \/ ATx[t].amount + GasPrice <= Remaining(ATx[t].from)
      [] OTHER -> TRUE

Unfinalized(a) == {t \in pending : ATx[t].from = a}

(* get_effective_nonce: the contiguous pending nonces after the confirmed. *)
EffectiveNonce(a) ==
  LET have == {ATx[t].nonce : t \in Unfinalized(a)}
      free == {n \in account[a].nonce..(account[a].nonce + Cardinality(have)) : n \notin have}
  IN CHOOSE n \in free : \A m \in free : n <= m

(* Mutant: what is pending is not subtracted. *)
ConfirmedBalance(a) == account[a].balance

(* saturating_sub *)
EffectiveBalance(a) ==
  LET spend == MapThenSumSet(TxCost, Unfinalized(a))
  IN IF spend > account[a].balance THEN 0 ELSE account[a].balance - spend

Affordable(t) == EffectiveBalance(ATx[t].from) >= TxCost(t)

NextInLine(t) == ATx[t].nonce = EffectiveNonce(ATx[t].from)

WellFormed(t) == ATx[t].wellformed

(* The checks under the read lock. *)
AdmitCheck(t) ==
  /\ t \notin pending \cup admitting
  /\ WellFormed(t)
  /\ AllowedNow(t)
  /\ Affordable(t)
  /\ NextInLine(t)
  /\ admitting' = admitting \cup {t}
  /\ UNCHANGED <<account, pending, detectorVars>>

(* The write lock: balance and nonce are looked at again, the partition is *)
(* not.                                                                    *)
AdmitCommit(t) ==
  /\ t \in admitting
  /\ pending' = pending \cup IF Affordable(t) /\ NextInLine(t) THEN {t} ELSE {}
  /\ admitting' = admitting \ {t}
  /\ UNCHANGED <<account, detectorVars>>

(* A checkpoint executes a pending transaction; budgets are charged while  *)
(* the partition lasts.                                                    *)
ExecutePending(t) ==
  LET a == ATx[t].from
      charge == IF pstate.status = "Partitioned" /\ account[a].budget # NoBudget
                THEN TxCost(t) ELSE 0
  IN /\ height < MaxHeight
     /\ t \in pending
     /\ account[a].nonce = ATx[t].nonce
     /\ account[a].balance >= TxCost(t)
     /\ account' = [account EXCEPT ![a].balance = @ - TxCost(t), ![a].nonce = @ + 1,
                                   ![a].spent = @ + charge]
     /\ pending' = pending \ {t}
     /\ height' = height + 1
     /\ UNCHANGED <<pstate, peers, outbox, runs, admitting>>

SetPartitionBudget(a, b) ==
  /\ account' = [account EXCEPT ![a].budget = b,
                                ![a].spent = IF b = NoBudget THEN 0 ELSE @]
  /\ UNCHANGED <<pending, admitting, detectorVars>>

PartitionInit ==
  /\ pstate = [status |-> "Normal", current_epoch |-> 0, fork |-> 0, suspected |-> 0,
               recovering |-> NotRecovering]
  /\ peers = DOMAIN VStake \ {SelfValidator}
  /\ height = 0
  /\ outbox = [stage |-> "none", fork |-> 0, epoch |-> 0]
  /\ runs = [low |-> 0, good |-> 0]
  /\ account = [a \in DOMAIN StartBalances |->
                  [balance |-> StartBalances[a], nonce |-> 0, budget |-> NoBudget, spent |-> 0]]
  /\ pending = {}
  /\ admitting = {}

PartitionNext ==
  \/ DetectCycle
  \/ SendHealPayload
  \/ \E S \in SUBSET (DOMAIN VStake \ {SelfValidator}) : PeersChange(S)
  \/ \E t \in DOMAIN ATx : AdmitCheck(t) \/ AdmitCommit(t) \/ ExecutePending(t)
  \/ \E a \in DOMAIN StartBalances, b \in Budgets : SetPartitionBudget(a, b)

(***************************************************************************)
(* Properties                                                              *)
(***************************************************************************)
(* A sender never has two unfinalized transactions for one nonce, however  *)
(* admissions interleave (the check under the write lock).                 *)
OneTxPerSlot ==
  \A t, u \in pending : ATx[t].from = ATx[u].from /\ ATx[t].nonce = ATx[u].nonce => t = u

(* What a sender has pending is always covered by the confirmed balance:   *)
(* admission counts every earlier admission.                               *)
PendingIsCovered ==
  \A a \in DOMAIN account : MapThenSumSet(TxCost, Unfinalized(a)) <= account[a].balance

(* detect_cycle enters Partitioned only after confirmation_timeout_ms of   *)
(* low visibility in every cycle, and leaves it only after                 *)
(* recovery_window_ms of good visibility in every cycle.                   *)
TransitionsAreSustained ==
  [][/\ pstate.status # "Partitioned" /\ pstate'.status = "Partitioned" => runs'.low > ConfirmCycles
     /\ pstate.status = "Partitioned" /\ pstate'.status # "Partitioned" => runs'.good > RecoveryCycles]_pnVars

(* When the other validators stay connected, the node returns to Normal    *)
(* for good.                                                               *)
ReturnsToNormal ==
  <>[](peers \cup {SelfValidator} = DOMAIN VStake) => <>[](pstate.status = "Normal")

(* What validate_transaction admits in a partition can be executed: the    *)
(* admitted transactions of a sender have their own nonces and are         *)
(* covered together.                                                       *)
PendingIsPayable == OneTxPerSlot /\ PendingIsCovered
=============================================================================
