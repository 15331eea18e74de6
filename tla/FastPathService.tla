-------------------------- MODULE FastPathService --------------------------
(***************************************************************************)
(* The stand-alone fast-path finality tracker of                           *)
(* rinku-node/src/fast_path.rs: transactions wait in pending_txs for       *)
(* stake-weighted ACKs and move to confirmed_txs once the acknowledged     *)
(* stake reaches the quorum computed when they were registered.            *)
(*                                                                         *)
(* Every method takes the RwLock once and is one action, except            *)
(* add_ack_checked: when the ACK completes the quorum it drops the lock    *)
(* and takes it again to move the entry, so it is two actions, AddAck and  *)
(* MoveConfirmed; movers[t] counts the calls that are between the two.     *)
(* Time is a bounded clock; a BLS signature check is a choice of the       *)
(* environment (only ACKs that pass it are inputs).                        *)
(***************************************************************************)
EXTENDS Integers, FiniteSets, Maps

CONSTANTS
  Tx,           \* transaction hashes
  Validator,    \* validator addresses
  AckStake,     \* AckStake[S]: the validator_stake the ACKs of the validators S carry
  TotalStakes,  \* values update_total_stake is called with
  Timeout,      \* config.timeout_ms, in clock ticks
  MaxAge,       \* max_age_ms of cleanup_old_confirmed, in clock ticks
  MaxTime,      \* bound: the clock stops here
  MaxMovers     \* bound: concurrent add_ack calls waiting to move one tx

ASSUME FastPathAssumption ==
  /\ AckStake \in [SUBSET Validator -> Nat]
  /\ AckStake[{}] = 0
  /\ \A S \in SUBSET Validator : \A v \in Validator \ S :
       AckStake[S \cup {v}] = AckStake[S] + AckStake[{v}]
  /\ TotalStakes \subseteq Nat
  /\ {Timeout, MaxAge, MaxTime, MaxMovers} \subseteq Nat

VARIABLES pending_txs, confirmed_txs, total_validator_stake, movers, now

vars == <<pending_txs, confirmed_txs, total_validator_stake, movers, now>>

NoTime == -1

Finality ==
  [status : {"Pending", "Confirmed", "Finalized"},
   acks : SUBSET Validator,
   total_stake_acked : Nat,
   quorum_stake_required : Nat,
   first_ack_ms : {NoTime} \cup (0 .. MaxTime),
   confirmed_at_ms : {NoTime} \cup (0 .. MaxTime)]

Init ==
  /\ pending_txs = <<>>
  /\ confirmed_txs = <<>>
  /\ total_validator_stake = 0
  /\ movers = [t \in Tx |-> 0]
  /\ now = 0

UpdateTotalStake(s) ==
  /\ total_validator_stake' = s
  /\ UNCHANGED <<pending_txs, confirmed_txs, movers, now>>

\* (total as f64 * 0.667) as u64
QuorumRequired(total) == (total * 667) \div 1000

\* Mutant: registers without looking in confirmed_txs.
RegisterForgettingConfirmed(t) ==
  /\ t \notin DOMAIN pending_txs
  /\ pending_txs' = Insert(pending_txs, t,
       [status |-> "Pending", acks |-> {}, total_stake_acked |-> 0,
        quorum_stake_required |-> QuorumRequired(total_validator_stake),
        first_ack_ms |-> NoTime, confirmed_at_ms |-> NoTime])
  /\ UNCHANGED <<confirmed_txs, total_validator_stake, movers, now>>

RegisterFastPathTx(t) ==
  /\ t \notin DOMAIN pending_txs \cup DOMAIN confirmed_txs
  /\ pending_txs' = Insert(pending_txs, t,
       [status |-> "Pending", acks |-> {}, total_stake_acked |-> 0,
        quorum_stake_required |-> QuorumRequired(total_validator_stake),
        first_ack_ms |-> NoTime, confirmed_at_ms |-> NoTime])
  /\ UNCHANGED <<confirmed_txs, total_validator_stake, movers, now>>

\* The entry after v's ACK, the quorum test included.
Acked(f, v) ==
  LET total == f.total_stake_acked + AckStake[{v}]
      g == [f EXCEPT !.total_stake_acked = total,
                     !.acks = @ \cup {v},
                     !.first_ack_ms = IF f.acks = {} THEN now ELSE @]
  IN IF total >= f.quorum_stake_required /\ f.status = "Pending"
     THEN [g EXCEPT !.status = "Confirmed", !.confirmed_at_ms = now]
     ELSE g

\* Mutant: no duplicate-ACK check.
AddAckCountingTwice(t, v) ==
  /\ t \in DOMAIN pending_txs
  /\ pending_txs[t].total_stake_acked <= 4
  /\ LET g == Acked(pending_txs[t], v) IN
     /\ pending_txs' = Insert(pending_txs, t, g)
     /\ movers' = IF g.status # pending_txs[t].status
                  THEN [movers EXCEPT ![t] = @ + 1] ELSE movers
  /\ UNCHANGED <<confirmed_txs, total_validator_stake, now>>

AddAck(t, v) ==
  /\ t \in DOMAIN pending_txs
  /\ v \notin pending_txs[t].acks
  /\ LET g == Acked(pending_txs[t], v) IN
     /\ pending_txs' = Insert(pending_txs, t, g)
     /\ IF g.status # pending_txs[t].status
        THEN movers[t] < MaxMovers /\ movers' = [movers EXCEPT ![t] = @ + 1]
        ELSE movers' = movers
  /\ UNCHANGED <<confirmed_txs, total_validator_stake, now>>

\* The second critical section of add_ack_checked.
MoveConfirmed(t) ==
  /\ movers[t] > 0
  /\ movers' = [movers EXCEPT ![t] = @ - 1]
  /\ IF t \in DOMAIN pending_txs
     THEN /\ confirmed_txs' = Insert(confirmed_txs, t, pending_txs[t])
          /\ pending_txs' = Without(pending_txs, {t})
     ELSE UNCHANGED <<pending_txs, confirmed_txs>>
  /\ UNCHANGED <<total_validator_stake, now>>

MarkFinalized(t) ==
  /\ confirmed_txs' = IF t \in DOMAIN confirmed_txs
                      THEN [confirmed_txs EXCEPT ![t].status = "Finalized"]
                      ELSE confirmed_txs
  /\ pending_txs' = Without(pending_txs, {t})
  /\ UNCHANGED <<total_validator_stake, movers, now>>

CleanupOldConfirmed ==
  /\ confirmed_txs' = Without(confirmed_txs,
       {t \in DOMAIN confirmed_txs : /\ confirmed_txs[t].confirmed_at_ms # NoTime
                                     /\ now - confirmed_txs[t].confirmed_at_ms > MaxAge})
  /\ UNCHANGED <<pending_txs, total_validator_stake, movers, now>>

CleanupTimedOutPending ==
  /\ pending_txs' = Without(pending_txs,
       {t \in DOMAIN pending_txs : /\ pending_txs[t].acks # {}
                                   /\ now - pending_txs[t].first_ack_ms > Timeout})
  /\ UNCHANGED <<confirmed_txs, total_validator_stake, movers, now>>

Tick ==
  /\ now < MaxTime
  /\ now' = now + 1
  /\ UNCHANGED <<pending_txs, confirmed_txs, total_validator_stake, movers>>

Next ==
  \/ \E s \in TotalStakes : UpdateTotalStake(s)
  \/ \E t \in Tx : RegisterFastPathTx(t) \/ MoveConfirmed(t) \/ MarkFinalized(t)
  \/ \E t \in Tx, v \in Validator : AddAck(t, v)
  \/ CleanupOldConfirmed
  \/ CleanupTimedOutPending
  \/ Tick

Spec == Init /\ [][Next]_vars

-----------------------------------------------------------------------------

\* Every entry is a well-formed FastPathFinality of fast_path.rs.
TypeOK ==
  /\ IsMap(pending_txs, Tx, Finality)
  /\ IsMap(confirmed_txs, Tx, Finality)
  /\ total_validator_stake \in {0} \cup TotalStakes
  /\ movers \in [Tx -> 0 .. MaxMovers]
  /\ now \in 0 .. MaxTime

\* The acknowledged stake of an entry is the sum of the stakes of distinct
\* validators, whatever ACKs were duplicated and whenever the entry moved.
AckedStakeCountedOnce ==
  \A f \in Range(pending_txs) \cup Range(confirmed_txs) :
    f.total_stake_acked = AckStake[f.acks]

\* No transaction is tracked by pending_txs and confirmed_txs at once, even
\* while a call of add_ack_checked is between its two critical sections.
PendingConfirmedDisjoint == DOMAIN pending_txs \cap DOMAIN confirmed_txs = {}

\* A finalized entry is never turned back by a late ACK, a late move or a new
\* registration: it stays Finalized until cleanup_old_confirmed drops it.
FinalizedIsFinal ==
  [][\A t \in DOMAIN confirmed_txs :
       confirmed_txs[t].status = "Finalized" =>
         \/ t \notin DOMAIN confirmed_txs' /\ CleanupOldConfirmed
         \/ t \in DOMAIN confirmed_txs' /\ confirmed_txs'[t].status = "Finalized"]_vars

\* is_confirmed (membership in confirmed_txs) means that the quorum of the
\* entry was acknowledged.
ConfirmedHasQuorum ==
  \A t \in DOMAIN confirmed_txs :
    confirmed_txs[t].total_stake_acked >= confirmed_txs[t].quorum_stake_required
=============================================================================
