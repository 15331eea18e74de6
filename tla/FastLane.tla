------------------------------ MODULE FastLane ------------------------------
(***************************************************************************)
(* The fast lane of one node's gossip service (rinku-node/src/gossip.rs):  *)
(* transactions broadcast for confirmation, the votes counted for them,    *)
(* the queue of confirmed transactions, their execution between            *)
(* checkpoints and the periodic cleanup that ages all of this out.         *)
(*                                                                         *)
(* Four tasks share the maps under the service's lock and meet in the      *)
(* ledger: message handlers, the vote batch processor (`fresh` is what it  *)
(* confirmed under one lock and queues under a second), the gossip loop    *)
(* (`batch` is the queue it took and now executes) and the applier of      *)
(* checkpoints (`finalized` is what it still has to clean up).             *)
(*                                                                         *)
(* Time is counted in units of five seconds.                               *)
(***************************************************************************)
EXTENDS Execution

CONSTANTS
  Validator,       \* validator addresses
  Self,            \* this node's validator address
  StakeTables,     \* the validator tables the state goes through, in order
  PeerTx,          \* transactions peers send
  OwnTx,           \* transactions submitted to this node's API
  Unacceptable,    \* transactions admission refuses: underpriced or not authentic
  Funds,           \* balances at the start
  MaxMessages,     \* bound: messages received
  MaxCheckpoints,  \* bound: checkpoints applied
  MaxAhead,        \* bound: how far the network's height runs ahead
  ChannelSize,     \* FAST_PATH_BATCH_CHANNEL_SIZE
  MaxKnown,        \* KNOWN_TXS_MAX_SIZE
  MaxQueue,        \* MAX_PENDING_EXECUTION
  MaxRequeue,      \* MAX_REQUEUE
  MaxTracked       \* FAST_PATH_MAX_CONFIRMED = FAST_PATH_MAX_PENDING

VARIABLES
  table,       \* index of the state's current validator table
  cached,      \* index of the table in validator_cache
  known,       \* known_txs, oldest first
  dag,         \* transactions in the DAG
  votes,       \* the vote channel
  pending, confirmed, executed, bodies,   \* the fast_path_* maps
  fresh,       \* newly_confirmed of the batch processor
  queue,       \* confirmed_pending_execution
  batch,       \* the queue the gossip loop took, and the phase it is in
  accounts, pool,                         \* the ledger
  ahead,       \* highest_seen_peer_height minus the local height
  finalized,   \* hashes of an applied checkpoint not cleaned up yet
  since,       \* time since the last refresh
  applied,     \* how often each transaction took effect
  certified,   \* transactions this node has seen confirmed
  refused,     \* transactions the executor rejected
  laned,       \* transactions the lane executed
  messages, checkpoints

lane == <<known, votes, pending, confirmed, executed, bodies, fresh, queue>>
ledger == <<dag, accounts, pool, applied>>
history == <<certified, refused, laned>>
clocks == <<since, messages, checkpoints>>
view == <<table, cached>>
fastLaneVars == <<view, lane, ledger, history, clocks, batch, ahead, finalized>>

NoBatch == [phase |-> "idle", txs |-> <<>>, executed |-> {}, deferred |-> {}]

FastLaneInit ==
  /\ table = 1 /\ cached = 1
  /\ known = <<>> /\ dag = {} /\ votes = <<>>
  /\ pending = <<>> /\ confirmed = <<>> /\ executed = {} /\ bodies = {}
  /\ fresh = <<>> /\ queue = <<>> /\ batch = NoBatch
  /\ accounts = [a \in Addr |-> [NewAccount EXCEPT !.balance = Funds[a]]]
  /\ pool = <<>> /\ ahead = 0 /\ finalized = {} /\ since = 0
  /\ applied = [t \in Tx |-> 0]
  /\ certified = {} /\ refused = {} /\ laned = {}
  /\ messages = 0 /\ checkpoints = 0

-----------------------------------------------------------------------------
(* Receiving.                                                              *)

(* BoundedHashSet::insert drops the oldest entries at the limit. *)
Remember(seen, t) ==
  IF t \in Range(seen) THEN seen
  ELSE LET kept == Min({Len(seen), MaxKnown - 1})
       IN Append(SubSeq(seen, 1 + Len(seen) - kept, Len(seen)), t)

(* What the state says to a gossiped transaction: a nonce that has passed  *)
(* is stale; a signature or a gas price may be refused.                    *)
Admission(t) ==
  IF t \in Unacceptable THEN "refused"
  ELSE IF TxInfo[t].nonce < accounts[TxInfo[t].from].nonce THEN "stale"
  ELSE "accepted"

(* The channel drops what does not fit. *)
Send(op) == votes' = IF Len(votes) < ChannelSize THEN Append(votes, op) ELSE votes

(* TxConfirmBroadcast.  A transaction this node has not seen goes to the   *)
(* DAG first; the vote is queued even when the DAG refuses it.             *)
ReceiveBroadcast(t, v) ==
  LET isNew == t \notin Range(known)
      answer == Admission(t)
  IN /\ messages < MaxMessages /\ messages' = messages + 1
     /\ t \notin executed
     /\ known' = IF isNew /\ answer # "refused" THEN Remember(known, t) ELSE known
     /\ dag' = IF isNew /\ answer = "accepted" THEN dag \union {t} ELSE dag
     /\ Send([kind |-> "broadcast", tx |-> t, from |-> v, stake |-> StakeTables[table][v]])
     /\ UNCHANGED <<view, pending, confirmed, executed, bodies, fresh, queue, accounts, pool, applied,
                    history, since, checkpoints, batch, ahead, finalized>>

(* TxConfirmAck: the voter states the stake it had under some table. *)
ReceiveAck(t, v, i) ==
  /\ messages < MaxMessages /\ messages' = messages + 1
  /\ t \notin executed
  /\ Send([kind |-> "ack", tx |-> t, from |-> v, stake |-> StakeTables[i][v]])
  /\ UNCHANGED <<view, known, pending, confirmed, executed, bodies, fresh, queue, ledger,
                 history, since, checkpoints, batch, ahead, finalized>>

NewEntry == [acks |-> <<>>, total |-> 0, age |-> 0, quorum |-> 0, final |-> FALSE]

CountAck(f, v, stake) ==
  IF v \in DOMAIN f.acks THEN f
  ELSE [f EXCEPT !.acks = Insert(@, v, stake), !.total = @ + stake]

Enqueue(q, t) == IF Len(q) < MaxQueue THEN Append(q, t) ELSE q

(* The API admits the next nonce after the account's and the DAG's. *)
NextInLine(t) ==
  LET start == accounts[TxInfo[t].from].nonce
      pendingNonces == {TxInfo[u].nonce : u \in {d \in dag : TxInfo[d].from = TxInfo[t].from}}
  IN /\ TxInfo[t].nonce >= start
     /\ TxInfo[t].nonce \notin pendingNonces
     /\ start..(TxInfo[t].nonce - 1) \subseteq pendingNonces

(* broadcast_fast_path_transaction, called once the API has put the        *)
(* transaction in the DAG.  The node acks it, and queues it for execution  *)
(* without waiting for any other vote.                                     *)
BroadcastFastPathTransaction(t) ==
  LET stake == StakeTables[table][Self]
  IN /\ t \notin Range(known)
     /\ t \notin Unacceptable /\ NextInLine(t)
     /\ dag' = dag \union {t}
     /\ known' = Remember(known, t)
     /\ IF stake > 0
        THEN /\ pending' = Insert(pending, t, CountAck(GetOr(pending, t, NewEntry), Self, stake))
             /\ queue' = IF t \in executed THEN queue ELSE Enqueue(queue, t)
        ELSE UNCHANGED <<pending, queue>>
     /\ UNCHANGED <<view, votes, confirmed, executed, bodies, fresh, accounts, pool, applied,
                    history, clocks, batch, ahead, finalized>>

-----------------------------------------------------------------------------
(* The vote batch processor.                                               *)

TotalStake(i) == FoldFunction(+, 0, StakeTables[i])
QuorumThreshold(i) == (TotalStake(i) * 2) \div 3

(* The entry becomes a certificate once the stake behind it is enough. *)
Tally(s, t, f, i, body) ==
  IF f.total >= QuorumThreshold(i)
  THEN [s EXCEPT !.pending = Without(@, {t}),
                 !.confirmed = Insert(@, t, [f EXCEPT !.age = 0, !.quorum = QuorumThreshold(i)]),
                 !.fresh = Append(@, [tx |-> t, body |-> body])]
  ELSE [s EXCEPT !.pending = Insert(@, t, f)]

WithSelf(f, i) == IF StakeTables[i][Self] > 0 THEN CountAck(f, Self, StakeTables[i][Self]) ELSE f

(* A broadcast counts as its sender's vote with the stake of the table. *)
BroadcastVote(s, op, i) ==
  LET stake == StakeTables[i][op.from]
      kept == [s EXCEPT !.bodies = @ \union {op.tx}]
      f == GetOr(s.pending, op.tx, NewEntry)
      voted == IF stake > 0 THEN CountAck(f, op.from, stake) ELSE f
  IN IF op.tx \in executed \/ op.tx \in DOMAIN s.confirmed THEN kept
     ELSE Tally(kept, op.tx, WithSelf(voted, i), i, TRUE)

(* An ack must name a known transaction and the stake of the table. *)
AckVote(s, op, i) ==
  LET f == CountAck(GetOr(s.pending, op.tx, NewEntry), op.from, op.stake)
  IN IF \/ op.tx \in executed \/ op.tx \in DOMAIN s.confirmed
        \/ op.tx \notin DOMAIN s.pending /\ op.tx \notin Range(known)
        \/ op.stake # StakeTables[i][op.from]
     THEN s
     ELSE Tally(s, op.tx, WithSelf(f, i), i, op.tx \in s.bodies)

VoteStep(s, op, i) == IF op.kind = "broadcast" THEN BroadcastVote(s, op, i) ELSE AckVote(s, op, i)

(* process_fast_path_batch up to the release of the lock.  The validator   *)
(* table is the cached one, or the state's when the cache has expired.     *)
ProcessFastPathBatch(i) ==
  LET s == FoldLeft(LAMBDA r, op : VoteStep(r, op, i),
                    [pending |-> pending, confirmed |-> confirmed, bodies |-> bodies, fresh |-> <<>>],
                    votes)
  IN /\ fresh = <<>> /\ votes # <<>>
     /\ i \in {cached, table} /\ cached' = i
     /\ votes' = <<>>
     /\ pending' = s.pending /\ confirmed' = s.confirmed /\ bodies' = s.bodies /\ fresh' = s.fresh
     /\ certified' = certified \union DOMAIN s.confirmed
     /\ UNCHANGED <<table, known, executed, queue, ledger, refused, laned, clocks, batch, ahead, finalized>>

(* The second lock: a confirmed transaction whose body is nowhere is left  *)
(* to the checkpoint.                                                      *)
QueueConfirmed ==
  LET push(q, c) == IF c.body \/ c.tx \in dag THEN Enqueue(q, c.tx) ELSE q
  IN /\ fresh # <<>>
     /\ queue' = FoldLeft(push, queue, fresh)
     /\ fresh' = <<>>
     /\ UNCHANGED <<view, known, votes, pending, confirmed, executed, bodies, ledger, history, clocks,
                    batch, ahead, finalized>>

-----------------------------------------------------------------------------
(* The gossip loop.                                                        *)

RefreshPeriod == 2     \* 10 s
Ttl == 3               \* FAST_PATH_TTL_MS = FAST_PATH_PENDING_TTL_MS = 15 s
ExecutedTtl == 4       \* FAST_PATH_EXECUTED_EXTENDED_TTL_MS = 20 s

(* The key sets that can be left when the oldest are evicted. *)
Youngest(m, K) ==
  {L \in SUBSET K : /\ Cardinality(L) = Min({Cardinality(K), MaxTracked})
                    /\ \A k \in L, x \in K \ L : m[k].age <= m[x].age}

(* The refresh of gossip_round: both maps age out and are capped, markers  *)
(* without a confirmed entry and bodies without any entry are dropped, and *)
(* the queue forgets what was executed.                                    *)
RefreshRound ==
  LET alive == {t \in DOMAIN confirmed :
                  confirmed[t].age < IF t \in executed /\ ~confirmed[t].final THEN ExecutedTtl ELSE Ttl}
      waiting == {t \in DOMAIN pending : pending[t].age < Ttl}
  IN /\ batch.phase = "idle" /\ since >= RefreshPeriod
     /\ since' = 0
     /\ \E C \in Youngest(confirmed, alive), P \in Youngest(pending, waiting) :
          /\ confirmed' = Restrict(confirmed, C)
          /\ pending' = Restrict(pending, P)
          /\ executed' = executed \intersect C
          /\ bodies' = bodies \intersect (C \union P)
     /\ queue' = SelectSeq(queue, LAMBDA t : t \notin executed)
     /\ UNCHANGED <<view, known, votes, fresh, ledger, history, messages, checkpoints,
                    batch, ahead, finalized>>

(* execute_fast_path_batch_gossip: not while the node is behind.  The      *)
(* queue is taken under one lock and filtered under the next.              *)
TakeBatch ==
  /\ batch.phase = "idle" /\ ahead = 0 /\ queue # <<>>
  /\ batch' = [NoBatch EXCEPT !.phase = "taken",
                 !.txs = SelectSeq(queue, LAMBDA t : t \notin executed)]
  /\ queue' = <<>>
  /\ UNCHANGED <<view, known, votes, pending, confirmed, executed, bodies, fresh, ledger, history,
                 clocks, ahead, finalized>>

(* execute_fast_path_batch, under the state's lock.  A copy of a           *)
(* transaction queued twice finds its nonce passed.                        *)
ExecuteBatch ==
  LET txs == Sorted(Range(batch.txs))
  IN /\ batch.phase = "taken"
     /\ \E r \in {ExecuteFastPathBatch(accounts, pool, 0, txs)} :
          LET deferred == {t \in Range(txs) : t \notin r.settled \/ TxInfo[t].kind = "Contract"}
          IN /\ accounts' = r.accounts /\ pool' = r.pool
             /\ applied' = [t \in Tx |-> applied[t] + IF t \in r.executed THEN 1 ELSE 0]
             /\ laned' = laned \union r.executed
             /\ refused' = refused \union {t \in Range(txs) \ (r.executed \union deferred) :
                                             TxInfo[t].nonce >= r.accounts[TxInfo[t].from].nonce}
             /\ batch' = [phase |-> "ran", txs |-> txs, executed |-> r.executed, deferred |-> deferred]
     /\ UNCHANGED <<view, lane, dag, certified, clocks, ahead, finalized>>

(* Deferred transactions go back to the queue only if the batch executed   *)
(* something and the node is not two checkpoints behind by now.            *)
Requeued(q) ==
  LET again == SelectSeq(batch.txs, LAMBDA t : t \in batch.deferred)
  IN IF batch.executed = {} \/ ahead >= 2 THEN q
     ELSE q \o SubSeq(again, 1, Min({Len(again), Max({0, MaxRequeue - Len(q)})}))

(* Mutant: everything the batch held is marked. *)
MarkedAll == Range(batch.txs)

(* What the batch settled: executed, found applied, or rejected. *)
Marked == Range(batch.txs) \ batch.deferred

MarkResults ==
  /\ batch.phase = "ran"
  /\ executed' = executed \union Marked
  /\ confirmed' = [t \in DOMAIN confirmed |->
       [confirmed[t] EXCEPT !.final =
          IF t \in batch.executed THEN FALSE ELSE @ \/ (t \in Marked /\ t \in refused)]]
  /\ queue' = Requeued(queue)
  /\ batch' = NoBatch
  /\ UNCHANGED <<view, known, votes, pending, bodies, fresh, ledger, history, clocks, ahead, finalized>>

-----------------------------------------------------------------------------
(* The rest of the node.                                                   *)

(* A checkpoint takes effect under the state's lock.  What the fast path   *)
(* ran is skipped and leaves the pool.  Lists with a transaction the batch *)
(* would defer are Ledger's subject and left out here.                     *)
ApplyCheckpoint(S) ==
  LET txs == Sorted(S \ Range(pool))
  IN /\ checkpoints < MaxCheckpoints /\ checkpoints' = checkpoints + 1
     /\ finalized = {} /\ S # {} /\ S \subseteq dag
     /\ \E r \in {ExecuteBatchInline(accounts, pool, 0, 0, txs, AvailableNonces(txs))} :
          /\ r.deferred = <<>> /\ r.balance_deferred = <<>>
          /\ accounts' = r.accounts
          /\ applied' = [t \in Tx |-> applied[t] + IF t \in r.executed THEN 1 ELSE 0]
     /\ pool' = SelectSeq(pool, LAMBDA t : t \notin S)
     /\ dag' = dag \ S
     /\ finalized' = S
     /\ ahead' = Max({0, ahead - 1})
     /\ UNCHANGED <<view, lane, history, since, messages, batch>>

(* remove_finalized_from_fast_path, called afterwards under the service's  *)
(* own lock.                                                               *)
RemoveFinalized ==
  /\ finalized # {}
  /\ confirmed' = Without(confirmed, finalized)
  /\ pending' = Without(pending, finalized)
  /\ executed' = executed \ finalized
  /\ known' = SelectSeq(known, LAMBDA t : t \notin finalized)
  /\ finalized' = {}
  /\ UNCHANGED <<view, votes, bodies, fresh, queue, ledger, history, clocks, batch, ahead>>

(* A peer announces a height this node does not have. *)
SeeHigherPeer ==
  /\ ahead < MaxAhead /\ ahead' = ahead + 1
  /\ UNCHANGED <<view, lane, ledger, history, clocks, batch, finalized>>

(* The missing checkpoint holds nothing of this lane. *)
CatchUp ==
  /\ ahead > 0 /\ ahead' = ahead - 1
  /\ UNCHANGED <<view, lane, ledger, history, clocks, batch, finalized>>

StakeChanges ==
  /\ table < Len(StakeTables) /\ table' = table + 1
  /\ UNCHANGED <<cached, lane, ledger, history, clocks, batch, ahead, finalized>>

Older(m) == [t \in DOMAIN m |-> [m[t] EXCEPT !.age = Min({@ + 1, ExecutedTtl})]]

TimePasses ==
  /\ since' = Min({since + 1, RefreshPeriod})
  /\ pending' = Older(pending) /\ confirmed' = Older(confirmed)
  /\ UNCHANGED <<view, known, votes, executed, bodies, fresh, queue, ledger, history, messages,
                 checkpoints, batch, ahead, finalized>>

Receive ==
  \E t \in PeerTx, v \in Validator \ {Self} :
    \/ ReceiveBroadcast(t, v)
    \/ \E i \in 1..Len(StakeTables) : ReceiveAck(t, v, i)

FastLaneNext ==
  \/ Receive
  \/ \E t \in OwnTx : BroadcastFastPathTransaction(t)
  \/ \E i \in 1..Len(StakeTables) : ProcessFastPathBatch(i)
  \/ QueueConfirmed
  \/ RefreshRound \/ TakeBatch \/ ExecuteBatch \/ MarkResults
  \/ \E S \in SUBSET Tx : ApplyCheckpoint(S)
  \/ RemoveFinalized
  \/ SeeHigherPeer \/ CatchUp \/ StakeChanges \/ TimePasses

-----------------------------------------------------------------------------
(* A confirmed entry stands for distinct validators that together hold the *)
(* stake the threshold asked for, however votes were repeated, delayed     *)
(* past a change of stake, or counted by two paths (broadcast, ack, self). *)
CertificateHasQuorum ==
  \A t \in DOMAIN confirmed :
    FoldFunction(+, 0, confirmed[t].acks) >= confirmed[t].quorum

(* The lane executes a transaction only if this node saw a quorum for it   *)
(* or is its originator, whatever was aged out and voted for again.        *)
LaneExecutesCertified == laned \subseteq certified \union OwnTx

(* A marker in fast_path_executed, which stops all further votes and       *)
(* executions of a transaction, stands for a nonce the account has passed  *)
(* or a transaction the executor refused.                                  *)
MarkedIsSettled ==
  \A t \in executed : t \in refused \/ TxInfo[t].nonce < accounts[TxInfo[t].from].nonce

(* A transaction takes effect once, although the marker that stops the     *)
(* lane is dropped by cleanup and by finalization while copies are queued  *)
(* or in the batch being executed.                                         *)
AppliedOnce == \A t \in Tx : applied[t] <= 1

(* What the lane executes is certified by a quorum or the node's own, what *)
(* it marks is settled, and nothing takes effect twice.                    *)
LaneSafety == CertificateHasQuorum /\ LaneExecutesCertified /\ MarkedIsSettled /\ AppliedOnce
=============================================================================
