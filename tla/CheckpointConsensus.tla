------------------------ MODULE CheckpointConsensus ------------------------
(***************************************************************************)
(* How validators agree on checkpoints at run time: proposals, the vote    *)
(* lock, the collection of a quorum-certified checkpoint (QCC), retries    *)
(* and self-yield, leader timeouts and view changes, delivery of certified *)
(* checkpoints and fork resolution (rinku-node/src/checkpoint.rs and       *)
(* gossip.rs).                                                             *)
(*                                                                         *)
(* A checkpoint is named by its hash, a positive number ordered like the   *)
(* hash strings; 0 stands for no hash.  Every proposal carries a timestamp *)
(* and so has a hash of its own.  A message is a member of a set that only *)
(* grows: it can be received late, twice, out of order or never.  Time is  *)
(* left out: a deadline or a tick count may be reached at any moment.  The *)
(* validator set is fixed, and every node always has unfinalized           *)
(* transactions to put into a checkpoint.                                  *)
(***************************************************************************)
EXTENDS Integers, Sequences, FiniteSets

CONSTANTS Node,        \* the validators
          StakeOf,     \* [SUBSET Node -> Nat], the stake of a set of validators
          Hash,        \* hashes of checkpoints (positive naturals)
          Base,        \* height of the last checkpoint common to all nodes
          MaxHeight,   \* bound: the last height that is proposed
          Leader,      \* [Hash \union {0} -> Node], the leader after a tip
          Restarting   \* bound: the nodes that restart, each once

Height == 1..MaxHeight

(* The stake of disjoint sets adds up, and there is some. *)
ASSUME ConsensusAssumption ==
  /\ Hash \subseteq Nat \ {0} /\ Base \in Nat /\ MaxHeight \in Nat /\ Restarting \subseteq Node
  /\ Leader \in [Hash \union {0} -> Node]
  /\ StakeOf \in [SUBSET Node -> Nat] /\ StakeOf[Node] > 0
  /\ \A S, T \in SUBSET Node :
       S \intersect T = {} => StakeOf[S \union T] = StakeOf[S] + StakeOf[T]

VARIABLES
  height_of, prev_of,               \* contents of the checkpoints proposed so far
  chain,        \* state.checkpoints above Base, per node
  snapshot,     \* height of pre_checkpoint_accounts_snapshot (0: none)
  lock_height, lock_hash,           \* qcc_vote_lock
  pending, signers, status,         \* pending_qcc and its collection task
  retry, failures, failure_height,  \* qcc_retry_data, consecutive_qcc_failures
  yielded, fast_yield,              \* qcc_yielded_height, fast_path_yield_start
  timeouts, timeout_sent,           \* leader_timeout_votes, leader_timeout_sent
  view_sent,                        \* view_change_sent (view 1 is the only view)
  buffer,                           \* checkpoint_buffer
  saved,        \* the checkpoint table on disk, by height above Base
  fork, fork_stage,                 \* an apply_received_checkpoint resolving a fork
  requests, votes, timeout_msgs, view_msgs, pushed,  \* messages sent
  cert,         \* signers of each certificate formed ({}: none)
  restarted,
  signed,       \* history: the hashes each validator has signed
  dropped,      \* history: heights for which a validator's lock was given up
  buried        \* history: the checkpoints a later one was applied on, per node

proposals == <<height_of, prev_of>>
lock == <<lock_height, lock_hash>>
task == <<pending, signers, status>>
tick == <<retry, failures, failure_height, yielded, fast_yield>>
view == <<timeouts, timeout_sent, view_sent, timeout_msgs, view_msgs>>
forks == <<fork, fork_stage>>
ledger == <<chain, snapshot, buffer, buried, saved>>
vars == <<proposals, ledger, lock, task, tick, view, forks, requests, votes, pushed,
          cert, restarted, signed, dropped>>

Local(n) == Base + Len(chain[n])
Tip(n) == IF chain[n] = <<>> THEN 0 ELSE chain[n][Len(chain[n])]
NextHeight(n) == Local(n) + 1

(* Every application of a checkpoint ends in a longer chain c and leaves   *)
(* the snapshot for taking its last checkpoint back.                       *)
Apply(n, c) ==
  /\ chain' = [chain EXCEPT ![n] = c]
  /\ snapshot' = [snapshot EXCEPT ![n] = Base + Len(c)]
  /\ buried' = [buried EXCEPT ![n] = SubSeq(c, 1, Len(c) - 1)]

(* Mutant: half of the stake is enough. *)
HasQuorumHalf(S) == StakeOf[S] >= StakeOf[Node] \div 2

HasQuorum(S) == StakeOf[S] >= (StakeOf[Node] * 2 + 2) \div 3

Init ==
  /\ height_of = [x \in Hash |-> 0]
  /\ prev_of = [x \in Hash |-> 0]
  /\ chain = [n \in Node |-> <<>>]
  /\ snapshot = [n \in Node |-> 0]
  /\ lock_height = [n \in Node |-> 0] /\ lock_hash = [n \in Node |-> 0]
  /\ pending = [n \in Node |-> 0] /\ signers = [n \in Node |-> {}]
  /\ status = [n \in Node |-> "none"]
  /\ retry = [n \in Node |-> 0]
  /\ failures = [n \in Node |-> 0] /\ failure_height = [n \in Node |-> 0]
  /\ yielded = [n \in Node |-> 0] /\ fast_yield = [n \in Node |-> FALSE]
  /\ timeouts = [n \in Node |-> {}] /\ timeout_sent = [n \in Node |-> {}]
  /\ view_sent = [n \in Node |-> {}]
  /\ buffer = [n \in Node |-> [h \in Height |-> 0]]
  /\ fork = [n \in Node |-> 0] /\ fork_stage = [n \in Node |-> "none"]
  /\ requests = {} /\ votes = {} /\ timeout_msgs = {} /\ view_msgs = {} /\ pushed = {}
  /\ cert = [x \in Hash |-> {}]
  /\ restarted = {}
  /\ signed = [n \in Node |-> {}] /\ dropped = [n \in Node |-> {}]
  /\ buried = [n \in Node |-> <<>>] /\ saved = [n \in Node |-> <<>>]

-----------------------------------------------------------------------------
(* The vote lock.  A validator that gives up its lock at height h may sign *)
(* again at every height up to h.                                          *)

SetLock(n, h, x) ==
  /\ lock_height' = [lock_height EXCEPT ![n] = h]
  /\ lock_hash' = [lock_hash EXCEPT ![n] = x]

Sign(n, x) == signed' = [signed EXCEPT ![n] = @ \union {x}]

Drop(n, H) == dropped' = [dropped EXCEPT ![n] = @ \union H]

(* Mutant: the proposer's lock ignores a vote for a competing hash. *)
ProposerMayLockAlways(n, h, x) == TRUE

ProposerMayLock(n, h, x) == ~(lock_height[n] = h /\ lock_hash[n] # 0 /\ lock_hash[n] # x)

(* The proposer's lock replaces a lock at a higher height as well. *)
TryLockProposerVote(n, h, x) ==
  /\ ProposerMayLock(n, h, x)
  /\ SetLock(n, h, x)
  /\ Drop(n, {k \in Height : h <= k /\ k <= lock_height[n] /\ h < lock_height[n]})

ClearVoteLockForHeight(n, h) ==
  IF lock_height[n] = h
  THEN SetLock(n, 0, 0) /\ Drop(n, 1..h)
  ELSE UNCHANGED <<lock, dropped>>

LockAllows(n, h, x) ==
  ~(lock_height[n] >= h /\ ~(lock_height[n] = h /\ lock_hash[n] = x))

(* Both vote handlers: request-response and gossip.  The height is checked *)
(* again after signing; a vote withheld there is one that never arrives.   *)
Vote(n, x, p) ==
  /\ <<x, p>> \in requests /\ p # n
  /\ Local(n) < height_of[x] /\ height_of[x] <= Local(n) + 3
  /\ LockAllows(n, height_of[x], x)
  /\ SetLock(n, height_of[x], x)
  /\ Sign(n, x)
  /\ votes' = votes \union {<<x, n>>}
  /\ UNCHANGED <<proposals, ledger, task, tick, view, forks, requests, pushed,
                 cert, restarted, dropped>>

-----------------------------------------------------------------------------
(* Leader timeouts and view changes. *)

BroadcastLeaderTimeout(n, h) ==
  IF h \in timeout_sent[n]
  THEN UNCHANGED <<timeouts, timeout_sent, timeout_msgs>>
  ELSE /\ timeout_sent' = [timeout_sent EXCEPT ![n] = @ \union {h}]
       /\ timeouts' = [timeouts EXCEPT ![n] = @ \union {<<h, n>>}]
       /\ timeout_msgs' = timeout_msgs \union {<<h, n>>}

BroadcastViewChange(n, h) ==
  IF h \in view_sent[n]
  THEN UNCHANGED view
  ELSE /\ view_sent' = [view_sent EXCEPT ![n] = @ \union {h}]
       /\ BroadcastLeaderTimeout(n, h)
       /\ view_msgs' = view_msgs \union {<<h, n>>}

(* A validator that hears of a timeout for the next height votes for it    *)
(* too, whether or not it waited for the leader itself.  A duplicate       *)
(* changes nothing.                                                        *)
ReceiveLeaderTimeout(n, v) ==
  LET h == NextHeight(n)
      echo == h \notin timeout_sent[n]
  IN /\ v # n /\ <<h, v>> \in timeout_msgs /\ <<h, v>> \notin timeouts[n]
     /\ timeouts' = [timeouts EXCEPT ![n] = @ \union {<<h, v>>} \union
                                              (IF echo THEN {<<h, n>>} ELSE {})]
     /\ timeout_sent' = [timeout_sent EXCEPT ![n] = IF echo THEN @ \union {h} ELSE @]
     /\ timeout_msgs' = IF echo THEN timeout_msgs \union {<<h, n>>} ELSE timeout_msgs
     /\ UNCHANGED <<proposals, ledger, lock, task, tick, view_sent, view_msgs, forks, requests,
                    votes, pushed, cert, restarted, signed, dropped>>

ReceiveViewChange(n, v) ==
  /\ v # n /\ <<NextHeight(n), v>> \in view_msgs /\ NextHeight(n) \notin view_sent[n]
  /\ BroadcastViewChange(n, NextHeight(n))
  /\ UNCHANGED <<proposals, ledger, lock, task, tick, forks, requests, votes, pushed,
                 cert, restarted, signed, dropped>>

HasTimeoutQuorum(n, h) == HasQuorum({v \in Node : <<h, v>> \in timeouts[n]})

-----------------------------------------------------------------------------
(* The tick: create_state_snapshot. *)

(* A leader that holds the next checkpoint in its buffer is not one. *)
IsSnapshotProposer(n) == Leader[Tip(n)] = n /\ buffer[n][NextHeight(n)] = 0

Idle(n) == pending[n] = 0 /\ NextHeight(n) \in Height

(* Failures are counted for one height at a time. *)
FailuresAt(n) == IF failure_height[n] = NextHeight(n) THEN failures[n] ELSE 0

StartCollecting(n, x) ==
  /\ pending' = [pending EXCEPT ![n] = x]
  /\ signers' = [signers EXCEPT ![n] = {n}]
  /\ status' = [status EXCEPT ![n] = IF HasQuorum({n}) THEN "certified" ELSE "collecting"]
  /\ requests' = requests \union {<<x, n>>}

(* The part of the tick that leaders and backups share: the cached         *)
(* checkpoint of a failed collection is proposed again, or a new one made. *)
(* The height is read again just before the lock is taken.                 *)
Produce(n, x) ==
  LET h == NextHeight(n)
      again == retry[n] # 0 /\ height_of[retry[n]] = h
  IN /\ IF again
        THEN x = retry[n] /\ UNCHANGED proposals
        ELSE /\ height_of[x] = 0
             /\ height_of' = [height_of EXCEPT ![x] = h]
             /\ prev_of' = [prev_of EXCEPT ![x] = Tip(n)]
     /\ TryLockProposerVote(n, h, x)
     /\ Sign(n, x)
     /\ StartCollecting(n, x)
     /\ retry' = [retry EXCEPT ![n] = 0]
     /\ failures' = [failures EXCEPT ![n] = FailuresAt(n)]
     /\ failure_height' = [failure_height EXCEPT ![n] = h]
     /\ UNCHANGED <<ledger, view, forks, votes, pushed, cert, restarted>>

(* A retry that finds the lock taken gives the cached checkpoint up. *)
AbandonRetry(n) ==
  /\ Idle(n) /\ retry[n] # 0 /\ height_of[retry[n]] = NextHeight(n)
  /\ ~ProposerMayLock(n, NextHeight(n), retry[n])
  /\ IsSnapshotProposer(n) => yielded[n] # NextHeight(n)
  /\ ~IsSnapshotProposer(n) => HasTimeoutQuorum(n, NextHeight(n))
  /\ retry' = [retry EXCEPT ![n] = 0]
  /\ failures' = [failures EXCEPT ![n] = FailuresAt(n)]
  /\ failure_height' = [failure_height EXCEPT ![n] = NextHeight(n)]
  /\ UNCHANGED <<proposals, ledger, lock, task, yielded, fast_yield, view, forks, requests,
                 votes, pushed, cert, restarted, signed, dropped>>

Propose(n, x) ==
  /\ Idle(n) /\ IsSnapshotProposer(n)
  /\ yielded[n] # NextHeight(n)
  /\ Produce(n, x)
  /\ UNCHANGED <<yielded, fast_yield>>

(* A backup that has waited long enough votes to skip the leader and gives *)
(* up its vote lock; it proposes itself once the timeouts form a quorum.   *)
(* One tick may do both, but a vote can slip in between.                   *)
LeaderTimeout(n) ==
  /\ Idle(n) /\ ~IsSnapshotProposer(n)
  /\ BroadcastViewChange(n, NextHeight(n))
  /\ ClearVoteLockForHeight(n, NextHeight(n))
  /\ UNCHANGED <<proposals, ledger, task, tick, forks, requests, votes, pushed,
                 cert, restarted, signed>>

ProposeAsBackup(n, x) ==
  /\ Idle(n) /\ ~IsSnapshotProposer(n)
  /\ NextHeight(n) \in view_sent[n]
  /\ HasTimeoutQuorum(n, NextHeight(n))
  /\ Produce(n, x)
  /\ UNCHANGED <<yielded, fast_yield>>

(* A leader that sees peers ahead asks to be skipped. *)
YieldBehindPeers(n) ==
  /\ Idle(n) /\ IsSnapshotProposer(n)
  /\ \E m \in Node : Local(m) > Local(n)
  /\ BroadcastViewChange(n, NextHeight(n))
  /\ UNCHANGED <<proposals, ledger, lock, task, tick, forks, requests, votes, pushed,
                 cert, restarted, signed, dropped>>

(* A leader that has caught up but lost its fast-path pool yields for a    *)
(* while; only this kind of yield expires.                                 *)
FastPathYield(n) ==
  /\ Idle(n) /\ IsSnapshotProposer(n) /\ yielded[n] # NextHeight(n)
  /\ chain[n] # <<>>
  /\ BroadcastViewChange(n, NextHeight(n))
  /\ yielded' = [yielded EXCEPT ![n] = NextHeight(n)]
  /\ fast_yield' = [fast_yield EXCEPT ![n] = TRUE]
  /\ UNCHANGED <<proposals, ledger, lock, task, retry, failures, failure_height, forks,
                 requests, votes, pushed, cert, restarted, signed, dropped>>

ClearYield(n) ==
  /\ yielded' = [yielded EXCEPT ![n] = 0]
  /\ fast_yield' = [fast_yield EXCEPT ![n] = FALSE]
  /\ failures' = [failures EXCEPT ![n] = 0]

YieldExpires(n) ==
  /\ Idle(n) /\ IsSnapshotProposer(n)
  /\ yielded[n] = NextHeight(n) /\ fast_yield[n]
  /\ ClearYield(n)
  /\ failure_height' = [failure_height EXCEPT ![n] = NextHeight(n)]
  /\ UNCHANGED <<proposals, ledger, lock, task, retry, view, forks, requests, votes, pushed,
                 cert, restarted, signed, dropped>>

-----------------------------------------------------------------------------
(* The collection task (collect_qcc_standalone) and the tick that picks up *)
(* its result (check_pending_qcc).                                         *)

(* A vote for another checkpoint, or from a validator already counted, is  *)
(* skipped.  The task stops at the quorum.                                 *)
CollectVote(n, v) ==
  /\ status[n] = "collecting"
  /\ <<pending[n], v>> \in votes /\ v \notin signers[n]
  /\ signers' = [signers EXCEPT ![n] = @ \union {v}]
  /\ status' = [status EXCEPT ![n] = IF HasQuorum(signers[n] \union {v})
                                     THEN "certified" ELSE "collecting"]
  /\ UNCHANGED <<proposals, ledger, lock, pending, tick, view, forks, requests, votes, pushed,
                 cert, restarted, signed, dropped>>

(* The deadline passes, or the height is found committed. *)
CollectionEnds(n) ==
  /\ status[n] = "collecting"
  /\ status' = [status EXCEPT ![n] = "failed"]
  /\ UNCHANGED <<proposals, ledger, lock, pending, signers, tick, view, forks, requests, votes,
                 pushed, cert, restarted, signed, dropped>>

TaskDone(n) ==
  /\ pending' = [pending EXCEPT ![n] = 0]
  /\ signers' = [signers EXCEPT ![n] = {}]
  /\ status' = [status EXCEPT ![n] = "none"]

(* apply_certified_checkpoint: the certificate is thrown away when the tip *)
(* has moved, else the checkpoint is applied and pushed to the peers.      *)
Certified(n) ==
  LET x == pending[n]
  IN /\ status[n] = "certified"
     /\ cert' = [cert EXCEPT ![x] = signers[n]]
     /\ IF height_of[x] = NextHeight(n)
        THEN /\ Apply(n, Append(chain[n], x))
             /\ timeouts' = [timeouts EXCEPT ![n] = {t \in @ : t[1] # height_of[x]}]
             /\ timeout_sent' = [timeout_sent EXCEPT ![n] = {h \in @ : h > height_of[x]}]
             /\ pushed' = pushed \union {x}
        ELSE UNCHANGED <<chain, snapshot, buried, timeouts, timeout_sent, pushed>>
     /\ retry' = [retry EXCEPT ![n] = 0]
     /\ ClearYield(n)
     /\ TaskDone(n)
     /\ UNCHANGED <<proposals, buffer, saved, lock, failure_height, view_sent, timeout_msgs, view_msgs,
                    forks, requests, votes, restarted, signed, dropped>>

QccSelfYieldThreshold == 2

(* The first failure keeps the checkpoint for a retry, the second makes    *)
(* the proposer yield the height; both give up the vote lock.              *)
QccFailure(n) ==
  LET x == pending[n]
      count == failures[n] + 1
      gives_up == count >= QccSelfYieldThreshold
  IN /\ failures' = [failures EXCEPT ![n] = count]
     /\ retry' = [retry EXCEPT ![n] = IF gives_up THEN 0 ELSE x]
     /\ ClearVoteLockForHeight(n, height_of[x])
     /\ yielded' = [yielded EXCEPT ![n] = IF gives_up THEN height_of[x] ELSE @]
     /\ IF gives_up THEN BroadcastViewChange(n, height_of[x]) ELSE UNCHANGED view
     /\ TaskDone(n)
     /\ UNCHANGED <<proposals, ledger, failure_height, fast_yield, forks, requests, votes, pushed,
                    cert, restarted, signed>>

NoQuorum(n) ==
  /\ status[n] = "failed"
  /\ IF Local(n) >= height_of[pending[n]]
     THEN /\ TaskDone(n)
          /\ UNCHANGED <<proposals, ledger, lock, tick, view, forks, requests, votes, pushed,
                         cert, restarted, signed, dropped>>
     ELSE QccFailure(n)

(* A task that is still running long after its deadline is aborted. *)
AbortStuckTask(n) == status[n] = "collecting" /\ QccFailure(n)

-----------------------------------------------------------------------------
(* Certified checkpoints from peers. *)

(* The buffered checkpoints that follow chain c are applied to it, and     *)
(* what the buffer holds at or below the tip is thrown away.               *)
Drained(c, b) ==
  LET top == Base + Len(c)
      run == {h \in top + 1 .. MaxHeight : \A k \in top + 1 .. h : b[k] # 0}
  IN c \o [i \in 1..Cardinality(run) |-> b[top + i]]

SetChain(n, c, b) ==
  LET top == Base + Len(c)
  IN /\ IF c = chain[n] THEN UNCHANGED <<chain, snapshot, buried>> ELSE Apply(n, c)
     /\ buffer' = [buffer EXCEPT ![n] = [h \in Height |-> IF h > top THEN b[h] ELSE 0]]
     /\ timeouts' = [timeouts EXCEPT ![n] = IF c = chain[n] THEN @ ELSE {t \in @ : t[1] > top}]
     /\ timeout_sent' = [timeout_sent EXCEPT ![n] = IF c = chain[n] THEN @
                                                    ELSE {h \in @ : h > top}]

(* The tick drains the buffer in several places; where the leader finds    *)
(* that this moved the chain it forgets its yield.                         *)
DrainCheckpointBuffer(n) ==
  /\ buffer[n] # [h \in Height |-> 0]
  /\ SetChain(n, Drained(chain[n], buffer[n]), buffer[n])
  /\ \/ UNCHANGED tick
     \/ /\ Drained(chain[n], buffer[n]) # chain[n]
        /\ ClearYield(n)
        /\ UNCHANGED <<retry, failure_height>>
  /\ UNCHANGED <<proposals, saved, lock, task, view_sent, timeout_msgs, view_msgs, forks, requests,
                 votes, pushed, cert, restarted, signed, dropped>>

(* Mutant: any higher checkpoint is applied, not only the next one. *)
AcceptAnyHigher(n, x) ==
  /\ HasQuorum(cert[x])
  /\ IF height_of[x] > Local(n)
     THEN SetChain(n, Drained(Append(chain[n], x), buffer[n]), buffer[n])
     ELSE /\ buffer' = [buffer EXCEPT ![n][height_of[x]] = IF @ = 0 THEN x ELSE @]
          /\ UNCHANGED <<chain, snapshot, buried, timeouts, timeout_sent>>

(* The end of apply_received_checkpoint: the quorum is checked, the next   *)
(* checkpoint is applied and the buffer drained, any other one buffered if *)
(* its slot is free.                                                       *)
Accept(n, x) ==
  /\ HasQuorum(cert[x])
  /\ IF height_of[x] = NextHeight(n)
     THEN SetChain(n, Drained(Append(chain[n], x), buffer[n]), buffer[n])
     ELSE /\ buffer' = [buffer EXCEPT ![n][height_of[x]] = IF @ = 0 THEN x ELSE @]
          /\ UNCHANGED <<chain, snapshot, buried, timeouts, timeout_sent>>

ReceiveCheckpoint(n, x) ==
  /\ x \in pushed
  /\ height_of[x] > Local(n)
  /\ Accept(n, x)
  /\ UNCHANGED <<proposals, saved, lock, task, tick, view_sent, timeout_msgs, view_msgs, forks, requests,
                 votes, pushed, cert, restarted, signed, dropped>>

(* A rival of the last checkpoint with the same parent and a lower hash. *)
WinsFork(n, x) ==
  LET y == chain[n][height_of[x] - Base]
  IN y # x /\ prev_of[y] = prev_of[x] /\ x < y /\ height_of[x] = Local(n)

(* Fork resolution reads the chain, rolls back the checkpoint that is last *)
(* by then, and goes on as if the rival were new.                          *)
DecideFork(n, x) ==
  /\ x \in pushed /\ fork_stage[n] = "none"
  /\ Base < height_of[x] /\ height_of[x] <= Local(n)
  /\ WinsFork(n, x)
  /\ fork' = [fork EXCEPT ![n] = x]
  /\ fork_stage' = [fork_stage EXCEPT ![n] = "decided"]
  /\ UNCHANGED <<proposals, ledger, lock, task, tick, view, requests, votes, pushed,
                 cert, restarted, signed, dropped>>

(* Mutant: the snapshot's height is not compared and the snapshot is kept. *)
RollbackWithAnySnapshot(n) ==
  /\ fork_stage[n] = "decided"
  /\ IF chain[n] # <<>> /\ snapshot[n] # 0
     THEN /\ chain' = [chain EXCEPT ![n] = SubSeq(@, 1, Len(@) - 1)]
          /\ UNCHANGED snapshot
          /\ fork_stage' = [fork_stage EXCEPT ![n] = "rolled_back"]
          /\ UNCHANGED fork
     ELSE /\ fork_stage' = [fork_stage EXCEPT ![n] = "none"]
          /\ fork' = [fork EXCEPT ![n] = 0]
          /\ UNCHANGED <<chain, snapshot>>
  /\ UNCHANGED <<proposals, buffer, saved, buried, lock, task, tick, view, requests, votes, pushed,
                 cert, restarted, signed, dropped>>

RollbackLastCheckpoint(n) ==
  /\ fork_stage[n] = "decided"
  /\ IF chain[n] # <<>> /\ snapshot[n] = Local(n)
     THEN /\ chain' = [chain EXCEPT ![n] = SubSeq(@, 1, Len(@) - 1)]
          /\ snapshot' = [snapshot EXCEPT ![n] = 0]
          /\ fork_stage' = [fork_stage EXCEPT ![n] = "rolled_back"]
          /\ UNCHANGED fork
     ELSE /\ fork_stage' = [fork_stage EXCEPT ![n] = "none"]
          /\ fork' = [fork EXCEPT ![n] = 0]
          /\ UNCHANGED <<chain, snapshot>>
  /\ UNCHANGED <<proposals, buffer, saved, buried, lock, task, tick, view, requests, votes, pushed,
                 cert, restarted, signed, dropped>>

AcceptWinner(n) ==
  /\ fork_stage[n] = "rolled_back"
  /\ Accept(n, fork[n])
  /\ fork_stage' = [fork_stage EXCEPT ![n] = "none"]
  /\ fork' = [fork EXCEPT ![n] = 0]
  /\ UNCHANGED <<proposals, saved, lock, task, tick, view_sent, timeout_msgs, view_msgs, requests,
                 votes, pushed, cert, restarted, signed, dropped>>

(* The snapshot that is saved every minute overwrites the rows of the      *)
(* checkpoints held; a row above them stays.  A table that no restart will *)
(* read is left alone.                                                     *)
SaveSnapshot(n) ==
  /\ n \in Restarting \ restarted
  /\ saved' = [saved EXCEPT ![n] = chain[n] \o SubSeq(@, Len(chain[n]) + 1, Len(@))]
  /\ UNCHANGED <<proposals, chain, snapshot, buffer, buried, lock, task, tick, view, forks,
                 requests, votes, pushed, cert, restarted, signed, dropped>>

(* A restart comes back with the checkpoints last saved and loses          *)
(* everything else held in memory, the vote lock included.                 *)
Restart(n) ==
  /\ n \in Restarting \ restarted
  /\ restarted' = restarted \union {n}
  /\ SetLock(n, 0, 0)
  /\ Drop(n, 1..lock_height[n])
  /\ TaskDone(n)
  /\ chain' = [chain EXCEPT ![n] = saved[n]]
  /\ buried' = [buried EXCEPT ![n] = saved[n]]
  /\ snapshot' = [snapshot EXCEPT ![n] = 0]
  /\ retry' = [retry EXCEPT ![n] = 0]
  /\ failure_height' = [failure_height EXCEPT ![n] = 0]
  /\ ClearYield(n)
  /\ timeouts' = [timeouts EXCEPT ![n] = {}]
  /\ timeout_sent' = [timeout_sent EXCEPT ![n] = {}]
  /\ view_sent' = [view_sent EXCEPT ![n] = {}]
  /\ buffer' = [buffer EXCEPT ![n] = [h \in Height |-> 0]]
  /\ fork' = [fork EXCEPT ![n] = 0]
  /\ fork_stage' = [fork_stage EXCEPT ![n] = "none"]
  /\ UNCHANGED <<proposals, saved, timeout_msgs, view_msgs, requests, votes, pushed,
                 cert, signed>>

(* What a validator does while it runs.                                    *)
Step(n) ==
  \/ \E x \in Hash : Propose(n, x) \/ ProposeAsBackup(n, x)
  \/ AbandonRetry(n) \/ LeaderTimeout(n)
  \/ YieldBehindPeers(n) \/ FastPathYield(n) \/ YieldExpires(n)
  \/ \E x \in Hash, p \in Node : Vote(n, x, p)
  \/ \E v \in Node : CollectVote(n, v) \/ ReceiveLeaderTimeout(n, v) \/ ReceiveViewChange(n, v)
  \/ CollectionEnds(n) \/ Certified(n) \/ NoQuorum(n) \/ AbortStuckTask(n)
  \/ \E x \in Hash : ReceiveCheckpoint(n, x) \/ DecideFork(n, x)
  \/ DrainCheckpointBuffer(n) \/ RollbackLastCheckpoint(n) \/ AcceptWinner(n)

Next == \E n \in Node : Step(n) \/ SaveSnapshot(n) \/ Restart(n)

Spec == Init /\ [][Next]_vars

(* The behaviours of Spec in which no validator restarts.                  *)
UninterruptedNext == \E n \in Node : Step(n)
UninterruptedSpec == Init /\ [][UninterruptedNext]_vars

-----------------------------------------------------------------------------
TypeOK ==
  /\ height_of \in [Hash -> 0..MaxHeight] /\ prev_of \in [Hash -> Hash \union {0}]
  /\ \A n \in Node : {chain[n], saved[n], buried[n]} \subseteq Seq(Hash) /\ Local(n) <= MaxHeight
  /\ snapshot \in [Node -> 0..MaxHeight]
  /\ lock_height \in [Node -> 0..MaxHeight] /\ lock_hash \in [Node -> Hash \union {0}]
  /\ pending \in [Node -> Hash \union {0}] /\ signers \in [Node -> SUBSET Node]
  /\ status \in [Node -> {"none", "collecting", "certified", "failed"}]
  /\ retry \in [Node -> Hash \union {0}]
  /\ failures \in [Node -> Nat] /\ failure_height \in [Node -> 0..MaxHeight]
  /\ yielded \in [Node -> 0..MaxHeight] /\ fast_yield \in [Node -> BOOLEAN]
  /\ timeouts \in [Node -> SUBSET (Height \X Node)] /\ timeout_sent \in [Node -> SUBSET Height]
  /\ view_sent \in [Node -> SUBSET Height]
  /\ buffer \in [Node -> [Height -> Hash \union {0}]]
  /\ fork \in [Node -> Hash \union {0}]
  /\ fork_stage \in [Node -> {"none", "decided", "rolled_back"}]
  /\ requests \subseteq Hash \X Node /\ votes \subseteq Hash \X Node
  /\ timeout_msgs \subseteq Height \X Node /\ view_msgs \subseteq Height \X Node
  /\ pushed \subseteq Hash /\ cert \in [Hash -> SUBSET Node]
  /\ restarted \subseteq Node
  /\ signed \in [Node -> SUBSET Hash] /\ dropped \in [Node -> SUBSET Height]

Certificates == {x \in Hash : cert[x] # {}}

(* The vote lock: a validator signs two checkpoints of one height, by vote *)
(* or by proposal, only after a timeout, a failed collection, a restart or *)
(* a proposal below its lock made it give that height's lock up.           *)
DoubleSignNeedsDroppedLock ==
  \A n \in Node : \A x, y \in signed[n] :
    x # y /\ height_of[x] = height_of[y] => height_of[x] \in dropped[n]

(* Two certificates at one height need validators with a third of the      *)
(* stake that gave up their lock for it and signed both.                   *)
ForkNeedsThirdOfStake ==
  \A x, y \in Certificates :
    x # y /\ height_of[x] = height_of[y] =>
      3 * StakeOf[{v \in Node : {x, y} \subseteq signed[v] /\ height_of[x] \in dropped[v]}]
        >= StakeOf[Node]

(* Whatever way a checkpoint enters a chain (proposed, pushed, buffered,   *)
(* or re-applied by fork resolution), it stands at its own height and      *)
(* validators with a quorum of the stake signed it.                        *)
AppliedIsCertified ==
  \A n \in Node : \A i \in 1..Len(chain[n]) :
    LET x == chain[n][i]
    IN /\ height_of[x] = Base + i
       /\ HasQuorum({v \in Node : x \in signed[v]})

(* "only one can achieve 2/3 stake, and the other is discarded"            *)
(* (docs/rinku.md): one certificate per height.                            *)
OneCertificatePerHeight ==
  \A x, y \in Certificates : height_of[x] = height_of[y] => x = y

(* Finality one deep: fork resolution decides on the chain it read and     *)
(* rolls back whatever is last by then, but a checkpoint on which a node   *)
(* has applied another one stays in that node's chain while it runs.       *)
BuriedIsFinal ==
  \A n \in Node : Len(buried[n]) <= Len(chain[n]) /\ SubSeq(chain[n], 1, Len(buried[n])) = buried[n]
=============================================================================
