------------------------------ MODULE Replica ------------------------------
(***************************************************************************)
(* A node that follows the certified chain: checkpoints pushed by gossip   *)
(* and fetched as deltas, the out-of-order buffer, the proof-verified and  *)
(* the executing application, the peer snapshot, the write-ahead log, the  *)
(* periodic save, a crash at any step and the restart.  gossip.rs,         *)
(* checkpoint.rs, state/checkpoints.rs, state/proofs.rs, state/wal.rs,     *)
(* storage.rs, state/accounts.rs, state/mod.rs, presync.rs, emission.rs.   *)
(*                                                                         *)
(* Every height finalizes one transfer, From[h] to To[h], and an account   *)
(* is the transfers its balance reflects: acc[a][h] counts how often the   *)
(* transfer of height h is in it.  Roots and hashes are collision free, so *)
(* a root is the accounts it commits to.                                   *)
(***************************************************************************)
EXTENDS Integers, FiniteSets, FiniteSetsExt, Sequences, Maps

CONSTANTS Addr,
          MaxHeight,      \* bound on heights
          NetTip,            \* the certified chain the network has
          From, To,       \* [1..MaxHeight -> Addr], the transfer of each height
          Handlers,       \* gossip handlers that may run at once
          Busy,           \* the handlers that messages are given to
          BufferAhead,    \* CHECKPOINT_BUFFER_MAX_AHEAD
          MaxDelta,       \* checkpoints in one delta (max_sync_checkpoints), 0 without peers
          Cached,         \* whether a peer's cache holds the proofs of a delta: subset of BOOLEAN
          Pushes,         \* pushes the network delivers: [bodies, proofs : BOOLEAN]
          LateHeights,    \* applied heights a push of which may still arrive
          StartHeights,   \* heights a first start may begin at (0 is genesis)
          MaxSnapshots,   \* bound on snapshots taken from a peer
          MaxSaves,       \* bound on periodic saves
          MaxCrashes      \* bound on crashes

VARIABLES
  up,         \* the process runs
  accounts,   \* state.accounts
  trie,       \* state.state_trie, as the accounts its root commits to
  chain,      \* heights in state.checkpoints
  dag,        \* heights whose transaction body is in the DAG
  buffer,     \* checkpoint_buffer: height -> what came with it
  paid,       \* how often the reward of each height is in the rewards service
  last,       \* emission.last_reward_height
  task,       \* local state of every task that applies checkpoints
  delta,      \* pending_delta_sync, as a set with at most one element
  snapshot,   \* heights of peer snapshots received and not applied yet
  snapshots,  \* snapshots requested so far
  disk,       \* the redb tables: state and checkpoints, rewards, emission
  wal,        \* the uncommitted log entry recovery would find, at most one
  saver,      \* save_snapshot in progress
  saves, crashes,
  undrained,  \* history: the last application was one after which nobody drains the buffer
  restored    \* history: the height each restart came back with

ledger == <<accounts, trie, chain, dag>>
emission == <<paid, last>>
fetching == <<delta, snapshot, snapshots>>
store == <<disk, saver, saves>>
life == <<up, crashes, restored>>
replicaVars == <<life, ledger, buffer, undrained, emission, task, fetching, store, wal>>

Height == 1..MaxHeight
Service == "service"
Task == Handlers \cup {Service}

ReplicaConstants ==
  /\ MaxHeight \in Nat /\ NetTip \in Nat /\ BufferAhead \in Nat /\ MaxDelta \in Nat
  /\ StartHeights \subseteq Nat
  /\ Busy \subseteq Handlers /\ Service \notin Handlers

ASSUME ReplicaAssumption == ReplicaConstants

MaxOf(S) == Max(S \cup {0})
Local == MaxOf(chain)    \* checkpoint_height_cache

Touched(h) == {From[h], To[h]}

\* The accounts after the certified checkpoints 1..h.
Value(h) == [a \in Addr |-> [k \in Height |-> IF k <= h /\ a \in Touched(k) THEN 1 ELSE 0]]

Nonce(acc, a) == Cardinality({k \in Height : From[k] = a /\ acc[a][k] > 0})
TxNonce(h) == Cardinality({k \in 1..(h - 1) : From[k] = From[h]})

\* A transfer executes when its nonce is the sender's: an older one is stale, a newer one deferred.
Execute(acc, h) ==
  IF Nonce(acc, From[h]) = TxNonce(h)
  THEN [acc EXCEPT ![From[h]][h] = @ + 1, ![To[h]][h] = @ + 1]
  ELSE acc

\* The accounts A as the certified checkpoint h leaves them.
Overlay(acc, A, h) == [a \in Addr |-> IF a \in A THEN Value(h)[a] ELSE acc[a]]

\* update_state_trie_accounts
Refresh(t, acc, A) == [a \in Addr |-> IF a \in A THEN acc[a] ELSE t[a]]

NoRewards == [h \in Height |-> 0]
Idle == [pc |-> "idle", h |-> 0, bodies |-> FALSE, proofs |-> {}, to |-> 0, have |-> {},
         cached |-> FALSE, applied |-> FALSE, draining |-> FALSE]
NoSave == [pc |-> "idle", accounts |-> <<>>, chain |-> {}, dag |-> {}, paid |-> NoRewards, last |-> 0]
EmptyDisk == [saved |-> FALSE, accounts |-> Value(0), chain |-> {}, dag |-> {},
              paid |-> NoRewards, last |-> 0]

\* A node with an empty data directory, not started yet.
ReplicaInit ==
  /\ up = FALSE
  /\ accounts = Value(0) /\ trie = Value(0) /\ chain = {} /\ dag = {}
  /\ buffer = <<>> /\ paid = NoRewards /\ last = 0
  /\ task = [p \in Task |-> Idle]
  /\ delta = {} /\ snapshot = {} /\ snapshots = 0
  /\ disk = EmptyDisk /\ saver = NoSave /\ saves = 0
  /\ wal = {} /\ crashes = 0 /\ undrained = FALSE /\ restored = <<>>

-----------------------------------------------------------------------------
(* gossip.rs: a checkpoint arrives.                                        *)

Proven(push, h) == IF push.proofs THEN Touched(h) ELSE {}

(* A late push of an applied height still adds missing bodies and executes *)
(* them, and its proofs overwrite the accounts they cover.                 *)
LatePush(h, push) ==
  LET added == push.bodies /\ h \notin dag
      executed == IF added THEN Execute(accounts, h) ELSE accounts
      corrected == Overlay(executed, Proven(push, h), h)
  IN /\ h \in LateHeights
     /\ dag' = IF added THEN dag \cup {h} ELSE dag
     /\ accounts' = corrected
     /\ trie' = Refresh(trie, corrected, {a \in Addr : corrected[a] # accounts[a]})
     /\ UNCHANGED <<chain, task>>

(* apply_received_checkpoint decides on the height it reads first: the     *)
(* next one is applied, one a little ahead is buffered.                    *)
Sequential(h) == h = Local + 1

ReceiveCheckpoint(p, h, push) ==
  LET arrived == [Idle EXCEPT !.h = h, !.bodies = push.bodies, !.proofs = Proven(push, h)]
  IN /\ up /\ task[p].pc = "idle"
     /\ \/ h <= Local /\ LatePush(h, push)
        \/ /\ h > Local /\ ~Sequential(h) /\ h <= Local + BufferAhead
           /\ task' = [task EXCEPT ![p] = [arrived EXCEPT !.pc = "buffer", !.to = Local]]
           /\ UNCHANGED ledger
        \/ /\ h > Local /\ Sequential(h)
           /\ task' = [task EXCEPT ![p] = [arrived EXCEPT !.pc = "emit"]]
           /\ UNCHANGED ledger
     /\ UNCHANGED <<life, buffer, undrained, emission, fetching, store, wal>>

(* The buffer keeps the first checkpoint of a height.  The height is read  *)
(* again after the insertion: whoever applied one meanwhile has not seen   *)
(* the new entry.                                                          *)
HeightAdvanced(p) == Local >= task[p].to + 1

BufferCheckpoint(p) ==
  LET t == task[p]
  IN /\ up /\ t.pc = "buffer"
     /\ buffer' = IF t.h \in DOMAIN buffer THEN buffer
                  ELSE Insert(buffer, t.h, [bodies |-> t.bodies, proofs |-> t.proofs])
     /\ task' = [task EXCEPT ![p] =
                   [Idle EXCEPT !.pc = IF HeightAdvanced(p) THEN "drain" ELSE "idle"]]
     /\ UNCHANGED <<life, ledger, undrained, emission, fetching, store, wal>>

(* drain_checkpoint_buffer: take the next height out and apply it, until   *)
(* there is none.                                                          *)
DrainBuffer(p) ==
  LET next == Local + 1
  IN /\ up /\ task[p].pc = "drain"
     /\ IF next \in DOMAIN buffer
        THEN /\ buffer' = Without(buffer, {next})
             /\ task' = [task EXCEPT ![p] = [Idle EXCEPT !.pc = "emit", !.h = next,
                           !.bodies = buffer[next].bodies, !.proofs = buffer[next].proofs,
                           !.draining = TRUE]]
             /\ UNCHANGED undrained
        ELSE /\ buffer' = Without(buffer, 1..Local)
             /\ task' = [task EXCEPT ![p] = Idle]
             /\ undrained' = FALSE
     /\ UNCHANGED <<life, ledger, emission, fetching, store, wal>>

-----------------------------------------------------------------------------
(* The application of one checkpoint: bodies and reward, then the proofs,  *)
(* then execution when there are none or they fail.  to > 0 in a task that *)
(* walks through a delta: the service's, or a handler's own.               *)

Walking(p) == task[p].to > 0
PeerWalk(p) == Walking(p) /\ p # Service

Then(p, pc) == task' = [task EXCEPT ![p].pc = pc]

\* The service drains the buffer behind what it applied, a handler does not.
EndOfDelta(p) ==
  IF p = Service /\ task[p].applied THEN [Idle EXCEPT !.pc = "drain"] ELSE Idle

(* A failed application ends a push, stops a drain and the service's walk; *)
(* a handler's walk goes on with the next height.                          *)
GiveUp(p) ==
  /\ task' = [task EXCEPT ![p] = IF PeerWalk(p) THEN [@ EXCEPT !.pc = "next"]
                                 ELSE IF Walking(p) THEN EndOfDelta(p) ELSE Idle]
  /\ buffer' = IF task[p].draining THEN Without(buffer, 1..Local) ELSE buffer

\* The height is checked again before anything is done, except in a handler's walk.
StillNext(p) == task[p].h = Local + 1

\* record_emission_for_height
RewardDue(h) == h > last

Emit(p) ==
  LET h == task[p].h
  IN /\ up /\ task[p].pc = "emit"
     /\ \/ /\ StillNext(p) \/ PeerWalk(p)
           /\ dag' = IF task[p].bodies THEN dag \cup {h} ELSE dag
           /\ paid' = IF RewardDue(h) THEN [paid EXCEPT ![h] = @ + 1] ELSE paid
           /\ last' = IF RewardDue(h) THEN h ELSE last
           /\ Then(p, IF task[p].proofs = {} \/ PeerWalk(p) THEN "execute" ELSE "log")
           /\ UNCHANGED buffer
        \/ /\ ~StillNext(p) /\ ~PeerWalk(p)
           /\ GiveUp(p)
           /\ UNCHANGED <<dag, emission>>
     /\ UNCHANGED <<life, accounts, trie, chain, undrained, fetching, store, wal>>

\* The log holds the verified accounts before the state lock is taken.
LogCheckpoint(p) ==
  /\ up /\ task[p].pc = "log"
  /\ wal' = {[h |-> task[p].h, addrs |-> task[p].proofs]}
  /\ Then(p, "write")
  /\ UNCHANGED <<life, ledger, buffer, undrained, emission, fetching, store>>

(* Mutant: the computed root is not compared. *)
RootMatchesAny(t, h) == TRUE

(* apply_checkpoint_proof_verified under the state lock: the proven        *)
(* accounts are overlaid, the trie is updated for the changed ones, and    *)
(* rebuilt when its root is not the checkpoint's.  When that fails too the *)
(* accounts are put back; the log entry stays.                             *)
RootMatches(t, h) == t = Value(h)

ProofVerified(p) ==
  LET h == task[p].h
      overlaid == Overlay(accounts, task[p].proofs, h)
      incremental == Refresh(trie, overlaid, {a \in Addr : overlaid[a] # accounts[a]})
      matches == RootMatches(incremental, h) \/ RootMatches(overlaid, h)
  IN /\ up /\ task[p].pc = "write"
     /\ \/ /\ h > Local /\ matches
           /\ accounts' = overlaid
           /\ trie' = IF RootMatches(incremental, h) THEN incremental ELSE overlaid
           /\ chain' = chain \cup {h}
           /\ undrained' = FALSE
           /\ Then(p, "commit")
        \/ /\ h > Local /\ ~matches
           /\ trie' = accounts
           /\ Then(p, "execute")
           /\ UNCHANGED <<accounts, chain, undrained>>
        \/ /\ h <= Local
           /\ Then(p, "execute")
           /\ UNCHANGED <<accounts, trie, chain, undrained>>
     /\ UNCHANGED <<life, dag, buffer, emission, fetching, store, wal>>

\* commit_checkpoint truncates the whole log.
CommitLog(p) ==
  /\ up /\ task[p].pc = "commit"
  /\ wal' = {}
  /\ Then(p, "check")
  /\ UNCHANGED <<life, ledger, buffer, undrained, emission, fetching, store>>

(* apply_checkpoint_with_finalized_hashes: the checkpoint is pushed and    *)
(* what is held of its transactions executes.                              *)
ExecuteCheckpoint(p) ==
  LET h == task[p].h
      executed == IF h \in dag THEN Execute(accounts, h) ELSE accounts
  IN /\ up /\ task[p].pc = "execute"
     /\ \/ /\ h > Local
           /\ accounts' = executed
           /\ trie' = Refresh(trie, executed, {a \in Addr : executed[a] # accounts[a]})
           /\ chain' = chain \cup {h}
           /\ undrained' = PeerWalk(p)
           /\ Then(p, "check")
           /\ UNCHANGED buffer
        \/ /\ h <= Local
           /\ GiveUp(p)
           /\ UNCHANGED <<accounts, trie, chain, undrained>>
     /\ UNCHANGED <<life, dag, emission, fetching, store, wal>>

\* bootstrap_from_peer_p2p: the answer is the peer's state at some height.
RequestSnapshot(heights) ==
  /\ snapshots < MaxSnapshots
  /\ snapshots' = snapshots + 1
  /\ \E s \in heights : snapshot' = snapshot \cup {s}

(* check_post_apply_consensus asks a peer for its snapshot when the root   *)
(* is not the committed one (unless one was asked for within the last      *)
(* 30 s).  Only a push or a drain looks.                                   *)
CheckRoot(p) ==
  LET t == task[p]
      after == IF t.proofs # {} /\ p # Service THEN "correct"
               ELSE IF Walking(p) THEN "next" ELSE "drain"
  IN /\ up /\ t.pc = "check"
     /\ \/ ~Walking(p) /\ trie # Value(t.h) /\ RequestSnapshot(Local..NetTip)
        \/ UNCHANGED <<snapshot, snapshots>>
     /\ task' = [task EXCEPT ![p].pc = after, ![p].applied = TRUE]
     /\ UNCHANGED <<life, ledger, buffer, undrained, emission, delta, store, wal>>

(* store_precomputed_proofs writes the proven accounts again, under a lock *)
(* of its own, whatever has been applied since.                            *)
StoreProofs(p) ==
  LET corrected == Overlay(accounts, task[p].proofs, task[p].h)
  IN /\ up /\ task[p].pc = "correct"
     /\ accounts' = corrected
     /\ trie' = Refresh(trie, corrected, {a \in Addr : corrected[a] # accounts[a]})
     /\ Then(p, IF Walking(p) THEN "next" ELSE "drain")
     /\ UNCHANGED <<life, chain, dag, buffer, undrained, emission, fetching, store, wal>>

Apply(p) ==
  \/ BufferCheckpoint(p) \/ DrainBuffer(p)
  \/ Emit(p) \/ LogCheckpoint(p) \/ ProofVerified(p) \/ CommitLog(p)
  \/ ExecuteCheckpoint(p) \/ CheckRoot(p) \/ StoreProofs(p)

-----------------------------------------------------------------------------
(* Deltas: the checkpoint service's background fetch and a gossip          *)
(* handler's own.                                                          *)

(* What a peer answers (process_sync_request, Delta): the checkpoints      *)
(* above the one asked for, their bodies or none of them and, when they    *)
(* are all in its cache, the proofs.                                       *)
Answers(from) ==
  UNION {[from : {from}, to : {from + n}, have : {{}, (from + 1)..(from + n)}, cached : Cached]
         : n \in {k \in 1..MaxDelta : from + k <= NetTip}}

NoAnswer(from) == [from |-> from, to |-> from, have |-> {}, cached |-> FALSE]

(* One proof per address is kept for the whole delta, the newest: proofs   *)
(* of height h cover what no later height of the delta touches.            *)
ProofsOf(h, to) == {a \in Touched(h) : \A k \in (h + 1)..to : a \notin Touched(k)}

(* Mutant: the first checkpoint of the delta is taken for the one already held. *)
WalkThroughLate(d) ==
  [Idle EXCEPT !.pc = "next", !.h = d.from + 1, !.to = d.to, !.have = d.have, !.cached = d.cached]

WalkThrough(d) ==
  [Idle EXCEPT !.pc = "next", !.h = d.from, !.to = d.to, !.have = d.have, !.cached = d.cached]

(* spawn_async_delta_fetch: one at a time, while the node is behind. *)
SpawnFetch ==
  /\ up /\ task[Service].pc = "idle"
  /\ delta = {} /\ Local < NetTip /\ MaxDelta > 0
  /\ delta' = {[from |-> Local]}
  /\ UNCHANGED <<life, ledger, buffer, undrained, emission, task, snapshot, snapshots, store, wal>>

\* The first peer with something to send.
FetchAnswered ==
  /\ up
  /\ \E d \in delta : DOMAIN d = {"from"} /\ \E r \in Answers(d.from) : delta' = {r}
  /\ UNCHANGED <<life, ledger, buffer, undrained, emission, task, snapshot, snapshots, store, wal>>

\* Every peer timed out, failed or had nothing to send.
FetchFailed ==
  /\ up
  /\ \E d \in delta : DOMAIN d = {"from"} /\ delta' = {NoAnswer(d.from)}
  /\ UNCHANGED <<life, ledger, buffer, undrained, emission, task, snapshot, snapshots, store, wal>>

(* Mutant: a failed fetch is not taken out of pending_delta_sync. *)
PickUpDeltaResultOnly ==
  /\ up /\ task[Service].pc = "idle"
  /\ \E d \in delta :
       /\ DOMAIN d # {"from"} /\ d.to > d.from
       /\ delta' = {}
       /\ dag' = dag \cup d.have
       /\ task' = [task EXCEPT ![Service] = WalkThrough(d)]
  /\ UNCHANGED <<life, accounts, trie, chain, buffer, undrained, emission, snapshot, snapshots, store, wal>>

(* pickup_async_delta_sync takes the result; without one it drains. *)
PickUpDelta ==
  /\ up /\ task[Service].pc = "idle"
  /\ \E d \in delta :
       /\ DOMAIN d # {"from"}
       /\ delta' = {}
       /\ dag' = dag \cup d.have
       /\ task' = [task EXCEPT ![Service] =
                     IF d.to > d.from THEN WalkThrough(d) ELSE [Idle EXCEPT !.pc = "drain"]]
  /\ UNCHANGED <<life, accounts, trie, chain, buffer, undrained, emission, snapshot, snapshots, store, wal>>

(* apply_delta_sync_result skips what is applied (a delta has no gaps, so  *)
(* the next one is the sequential one); sync_from_peer_p2p takes every     *)
(* height and lets the application refuse it.                              *)
NextOfDelta(p) ==
  LET t == task[p]
      h == IF p = Service THEN Max({t.h, Local}) + 1 ELSE t.h + 1
  IN /\ up /\ t.pc = "next"
     /\ task' = [task EXCEPT ![p] =
          IF h <= t.to
          THEN [t EXCEPT !.pc = "emit", !.h = h, !.bodies = h \in t.have,
                         !.proofs = IF t.cached THEN ProofsOf(h, t.to) ELSE {}]
          ELSE EndOfDelta(p)]
     /\ UNCHANGED <<life, ledger, buffer, undrained, emission, fetching, store, wal>>

FarAhead(height) == height >= Local + 2

(* trigger_sync_from_peer_p2p: the peer's height in its handshake decides  *)
(* between its snapshot (two or more ahead) and a delta.                   *)
SyncFromPeer(p) ==
  /\ up /\ task[p].pc = "idle"
  /\ snapshots < MaxSnapshots
  /\ \/ RequestSnapshot({s \in 1..NetTip : FarAhead(s)}) /\ UNCHANGED <<task, dag>>
     \/ \E d \in Answers(Local) :
          /\ task' = [task EXCEPT ![p] = WalkThrough(d)]
          /\ dag' = dag \cup d.have
          /\ snapshots' = snapshots + 1
          /\ UNCHANGED snapshot
  /\ UNCHANGED <<life, accounts, trie, chain, buffer, undrained, emission, delta, store, wal>>

\* What a peer at height s answers (process_sync_request, Snapshot).
SnapshotAt(s) == [accounts |-> Value(s), heights |-> 1..s]

(* apply_p2p_snapshot: the peer's accounts replace the local ones and its  *)
(* checkpoints are added, whatever the local height has become.  The trie  *)
(* is left alone.                                                          *)
ApplySnapshot ==
  /\ up
  /\ \E s \in snapshot :
       /\ accounts' = SnapshotAt(s).accounts
       /\ chain' = chain \cup SnapshotAt(s).heights
       /\ dag' = dag \cup SnapshotAt(s).heights
       /\ snapshot' = snapshot \ {s}
       /\ undrained' = TRUE
  /\ UNCHANGED <<life, trie, buffer, emission, task, delta, snapshots, store, wal>>

-----------------------------------------------------------------------------
(* accounts.rs, storage.rs: the periodic save.  Accounts, checkpoints and  *)
(* DAG are copied under the state lock, the rewards under theirs, the      *)
(* emission under its own; then each is written in its own transaction.    *)

Saving(pc) == saver' = [saver EXCEPT !.pc = pc]

CopyState ==
  /\ up /\ saver.pc = "idle" /\ saves < MaxSaves
  /\ saver' = [saver EXCEPT !.pc = "rewards", !.accounts = accounts, !.chain = chain, !.dag = dag]
  /\ saves' = saves + 1
  /\ UNCHANGED <<life, ledger, buffer, undrained, emission, task, fetching, disk, wal>>

CopyRewards ==
  /\ up /\ saver.pc = "rewards"
  /\ saver' = [saver EXCEPT !.pc = "emission", !.paid = paid]
  /\ UNCHANGED <<life, ledger, buffer, undrained, emission, task, fetching, disk, saves, wal>>

CopyEmission ==
  /\ up /\ saver.pc = "emission"
  /\ saver' = [saver EXCEPT !.pc = "write state", !.last = last]
  /\ UNCHANGED <<life, ledger, buffer, undrained, emission, task, fetching, disk, saves, wal>>

\* save_snapshot: one transaction; checkpoint rows are inserted and never deleted.
WriteState ==
  /\ saver.pc = "write state"
  /\ disk' = [disk EXCEPT !.saved = TRUE, !.accounts = saver.accounts,
                          !.chain = @ \cup saver.chain, !.dag = saver.dag]
  /\ Saving("write rewards")

WriteRewards ==
  /\ saver.pc = "write rewards"
  /\ disk' = [disk EXCEPT !.paid = saver.paid]
  /\ Saving("write emission")

WriteEmission ==
  /\ saver.pc = "write emission"
  /\ disk' = [disk EXCEPT !.last = saver.last]
  /\ saver' = NoSave

WriteDisk ==
  /\ up
  /\ WriteState \/ WriteRewards \/ WriteEmission
  /\ UNCHANGED <<life, ledger, buffer, undrained, emission, task, fetching, saves, wal>>

-----------------------------------------------------------------------------
(* A crash, and NodeState::new.                                            *)

(* The memory is lost.  A log entry being written may be cut short: the    *)
(* lines that reached the disk are read back.                              *)
Crash ==
  /\ up /\ crashes < MaxCrashes
  /\ crashes' = crashes + 1 /\ up' = FALSE
  /\ accounts' = Value(0) /\ trie' = Value(0) /\ chain' = {} /\ dag' = {}
  /\ buffer' = <<>> /\ undrained' = FALSE /\ paid' = NoRewards /\ last' = 0
  /\ task' = [p \in Task |-> Idle]
  /\ delta' = {} /\ snapshot' = {} /\ saver' = NoSave
  /\ \/ UNCHANGED wal
     \/ \E p \in Task : /\ task[p].pc = "log"
                        /\ \E A \in SUBSET task[p].proofs : wal' = {[h |-> task[p].h, addrs |-> A]}
  /\ UNCHANGED <<disk, saves, snapshots, restored>>

(* The log is replayed onto what was loaded when it names a height above   *)
(* the last checkpoint, and truncated either way.                          *)
ReplayAbove(height, e) == e.addrs # {} /\ e.h > height

Start(acc, heights, bodies, rewards, emitted) ==
  LET height == MaxOf(heights)
      replay == {e \in wal : ReplayAbove(height, e)}
      recovered == [a \in Addr |-> IF \E e \in replay : a \in e.addrs
                                   THEN Overlay(acc, {a}, (CHOOSE e \in replay : TRUE).h)[a]
                                   ELSE acc[a]]
  IN /\ up' = TRUE
     /\ accounts' = recovered /\ trie' = recovered
     /\ chain' = heights /\ dag' = bodies
     /\ paid' = rewards /\ last' = Max({emitted, height})
     /\ wal' = {}
     /\ restored' = Append(restored, height)
     /\ UNCHANGED <<buffer, undrained, task, fetching, store, crashes>>

\* load_snapshot finds a saved state.
Restart ==
  /\ ~up /\ disk.saved
  /\ Start(disk.accounts, disk.chain, disk.dag, disk.paid, disk.last)

\* Creating fresh genesis.
FreshGenesis == 0 \in StartHeights /\ Start(Value(0), {}, {}, disk.paid, disk.last)

\* try_presync_from_peers: a peer's snapshot, as it was when the peer answered.
Presync ==
  \E s \in StartHeights \ {0} : Start(Value(s), 1..s, 1..s, disk.paid, disk.last)

(* Nothing saved: the genesis node starts from genesis, any other node     *)
(* takes a peer's snapshot or stays down (FATAL) and is started again.     *)
FirstStart == ~up /\ ~disk.saved /\ (FreshGenesis \/ Presync)

-----------------------------------------------------------------------------
ReplicaNext ==
  \/ \E p \in Busy, h \in 1..NetTip, push \in Pushes : ReceiveCheckpoint(p, h, push)
  \/ \E p \in Task : Apply(p) \/ NextOfDelta(p)
  \/ \E p \in Busy : SyncFromPeer(p)
  \/ SpawnFetch \/ FetchAnswered \/ FetchFailed \/ PickUpDelta
  \/ ApplySnapshot
  \/ CopyState \/ CopyRewards \/ CopyEmission \/ WriteDisk
  \/ Crash \/ Restart \/ FirstStart

ReplicaSpec == ReplicaInit /\ [][ReplicaNext]_replicaVars

-----------------------------------------------------------------------------
(* The checkpoints a node holds have no gaps, whichever of the gossip      *)
(* handlers, the buffer, the delta walks and the snapshot brought them and *)
(* in whatever order they ran (apply_checkpoint_with_finalized_hashes and  *)
(* apply_checkpoint_proof_verified only ask for a height above the local   *)
(* one).                                                                   *)
ChainHasNoGap == chain = 1..Local

(* When nothing is being applied the next checkpoint is not left waiting   *)
(* in the buffer (drain_checkpoint_buffer and the second look of           *)
(* apply_received_checkpoint), unless the last advance was a snapshot or a *)
(* handler's own delta, after which the code does not drain.               *)
NothingStranded ==
  (\A p \in Task : task[p].pc = "idle") /\ ~undrained => Local + 1 \notin DOMAIN buffer

(* The reward of a height is distributed once (record_emission_for_height, *)
(* called by every path before it applies), and again only after a restart *)
(* that came back with an older height than the rewards table.             *)
RewardedOnce ==
  \A h \in Height : paid[h] <= Cardinality({i \in DOMAIN restored : restored[i] < h})

(* A proof-verified application that starts from a trie that agrees with   *)
(* the accounts leaves exactly the certified accounts, also when the       *)
(* proofs of the delta do not cover all that changed.                      *)
ProofsAreExact ==
  [][\A p \in Task : task[p].pc = "write" /\ task'[p].pc = "commit" /\ trie = accounts
       => accounts' = Value(task[p].h)]_replicaVars

(* A node that is up catches up with the chain, through lost and           *)
(* duplicated pushes, failed fetches and crashes.                          *)
CatchesUp == <>[](up /\ Local = NetTip)

(* The state a restart comes back with is one the chain has been in.       *)
RecoveredIsConsistent ==
  [][~up /\ up' => \E h \in 0..MaxHeight : accounts' = Value(h)]_replicaVars

(* What a follower holds between two steps of any of its tasks: a chain    *)
(* without gaps, nothing left waiting that could be applied, and no height *)
(* rewarded twice.                                                         *)
ReplicaConsistent == ChainHasNoGap /\ NothingStranded /\ RewardedOnce
=============================================================================
