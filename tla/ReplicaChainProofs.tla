------------------------- MODULE ReplicaChainProofs -------------------------
(***************************************************************************)
(* The chain of a follower has no gap, and what its tasks, fetches and     *)
(* store hold fits it, for any chain, handlers, messages, deltas,          *)
(* snapshots, saves and crashes.                                           *)
(***************************************************************************)
EXTENDS Replica, FiniteSetTheorems, TLAPS

-----------------------------------------------------------------------------
(* Chains without gaps.                                                    *)

NoGap(S) == \E k \in Nat : S = 1..k

TaskFields == {"pc", "h", "bodies", "proofs", "to", "have", "cached", "applied", "draining"}

(* A task t of the process p, when the chain has reached the height `at`:  *)
(* before its application a task is at most one height ahead, after it the *)
(* height is in the chain; what waits to be buffered is further ahead than *)
(* the height the task read.                                               *)
Fits(t, p, at) ==
  /\ DOMAIN t = TaskFields /\ t.h \in Nat /\ t.to \in Nat
  /\ t.pc \in {"log", "write", "execute"} => t.h <= at + 1
  /\ t.pc = "emit" /\ t.to > 0 => t.h <= at + 1
  /\ t.pc \in {"commit", "check", "correct", "next"} => t.h <= at
  /\ t.pc = "next" => t.to > 0
  /\ t.pc \in {"log", "write", "commit"} => t.to = 0 \/ p = Service
  /\ t.pc = "buffer" => t.h > t.to + 1

TasksFit ==
  /\ NoGap(chain) /\ task = [p \in Task |-> task[p]]
  /\ \A p \in Task : Fits(task[p], p, Local)

(* A delta was asked for at a height the chain has. *)
FetchesFit ==
  /\ \A d \in delta : /\ d.from \in Nat /\ d.from <= Local
                      /\ DOMAIN d # {"from"} => d.to \in Nat
  /\ snapshot \subseteq Nat

DownIdle == ~up => (\A p \in Task : task[p] = Idle) /\ delta = {} /\ buffer = <<>>

StoreFits ==
  /\ DOMAIN disk = {"saved", "accounts", "chain", "dag", "paid", "last"} /\ NoGap(disk.chain)
  /\ DOMAIN saver = {"pc", "accounts", "chain", "dag", "paid", "last"} /\ NoGap(saver.chain)

ChainInv == TasksFit /\ FetchesFit /\ DownIdle /\ StoreFits

-----------------------------------------------------------------------------
(* Chains.                                                                 *)

LEMMA MaxOfInterval == ASSUME NEW k \in Nat PROVE MaxOf(1..k) = k
<1> DEFINE S == (1..k) \cup {0}
<1>1. k \in S /\ \A y \in S : k >= y
  OBVIOUS
<1>2. \A x \in S : (\A y \in S : x >= y) => x = k
  OBVIOUS
<1> HIDE DEF S
<1>3. Max(S) = k
  BY <1>1, <1>2 DEF Max
<1> QED BY <1>3 DEF MaxOf, S

LEMMA GapFacts ==
  ASSUME NEW S, NoGap(S)
  PROVE  MaxOf(S) \in Nat /\ S = 1..MaxOf(S)
BY MaxOfInterval DEF NoGap

LEMMA GapNext ==
  ASSUME NEW S, NoGap(S), NEW h \in Nat, h > MaxOf(S), h <= MaxOf(S) + 1
  PROVE  NoGap(S \cup {h}) /\ MaxOf(S \cup {h}) = h
<1>1. MaxOf(S) \in Nat /\ S = 1..MaxOf(S)
  BY GapFacts
<1>2. h = MaxOf(S) + 1
  BY <1>1
<1>3. S \cup {h} = 1..h
  BY <1>1, <1>2
<1> QED BY <1>3, MaxOfInterval DEF NoGap

LEMMA GapUnion ==
  ASSUME NEW S, NEW T, NoGap(S), NoGap(T)
  PROVE  NoGap(S \cup T) /\ MaxOf(S) <= MaxOf(S \cup T)
<1>1. PICK k \in Nat, m \in Nat : S = 1..k /\ T = 1..m
  BY DEF NoGap
<1>2. CASE k <= m
  <2>1. S \cup T = 1..m
    BY <1>1, <1>2
  <2>2. MaxOf(S) = k /\ MaxOf(S \cup T) = m
    BY <1>1, <2>1, MaxOfInterval
  <2> QED BY <1>2, <2>1, <2>2 DEF NoGap
<1>3. CASE m <= k
  <2>1. S \cup T = 1..k
    BY <1>1, <1>3
  <2>2. MaxOf(S) = k /\ MaxOf(S \cup T) = k
    BY <1>1, <2>1, MaxOfInterval
  <2> QED BY <2>1, <2>2 DEF NoGap
<1>4. k <= m \/ m <= k
  OBVIOUS
<1> QED BY <1>2, <1>3, <1>4

LEMMA IdleFits == \A p, at : Fits(Idle, p, at)
BY DEF Fits, Idle, TaskFields

LEMMA FitsLater ==
  ASSUME NEW t, NEW p, NEW at \in Nat, NEW later \in Nat, at <= later, Fits(t, p, at)
  PROVE  Fits(t, p, later)
BY DEF Fits

LEMMA LocalFacts == ASSUME TasksFit PROVE Local \in Nat /\ chain = 1..Local
BY GapFacts DEF TasksFit, Local

(* One task moves on, and the chain does not shrink. *)
LEMMA TaskStep ==
  ASSUME TasksFit, NEW p \in Task, NEW t, task' = [task EXCEPT ![p] = t],
         NoGap(chain'), Local <= Local', Fits(t, p, Local')
  PROVE  TasksFit'
<1>1. Local \in Nat /\ Local' \in Nat
  BY GapFacts DEF TasksFit, Local
<1>2. task' = [q \in Task |-> IF q = p THEN t ELSE task[q]]
  BY DEF TasksFit
<1>3. ASSUME NEW q \in Task PROVE Fits(task'[q], q, Local')
  <2>1. CASE q = p
    BY <1>2, <2>1
  <2>2. CASE q # p
    BY <1>1, <1>2, <2>2, FitsLater DEF TasksFit
  <2> QED BY <2>1, <2>2
<1>4. task' = [q \in Task |-> task'[q]]
  BY <1>2
<1> QED BY <1>3, <1>4 DEF TasksFit

(* The chain grows under the tasks. *)
LEMMA TasksStay ==
  ASSUME TasksFit, UNCHANGED task, NoGap(chain'), Local <= Local'
  PROVE  TasksFit'
<1>1. Local \in Nat /\ Local' \in Nat
  BY GapFacts DEF TasksFit, Local
<1> QED BY <1>1, FitsLater DEF TasksFit

LEMMA FetchesStay ==
  ASSUME TasksFit, TasksFit', FetchesFit, Local <= Local', delta' \subseteq delta,
         snapshot' \subseteq snapshot
  PROVE  FetchesFit'
<1>1. Local \in Nat /\ Local' \in Nat
  BY GapFacts DEF TasksFit, Local
<1> QED BY <1>1 DEF FetchesFit

(* What every step of a running node keeps of ChainInv when it touches     *)
(* neither fetches nor the store.                                          *)
LEMMA RunningStep ==
  ASSUME ChainInv, TasksFit', Local <= Local', up, UNCHANGED <<up, delta, snapshot, disk, saver>>
  PROVE  ChainInv'
<1>1. FetchesFit'
  BY FetchesStay DEF ChainInv
<1>2. DownIdle' /\ StoreFits'
  BY DEF ChainInv, DownIdle, StoreFits
<1> QED BY <1>1, <1>2 DEF ChainInv

(* A task moves on and the chain stays as it is. *)
LEMMA MoveStep ==
  ASSUME ChainInv, up, NEW p \in Task, NEW t, task' = [task EXCEPT ![p] = t], Fits(t, p, Local),
         UNCHANGED <<up, chain, delta, snapshot, disk, saver>>
  PROVE  ChainInv'
<1>1. Local' = Local /\ NoGap(chain') /\ Local \in Nat
  BY LocalFacts DEF ChainInv, TasksFit, Local
<1>2. TasksFit'
  <2>1. TasksFit /\ Local <= Local' /\ Fits(t, p, Local')
    BY <1>1 DEF ChainInv
  <2> QED BY <1>1, <2>1, TaskStep
<1> QED BY <1>1, <1>2, RunningStep

LEMMA TaskFacts ==
  ASSUME ChainInv, NEW p \in Task
  PROVE  Fits(task[p], p, Local) /\ Local \in Nat
BY LocalFacts DEF ChainInv, TasksFit

LEMMA ReceiveKeepsChain ==
  ASSUME ReplicaConstants, ChainInv, NEW p \in Busy, NEW h \in 1..NetTip, NEW push,
         ReceiveCheckpoint(p, h, push)
  PROVE  ChainInv'
<1> DEFINE arrived == [Idle EXCEPT !.h = h, !.bodies = push.bodies, !.proofs = Proven(push, h)]
<1>1. p \in Task /\ h \in Nat /\ Local \in Nat
  BY LocalFacts DEF ReplicaConstants, Task, ChainInv
<1>2. up /\ UNCHANGED <<up, delta, snapshot, disk, saver>>
  BY DEF ReceiveCheckpoint, life, fetching, store
<1>3. CASE LatePush(h, push)
  <2>1. UNCHANGED <<chain, task>>
    BY <1>3 DEF LatePush
  <2>2. Local' = Local
    BY <2>1 DEF Local
  <2>3. TasksFit'
    BY <2>1, <2>2, <1>1, TasksStay DEF ChainInv, TasksFit
  <2> QED BY <1>1, <1>2, <2>2, <2>3, RunningStep
<1>4. CASE /\ h > Local /\ ~Sequential(h)
           /\ task' = [task EXCEPT ![p] = [arrived EXCEPT !.pc = "buffer", !.to = Local]]
           /\ UNCHANGED ledger
  <2>1. Fits([arrived EXCEPT !.pc = "buffer", !.to = Local], p, Local)
    BY <1>1, <1>4 DEF Fits, Idle, TaskFields, Sequential
  <2> QED BY <1>1, <1>2, <1>4, <2>1, MoveStep DEF ledger
<1>5. CASE /\ task' = [task EXCEPT ![p] = [arrived EXCEPT !.pc = "emit"]]
           /\ UNCHANGED ledger
  <2>1. Fits([arrived EXCEPT !.pc = "emit"], p, Local)
    BY <1>1, <1>5 DEF Fits, Idle, TaskFields
  <2> QED BY <1>1, <1>2, <1>5, <2>1, MoveStep DEF ledger
<1> QED BY <1>3, <1>4, <1>5 DEF ReceiveCheckpoint

LEMMA BufferKeepsChain ==
  ASSUME ChainInv, NEW p \in Task, BufferCheckpoint(p) \/ DrainBuffer(p)
  PROVE  ChainInv'
<1>1. up /\ UNCHANGED <<up, chain, delta, snapshot, disk, saver>> /\ Local \in Nat
  BY LocalFacts DEF BufferCheckpoint, DrainBuffer, life, ledger, fetching, store, ChainInv
<1>2. CASE BufferCheckpoint(p)
  <2> DEFINE t == [Idle EXCEPT !.pc = IF HeightAdvanced(p) THEN "drain" ELSE "idle"]
  <2>1. Fits(t, p, Local)
    BY DEF Fits, Idle, TaskFields
  <2>2. task' = [task EXCEPT ![p] = t]
    BY <1>2 DEF BufferCheckpoint
  <2> HIDE DEF t
  <2> QED BY <1>1, <2>1, <2>2, MoveStep
<1>3. CASE DrainBuffer(p)
  <2> DEFINE next == Local + 1
             t == [Idle EXCEPT !.pc = "emit", !.h = next, !.bodies = buffer[next].bodies,
                               !.proofs = buffer[next].proofs, !.draining = TRUE]
  <2>1. Fits(t, p, Local)
    BY <1>1 DEF Fits, Idle, TaskFields
  <2>2. task' = [task EXCEPT ![p] = t] \/ task' = [task EXCEPT ![p] = Idle]
    BY <1>3 DEF DrainBuffer
  <2> HIDE DEF t
  <2> QED BY <1>1, <2>1, <2>2, MoveStep, IdleFits
<1> QED BY <1>2, <1>3

(* What a task that gives up becomes. *)
LEMMA GiveUpFits ==
  ASSUME ChainInv, NEW p \in Task, GiveUp(p), PeerWalk(p) => task[p].h <= Local
  PROVE  \E t : task' = [task EXCEPT ![p] = t] /\ Fits(t, p, Local)
<1>1. CASE PeerWalk(p)
  <2>1. task' = [task EXCEPT ![p] = [task[p] EXCEPT !.pc = "next"]]
    BY <1>1 DEF GiveUp, ChainInv, TasksFit
  <2>2. Fits([task[p] EXCEPT !.pc = "next"], p, Local)
    BY <1>1, TaskFacts DEF Fits, TaskFields, PeerWalk, Walking
  <2> QED BY <2>1, <2>2
<1>2. CASE ~PeerWalk(p)
  <2>1. task' = [task EXCEPT ![p] = EndOfDelta(p)] \/ task' = [task EXCEPT ![p] = Idle]
    BY <1>2 DEF GiveUp
  <2>2. Fits(EndOfDelta(p), p, Local)
    BY IdleFits DEF Fits, EndOfDelta, Idle, TaskFields
  <2> QED BY <2>1, <2>2, IdleFits
<1> QED BY <1>1, <1>2

LEMMA EmitKeepsChain ==
  ASSUME ChainInv, NEW p \in Task, Emit(p)
  PROVE  ChainInv'
<1>1. up /\ UNCHANGED <<up, chain, delta, snapshot, disk, saver>> /\ task[p].pc = "emit"
  BY DEF Emit, life, fetching, store
<1>2. CASE ~StillNext(p) /\ ~PeerWalk(p) /\ GiveUp(p)
  BY <1>1, <1>2, GiveUpFits, MoveStep
<1>3. CASE /\ StillNext(p) \/ PeerWalk(p)
           /\ Then(p, IF task[p].proofs = {} \/ PeerWalk(p) THEN "execute" ELSE "log")
  <2> DEFINE pc == IF task[p].proofs = {} \/ PeerWalk(p) THEN "execute" ELSE "log"
             t == [task[p] EXCEPT !.pc = pc]
  <2>1. task' = [task EXCEPT ![p] = t]
    BY <1>3 DEF Then
  <2>2. task[p].h <= Local + 1
    BY <1>1, <1>3, TaskFacts DEF Fits, StillNext, PeerWalk, Walking
  <2>3. Fits(t, p, Local)
    BY <2>2, TaskFacts DEF Fits, TaskFields, PeerWalk, Walking
  <2> HIDE DEF t
  <2> QED BY <1>1, <2>1, <2>3, MoveStep
<1> QED BY <1>2, <1>3 DEF Emit

(* The steps of an application that leave the chain alone. *)
LEMMA WalkKeepsChain ==
  ASSUME ChainInv, NEW p \in Task,
         LogCheckpoint(p) \/ CommitLog(p) \/ StoreProofs(p)
  PROVE  ChainInv'
<1>1. up /\ UNCHANGED <<up, chain, delta, snapshot, disk, saver>>
  BY DEF LogCheckpoint, CommitLog, StoreProofs, life, ledger, fetching, store
<1>2. \E pc : /\ Then(p, pc)
              /\ \/ task[p].pc = "log" /\ pc = "write"
                 \/ task[p].pc = "commit" /\ pc = "check"
                 \/ task[p].pc = "correct" /\ pc = (IF Walking(p) THEN "next" ELSE "drain")
  BY DEF LogCheckpoint, CommitLog, StoreProofs
<1>3. PICK pc : /\ Then(p, pc)
                /\ \/ task[p].pc = "log" /\ pc = "write"
                   \/ task[p].pc = "commit" /\ pc = "check"
                   \/ task[p].pc = "correct" /\ pc = (IF Walking(p) THEN "next" ELSE "drain")
  BY <1>2
<1> DEFINE t == [task[p] EXCEPT !.pc = pc]
<1>4. task' = [task EXCEPT ![p] = t]
  BY <1>3 DEF Then
<1>5. Fits(t, p, Local)
  BY <1>3, TaskFacts DEF Fits, TaskFields, Walking
<1> HIDE DEF t
<1> QED BY <1>1, <1>4, <1>5, MoveStep

(* The two ways to extend the chain. *)
LEMMA GrowStep ==
  ASSUME ChainInv, up, NEW p \in Task, NEW pc \in {"commit", "check"}, Then(p, pc),
         task[p].pc \in {"write", "execute"}, pc = "commit" => task[p].pc = "write",
         task[p].h > Local, chain' = chain \cup {task[p].h},
         UNCHANGED <<up, delta, snapshot, disk, saver>>
  PROVE  ChainInv' /\ Local' = task[p].h /\ Local \in Nat
<1> DEFINE t == [task[p] EXCEPT !.pc = pc]
           h == task[p].h
<1>1. Fits(task[p], p, Local) /\ Local \in Nat /\ NoGap(chain)
  BY TaskFacts DEF ChainInv, TasksFit
<1>2. h \in Nat /\ h <= Local + 1
  BY <1>1 DEF Fits
<1>3. NoGap(chain') /\ Local' = h
  BY <1>1, <1>2, GapNext DEF Local
<1>4. Fits(t, p, h)
  BY <1>1, <1>2 DEF Fits, TaskFields
<1>5. task' = [task EXCEPT ![p] = t]
  BY DEF Then
<1>6. Local <= Local' /\ TasksFit
  BY <1>1, <1>2, <1>3 DEF ChainInv
<1> HIDE DEF t
<1>7. TasksFit'
  BY <1>3, <1>4, <1>5, <1>6, TaskStep
<1> QED BY <1>1, <1>3, <1>6, <1>7, RunningStep

LEMMA ProofVerifiedKeepsChain ==
  ASSUME ChainInv, NEW p \in Task, ProofVerified(p)
  PROVE  ChainInv'
<1>1. up /\ UNCHANGED <<up, delta, snapshot, disk, saver>> /\ task[p].pc = "write"
  BY DEF ProofVerified, life, fetching, store
<1>2. CASE task[p].h > Local /\ chain' = chain \cup {task[p].h} /\ Then(p, "commit")
  BY <1>1, <1>2, GrowStep
<1>3. CASE UNCHANGED chain /\ Then(p, "execute")
  <2> DEFINE t == [task[p] EXCEPT !.pc = "execute"]
  <2>1. task' = [task EXCEPT ![p] = t]
    BY <1>3 DEF Then
  <2>2. Fits(t, p, Local)
    BY <1>1, TaskFacts DEF Fits, TaskFields
  <2> HIDE DEF t
  <2> QED BY <1>1, <1>3, <2>1, <2>2, MoveStep
<1> QED BY <1>2, <1>3 DEF ProofVerified

LEMMA ExecuteKeepsChain ==
  ASSUME ChainInv, NEW p \in Task, ExecuteCheckpoint(p)
  PROVE  ChainInv'
<1>1. up /\ UNCHANGED <<up, delta, snapshot, disk, saver>> /\ task[p].pc = "execute"
  BY DEF ExecuteCheckpoint, life, fetching, store
<1>2. CASE task[p].h > Local /\ chain' = chain \cup {task[p].h} /\ Then(p, "check")
  BY <1>1, <1>2, GrowStep
<1>3. CASE task[p].h <= Local /\ UNCHANGED chain /\ GiveUp(p)
  BY <1>1, <1>3, GiveUpFits, MoveStep
<1> QED BY <1>2, <1>3 DEF ExecuteCheckpoint

LEMMA SnapshotsAreHeights ==
  ASSUME ReplicaConstants, ChainInv, NEW H, H \subseteq Nat, RequestSnapshot(H)
  PROVE  snapshot' \subseteq Nat
BY DEF RequestSnapshot, ChainInv, FetchesFit

LEMMA CheckRootKeepsChain ==
  ASSUME ReplicaConstants, ChainInv, NEW p \in Task, CheckRoot(p)
  PROVE  ChainInv'
<1> DEFINE after == IF task[p].proofs # {} /\ p # Service THEN "correct"
                    ELSE IF Walking(p) THEN "next" ELSE "drain"
           t == [task[p] EXCEPT !.pc = after, !.applied = TRUE]
<1>1. up /\ UNCHANGED <<up, chain, delta, disk, saver>> /\ task[p].pc = "check"
  BY DEF CheckRoot, life, ledger, store
<1>2. task' = [task EXCEPT ![p] = t]
  BY DEF CheckRoot
<1>3. Fits(t, p, Local) /\ Local \in Nat
  BY <1>1, TaskFacts DEF Fits, TaskFields, Walking
<1> HIDE DEF t
<1>4. Local' = Local /\ NoGap(chain')
  BY <1>1 DEF Local, ChainInv, TasksFit
<1>5. TasksFit'
  <2>1. TasksFit /\ Local <= Local' /\ Fits(t, p, Local')
    BY <1>3, <1>4 DEF ChainInv
  <2> QED BY <1>2, <1>4, <2>1, TaskStep
<1>6. snapshot' \subseteq Nat
  <2>1. Local..NetTip \subseteq Nat
    BY <1>3 DEF ReplicaConstants
  <2> QED BY <2>1, SnapshotsAreHeights DEF CheckRoot, ChainInv, FetchesFit
<1> QED BY <1>1, <1>4, <1>5, <1>6 DEF ChainInv, FetchesFit, DownIdle, StoreFits

LEMMA AnswerFacts ==
  ASSUME ReplicaConstants, NEW from \in Nat, NEW d \in Answers(from)
  PROVE  /\ d.from = from /\ d.to \in Nat /\ d.to > from
         /\ DOMAIN d = {"from", "to", "have", "cached"}
<1>1. PICK n \in 1..MaxDelta :
        d \in [from : {from}, to : {from + n}, have : {{}, (from + 1)..(from + n)}, cached : Cached]
  BY DEF Answers
<1>2. d.from = from /\ d.to = from + n /\ DOMAIN d = {"from", "to", "have", "cached"}
  BY <1>1
<1>3. n \in Nat /\ n > 0
  BY DEF ReplicaConstants
<1> QED BY <1>2, <1>3

LEMMA MaxOfTwo ==
  ASSUME NEW a \in Nat, NEW b \in Nat, a <= b PROVE Max({a, b}) = b
<1>1. b \in {a, b} /\ \A y \in {a, b} : b >= y
  OBVIOUS
<1>2. \A x \in {a, b} : (\A y \in {a, b} : x >= y) => x = b
  OBVIOUS
<1> QED BY <1>1, <1>2 DEF Max

LEMMA NextOfDeltaKeepsChain ==
  ASSUME ChainInv, NEW p \in Task, NextOfDelta(p)
  PROVE  ChainInv'
<1> DEFINE k == task[p]
           h == IF p = Service THEN Max({k.h, Local}) + 1 ELSE k.h + 1
           t == [k EXCEPT !.pc = "emit", !.h = h, !.bodies = h \in k.have,
                          !.proofs = IF k.cached THEN ProofsOf(h, k.to) ELSE {}]
<1>1. up /\ UNCHANGED <<up, chain, delta, snapshot, disk, saver>> /\ k.pc = "next"
  BY DEF NextOfDelta, life, ledger, fetching, store
<1>2. task' = [task EXCEPT ![p] = t] \/ task' = [task EXCEPT ![p] = EndOfDelta(p)]
  BY DEF NextOfDelta
<1>3. Fits(k, p, Local) /\ Local \in Nat /\ k.h \in Nat /\ k.h <= Local
  BY <1>1, TaskFacts DEF Fits
<1>4. h \in Nat /\ h <= Local + 1
  BY <1>3, MaxOfTwo
<1>5. Fits(t, p, Local)
  <2> HIDE DEF h
  <2> QED BY <1>3, <1>4 DEF Fits, TaskFields
<1>6. Fits(EndOfDelta(p), p, Local)
  BY IdleFits DEF Fits, EndOfDelta, Idle, TaskFields
<1> HIDE DEF t
<1> QED BY <1>1, <1>2, <1>5, <1>6, MoveStep

LEMMA WalkFits ==
  ASSUME NEW d, NEW p, NEW at \in Nat, d.from \in Nat, d.from <= at, d.to \in Nat, d.to > d.from
  PROVE  Fits(WalkThrough(d), p, at)
BY DEF WalkThrough, Fits, Idle, TaskFields

LEMMA SyncKeepsChain ==
  ASSUME ReplicaConstants, ChainInv, NEW p \in Busy, SyncFromPeer(p)
  PROVE  ChainInv'
<1>1. up /\ UNCHANGED <<up, chain, delta, disk, saver>> /\ p \in Task /\ Local \in Nat
  BY LocalFacts DEF SyncFromPeer, life, store, ReplicaConstants, Task, ChainInv
<1>2. CASE RequestSnapshot({s \in 1..NetTip : FarAhead(s)}) /\ UNCHANGED <<task, dag>>
  <2>1. snapshot' \subseteq Nat
    <3>1. {s \in 1..NetTip : FarAhead(s)} \subseteq Nat
      BY DEF ReplicaConstants
    <3> QED BY <3>1, <1>2, SnapshotsAreHeights
  <2> QED BY <1>1, <1>2, <2>1 DEF ChainInv, FetchesFit, DownIdle, StoreFits, TasksFit, Local
<1>3. CASE \E d \in Answers(Local) : task' = [task EXCEPT ![p] = WalkThrough(d)] /\ UNCHANGED snapshot
  <2>1. PICK d \in Answers(Local) : task' = [task EXCEPT ![p] = WalkThrough(d)] /\ UNCHANGED snapshot
    BY <1>3
  <2>2. d.from = Local /\ d.to \in Nat /\ d.to > Local
    BY <1>1, AnswerFacts
  <2>3. Fits(WalkThrough(d), p, Local)
    BY <1>1, <2>2, WalkFits
  <2> QED BY <1>1, <2>1, <2>3, MoveStep
<1> QED BY <1>2, <1>3 DEF SyncFromPeer

LEMMA FetchKeepsChain ==
  ASSUME ReplicaConstants, ChainInv, SpawnFetch \/ FetchAnswered \/ FetchFailed
  PROVE  ChainInv'
<1>1. up /\ UNCHANGED <<up, chain, task, snapshot, disk, saver>> /\ Local \in Nat
  BY LocalFacts DEF SpawnFetch, FetchAnswered, FetchFailed, life, ledger, store, ChainInv
<1>2. \A d \in delta' : d.from \in Nat /\ d.from <= Local /\ (DOMAIN d # {"from"} => d.to \in Nat)
  <2>1. CASE SpawnFetch
    BY <1>1, <2>1 DEF SpawnFetch
  <2>2. CASE FetchAnswered
    <3>1. PICK d \in delta : \E r \in Answers(d.from) : delta' = {r}
      BY <2>2 DEF FetchAnswered
    <3>2. d.from \in Nat /\ d.from <= Local
      BY DEF ChainInv, FetchesFit
    <3> QED BY <3>1, <3>2, AnswerFacts
  <2>3. CASE FetchFailed
    <3>1. PICK d \in delta : delta' = {NoAnswer(d.from)}
      BY <2>3 DEF FetchFailed
    <3>2. d.from \in Nat /\ d.from <= Local
      BY DEF ChainInv, FetchesFit
    <3> QED BY <3>1, <3>2 DEF NoAnswer
  <2> QED BY <2>1, <2>2, <2>3
<1> QED BY <1>1, <1>2 DEF ChainInv, FetchesFit, DownIdle, StoreFits, TasksFit, Local

LEMMA PickUpKeepsChain ==
  ASSUME ChainInv, PickUpDelta
  PROVE  ChainInv'
<1>1. up /\ UNCHANGED <<up, chain, snapshot, disk, saver>> /\ Local \in Nat /\ Service \in Task
  BY LocalFacts DEF PickUpDelta, life, store, ChainInv, Task
<1>2. PICK d \in delta :
        /\ DOMAIN d # {"from"} /\ delta' = {}
        /\ task' = [task EXCEPT ![Service] =
                      IF d.to > d.from THEN WalkThrough(d) ELSE [Idle EXCEPT !.pc = "drain"]]
  BY DEF PickUpDelta
<1> DEFINE t == IF d.to > d.from THEN WalkThrough(d) ELSE [Idle EXCEPT !.pc = "drain"]
<1>3. Fits(t, Service, Local)
  <2>1. d.from \in Nat /\ d.from <= Local /\ d.to \in Nat
    BY <1>2 DEF ChainInv, FetchesFit
  <2>2. Fits([Idle EXCEPT !.pc = "drain"], Service, Local)
    BY DEF Fits, Idle, TaskFields
  <2> QED BY <1>1, <2>1, <2>2, WalkFits
<1> HIDE DEF t
<1>4. Local' = Local /\ TasksFit /\ NoGap(chain')
  BY <1>1 DEF Local, ChainInv, TasksFit
<1>5. TasksFit'
  <2>1. Local <= Local' /\ Fits(t, Service, Local')
    BY <1>1, <1>3, <1>4
  <2>2. task' = [task EXCEPT ![Service] = t]
    BY <1>2 DEF t
  <2> QED BY <1>1, <1>4, <2>1, <2>2, TaskStep
<1> QED BY <1>1, <1>2, <1>5 DEF ChainInv, FetchesFit, DownIdle, StoreFits

LEMMA ApplySnapshotKeepsChain ==
  ASSUME ChainInv, ApplySnapshot
  PROVE  ChainInv'
<1>1. up /\ UNCHANGED <<up, task, delta, disk, saver>>
  BY DEF ApplySnapshot, life, store
<1>2. PICK s \in snapshot : chain' = chain \cup 1..s /\ snapshot' = snapshot \ {s}
  BY DEF ApplySnapshot, SnapshotAt
<1>3. NoGap(1..s) /\ NoGap(chain) /\ TasksFit
  BY DEF ChainInv, FetchesFit, TasksFit, NoGap
<1>4. NoGap(chain') /\ Local <= Local'
  BY <1>2, <1>3, GapUnion DEF Local
<1>5. TasksFit'
  BY <1>1, <1>3, <1>4, TasksStay
<1>6. FetchesFit'
  BY <1>1, <1>2, <1>3, <1>4, <1>5, FetchesStay DEF ChainInv
<1> QED BY <1>1, <1>5, <1>6 DEF ChainInv, DownIdle, StoreFits

LEMMA SaveKeepsChain ==
  ASSUME ChainInv, CopyState \/ CopyRewards \/ CopyEmission \/ WriteDisk
  PROVE  ChainInv'
<1>1. up /\ UNCHANGED <<up, chain, task, delta, snapshot>>
  BY DEF CopyState, CopyRewards, CopyEmission, WriteDisk, life, ledger, fetching
<1>2. StoreFits'
  <2>1. CASE CopyState
    BY <2>1 DEF CopyState, ChainInv, TasksFit, StoreFits
  <2>2. CASE CopyRewards
    BY <2>2 DEF CopyRewards, ChainInv, StoreFits
  <2>3. CASE CopyEmission
    BY <2>3 DEF CopyEmission, ChainInv, StoreFits
  <2>4. CASE WriteDisk
    <3>1. CASE WriteState
      <4>1. /\ disk' = [disk EXCEPT !.saved = TRUE, !.accounts = saver.accounts,
                                    !.chain = disk.chain \cup saver.chain, !.dag = saver.dag]
            /\ saver' = [saver EXCEPT !.pc = "write rewards"]
        BY <3>1 DEF WriteState, Saving, ChainInv, StoreFits
      <4>2. /\ DOMAIN disk' = DOMAIN disk /\ disk'.chain = disk.chain \cup saver.chain
            /\ DOMAIN saver' = DOMAIN saver /\ saver'.chain = saver.chain
        BY <4>1 DEF ChainInv, StoreFits
      <4>3. NoGap(disk.chain \cup saver.chain)
        BY GapUnion DEF ChainInv, StoreFits
      <4> QED BY <4>2, <4>3 DEF ChainInv, StoreFits
    <3>2. CASE WriteRewards
      BY <3>2 DEF WriteRewards, Saving, ChainInv, StoreFits
    <3>3. CASE WriteEmission
      <4>1. NoGap({})
        BY DEF NoGap
      <4> QED BY <3>3, <4>1 DEF WriteEmission, NoSave, ChainInv, StoreFits
    <3> QED BY <2>4, <3>1, <3>2, <3>3 DEF WriteDisk
  <2> QED BY <2>1, <2>2, <2>3, <2>4
<1> QED BY <1>1, <1>2 DEF ChainInv, FetchesFit, DownIdle, TasksFit, Local

LEMMA CrashKeepsChain ==
  ASSUME ChainInv, Crash
  PROVE  ChainInv'
<1>1. /\ chain' = {} /\ buffer' = <<>> /\ task' = [p \in Task |-> Idle] /\ delta' = {}
      /\ snapshot' = {} /\ saver' = NoSave /\ UNCHANGED disk
  BY DEF Crash
<1>2. NoGap({})
  BY DEF NoGap
<1>3. TasksFit'
  BY <1>1, <1>2, IdleFits DEF TasksFit
<1>4. FetchesFit' /\ DownIdle'
  BY <1>1 DEF FetchesFit, DownIdle
<1>5. StoreFits'
  BY <1>1, <1>2 DEF StoreFits, NoSave, ChainInv
<1> QED BY <1>3, <1>4, <1>5 DEF ChainInv

(* Both ways to start: from what was saved, and from a peer or genesis. *)
LEMMA StartKeepsChain ==
  ASSUME ChainInv, ~up, NEW acc, NEW H, NEW bodies, NEW rewards, NEW emitted, NoGap(H),
         Start(acc, H, bodies, rewards, emitted)
  PROVE  ChainInv'
<1>1. up' /\ chain' = H /\ UNCHANGED <<buffer, task, delta, snapshot, disk, saver>>
  BY DEF Start, fetching, store
<1>2. (\A p \in Task : task[p] = Idle) /\ delta = {}
  BY DEF ChainInv, DownIdle
<1>3. TasksFit'
  BY <1>1, <1>2, IdleFits DEF TasksFit, ChainInv
<1> QED BY <1>1, <1>2, <1>3 DEF ChainInv, FetchesFit, DownIdle, StoreFits

LEMMA FirstStartFacts ==
  ASSUME ReplicaConstants, FirstStart
  PROVE  \E acc, H, bodies : NoGap(H) /\ Start(acc, H, bodies, disk.paid, disk.last)
<1>1. CASE FreshGenesis
  <2>1. NoGap({})
    BY DEF NoGap
  <2> QED BY <1>1, <2>1 DEF FreshGenesis
<1>2. CASE Presync
  <2>1. PICK s \in StartHeights \ {0} : Start(Value(s), 1..s, 1..s, disk.paid, disk.last)
    BY <1>2 DEF Presync
  <2>2. NoGap(1..s)
    BY DEF NoGap, ReplicaConstants
  <2> QED BY <2>1, <2>2
<1> QED BY <1>1, <1>2 DEF FirstStart

LEMMA ChainInvStep ==
  ASSUME ReplicaConstants, ChainInv, [ReplicaNext]_replicaVars
  PROVE  ChainInv'
<1>1. CASE UNCHANGED replicaVars
  BY <1>1 DEF replicaVars, life, ledger, emission, fetching, store, ChainInv, TasksFit, FetchesFit, DownIdle,
              StoreFits, Local
<1>2. ASSUME NEW p \in Task, Apply(p) PROVE ChainInv'
  BY <1>2, BufferKeepsChain, EmitKeepsChain, WalkKeepsChain, ProofVerifiedKeepsChain, ExecuteKeepsChain,
     CheckRootKeepsChain DEF Apply
<1>3. CASE Restart
  BY <1>3, StartKeepsChain DEF Restart, ChainInv, StoreFits
<1>4. CASE FirstStart
  <2>1. ~up
    BY <1>4 DEF FirstStart
  <2> QED BY <1>4, <2>1, FirstStartFacts, StartKeepsChain
<1> QED
  BY <1>1, <1>2, <1>3, <1>4, ReceiveKeepsChain, NextOfDeltaKeepsChain, SyncKeepsChain, FetchKeepsChain,
     PickUpKeepsChain, ApplySnapshotKeepsChain, SaveKeepsChain, CrashKeepsChain DEF ReplicaNext

LEMMA ChainInvInit == ASSUME ReplicaInit PROVE ChainInv
<1>1. NoGap({})
  BY DEF NoGap
<1>2. chain = {} /\ task = [p \in Task |-> Idle] /\ delta = {} /\ snapshot = {} /\ buffer = <<>>
  BY DEF ReplicaInit
<1>3. TasksFit
  BY <1>1, <1>2, IdleFits DEF TasksFit
<1>4. StoreFits
  BY <1>1 DEF StoreFits, ReplicaInit, EmptyDisk, NoSave
<1> QED BY <1>2, <1>3, <1>4 DEF ChainInv, FetchesFit, DownIdle
=============================================================================
