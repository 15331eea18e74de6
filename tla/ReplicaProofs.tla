---------------------------- MODULE ReplicaProofs ----------------------------
(***************************************************************************)
(* A follower is consistent between any two steps of its tasks: its chain  *)
(* has no gap, no checkpoint that could be applied is left in the buffer,  *)
(* and no height is rewarded twice, for any chain, handlers, messages,     *)
(* deltas, snapshots, saves and crashes.                                   *)
(* And a proof-verified application that starts from a trie in step with   *)
(* the accounts leaves exactly the certified ones.                         *)
(***************************************************************************)
EXTENDS ReplicaChainProofs

(* A task that will look into the buffer before it ends. *)
Drains(t, p) ==
  \/ t.pc = "drain"
  \/ t.pc \in {"commit", "check"} /\ (t.to = 0 \/ p = Service)
  \/ t.pc = "correct" /\ t.to = 0
  \/ /\ p = Service /\ t.to > 0 /\ t.applied
     /\ t.pc \in {"next", "emit", "log", "write", "execute"}

DrainInv ==
  ~undrained /\ Local + 1 \in DOMAIN buffer => \E p \in Task : Drains(task[p], p)

(* The restarts that came back below h. *)
Comebacks(r, h) == {i \in DOMAIN r : r[i] < h}

Bounded(rewards, r) ==
  /\ rewards \in [Height -> Nat]
  /\ \A h \in Height : rewards[h] <= Cardinality(Comebacks(r, h))

(* A height above the last one rewarded has a reward to spare. *)
RewardInv ==
  /\ restored \in Seq(Nat) /\ last \in Nat /\ disk.last \in Nat /\ saver.last \in Nat
  /\ Bounded(paid, restored) /\ Bounded(disk.paid, restored) /\ Bounded(saver.paid, restored)
  /\ up => \A h \in Height : h > last => paid[h] < Cardinality(Comebacks(restored, h))

-----------------------------------------------------------------------------
(* The buffer.                                                             *)

(* One task moves on at a height: if it was to drain it still is, or there *)
(* is nothing to drain.                                                    *)
LEMMA Handover ==
  ASSUME TasksFit, DrainInv, NEW p \in Task, NEW t, task' = [task EXCEPT ![p] = t],
         UNCHANGED <<chain, undrained>>,
         Local + 1 \in DOMAIN buffer' => Local + 1 \in DOMAIN buffer \/ Drains(t, p),
         Drains(task[p], p) => Drains(t, p) \/ Local + 1 \notin DOMAIN buffer'
  PROVE  DrainInv'
<1>1. Local' = Local
  BY DEF Local
<1>2. task'[p] = t /\ \A q \in Task \ {p} : task'[q] = task[q]
  BY DEF TasksFit
<1> SUFFICES ASSUME ~undrained', Local + 1 \in DOMAIN buffer'
             PROVE  \E q \in Task : Drains(task'[q], q)
  BY <1>1 DEF DrainInv, Drains
<1>3. CASE Drains(t, p)
  BY <1>2, <1>3
<1>4. CASE ~Drains(t, p)
  <2>1. PICK q \in Task : Drains(task[q], q)
    BY <1>4 DEF DrainInv
  <2>2. q # p
    BY <1>4, <2>1
  <2> QED BY <1>2, <2>1, <2>2
<1> QED BY <1>3, <1>4

(* The task that extends the chain will drain. *)
LEMMA Heir ==
  ASSUME TasksFit, NEW p \in Task, NEW t, task' = [task EXCEPT ![p] = t], Drains(t, p)
  PROVE  DrainInv'
<1>1. task'[p] = t
  BY DEF TasksFit
<1> QED BY <1>1 DEF DrainInv, Drains

LEMMA DrainInvFrame ==
  ASSUME DrainInv, UNCHANGED <<chain, undrained, buffer, task>>
  PROVE  DrainInv'
BY DEF DrainInv, Drains, Local

LEMMA GiveUpDrains ==
  ASSUME ChainInv, DrainInv, NEW p \in Task, GiveUp(p), task[p].pc \in {"emit", "execute"},
         UNCHANGED <<chain, undrained>>
  PROVE  DrainInv'
<1>1. TasksFit /\ Fits(task[p], p, Local) /\ Local \in Nat
  BY TaskFacts DEF ChainInv
<1>2. DOMAIN buffer' \subseteq DOMAIN buffer
  BY DEF GiveUp, Without, Restrict
<1>3. CASE PeerWalk(p)
  <2>1. task' = [task EXCEPT ![p] = [task[p] EXCEPT !.pc = "next"]]
    BY <1>3 DEF GiveUp, ChainInv, TasksFit
  <2>2. ~Drains(task[p], p)
    BY <1>3 DEF Drains, PeerWalk
  <2> QED BY <1>1, <1>2, <2>1, <2>2, Handover
<1>4. CASE ~PeerWalk(p)
  <2>1. task' = [task EXCEPT ![p] = IF Walking(p) THEN EndOfDelta(p) ELSE Idle]
    BY <1>4 DEF GiveUp
  <2>2. Drains(task[p], p) => Drains(IF Walking(p) THEN EndOfDelta(p) ELSE Idle, p)
    <3>1. Drains([Idle EXCEPT !.pc = "drain"], p)
      BY DEF Drains, Idle
    <3> QED BY <1>1, <3>1 DEF Drains, Walking, EndOfDelta, Fits
  <2> QED BY <1>1, <1>2, <2>1, <2>2, Handover
<1> QED BY <1>3, <1>4

LEMMA BufferDrains ==
  ASSUME ChainInv, DrainInv, NEW p \in Task, BufferCheckpoint(p)
  PROVE  DrainInv'
<1> DEFINE k == task[p]
           t == [Idle EXCEPT !.pc = IF HeightAdvanced(p) THEN "drain" ELSE "idle"]
<1>1. TasksFit /\ Fits(k, p, Local) /\ Local \in Nat
  BY TaskFacts DEF ChainInv
<1>2. /\ k.pc = "buffer" /\ UNCHANGED <<chain, undrained>> /\ task' = [task EXCEPT ![p] = t]
      /\ DOMAIN buffer' \subseteq DOMAIN buffer \cup {k.h}
  BY DEF BufferCheckpoint, ledger, Insert
<1>3. ~Drains(k, p)
  BY <1>2 DEF Drains
<1>4. k.h = Local + 1 => Drains(t, p)
  <2>1. ASSUME k.h = Local + 1 PROVE HeightAdvanced(p)
    BY <1>1, <1>2, <2>1 DEF Fits, HeightAdvanced
  <2> QED BY <2>1 DEF Drains, Idle
<1> HIDE DEF t
<1> QED BY <1>1, <1>2, <1>3, <1>4, Handover

LEMMA DrainBufferDrains ==
  ASSUME ChainInv, DrainInv, NEW p \in Task, DrainBuffer(p)
  PROVE  DrainInv'
<1>1. TasksFit /\ Local \in Nat /\ UNCHANGED chain
  BY TaskFacts DEF ChainInv, DrainBuffer, ledger
<1>2. Local + 1 \notin DOMAIN buffer'
  <2>1. CASE Local + 1 \in DOMAIN buffer
    BY <2>1 DEF DrainBuffer, Without, Restrict
  <2>2. CASE Local + 1 \notin DOMAIN buffer
    BY <2>2 DEF DrainBuffer, Without, Restrict
  <2> QED BY <2>1, <2>2
<1>3. Local' = Local
  BY <1>1 DEF Local
<1> QED BY <1>2, <1>3 DEF DrainInv
LEMMA ReceiveDrains ==
  ASSUME ChainInv, DrainInv, NEW p \in Task, NEW h, NEW push, ReceiveCheckpoint(p, h, push)
  PROVE  DrainInv'
<1>1. TasksFit /\ UNCHANGED <<chain, undrained, buffer>> /\ ~Drains(task[p], p)
  BY DEF ChainInv, ReceiveCheckpoint, LatePush, ledger, Drains
<1>2. CASE UNCHANGED task
  BY <1>1, <1>2, DrainInvFrame
<1>3. CASE \E t : task' = [task EXCEPT ![p] = t]
  BY <1>1, <1>3, Handover
<1> QED BY <1>2, <1>3 DEF ReceiveCheckpoint, LatePush

LEMMA EmitDrains ==
  ASSUME ChainInv, DrainInv, NEW p \in Task, Emit(p)
  PROVE  DrainInv'
<1>1. TasksFit /\ Fits(task[p], p, Local) /\ UNCHANGED <<chain, undrained>> /\ task[p].pc = "emit"
  BY TaskFacts DEF ChainInv, Emit
<1>2. CASE GiveUp(p)
  BY <1>1, <1>2, GiveUpDrains
<1>3. CASE /\ Then(p, IF task[p].proofs = {} \/ PeerWalk(p) THEN "execute" ELSE "log")
           /\ UNCHANGED buffer
  <2> DEFINE t == [task[p] EXCEPT !.pc = IF task[p].proofs = {} \/ PeerWalk(p)
                                        THEN "execute" ELSE "log"]
  <2>1. task' = [task EXCEPT ![p] = t]
    BY <1>1, <1>3 DEF Then, TasksFit
  <2>2. Drains(task[p], p) => Drains(t, p)
    BY <1>1 DEF Drains, Fits, TaskFields
  <2> HIDE DEF t
  <2> QED BY <1>1, <1>3, <2>1, <2>2, Handover
<1> QED BY <1>2, <1>3 DEF Emit

(* A task that only moves on from pc to pc, draining as it did. *)
LEMMA ThenDrains ==
  ASSUME ChainInv, DrainInv, NEW p \in Task, NEW pc, Then(p, pc), UNCHANGED <<chain, undrained, buffer>>,
         Drains(task[p], p) => \A t : /\ DOMAIN t = TaskFields /\ t.pc = pc
                                      /\ t.to = task[p].to /\ t.applied = task[p].applied
                                      => Drains(t, p)
  PROVE  DrainInv'
<1>1. TasksFit /\ Fits(task[p], p, Local)
  BY TaskFacts DEF ChainInv
<1> DEFINE t == [task[p] EXCEPT !.pc = pc]
<1>2. task' = [task EXCEPT ![p] = t]
  BY <1>1 DEF Then, TasksFit
<1>3. DOMAIN t = TaskFields /\ t.pc = pc /\ t.to = task[p].to /\ t.applied = task[p].applied
  BY <1>1 DEF Fits, TaskFields
<1>4. Drains(task[p], p) => Drains(t, p)
  BY <1>3
<1> HIDE DEF t
<1> QED BY <1>1, <1>2, <1>4, Handover

LEMMA LogDrains ==
  ASSUME ChainInv, DrainInv, NEW p \in Task,
         LogCheckpoint(p) \/ CommitLog(p) \/ StoreProofs(p)
  PROVE  DrainInv'
<1>1. TasksFit /\ Fits(task[p], p, Local) /\ UNCHANGED <<chain, undrained, buffer>>
  BY TaskFacts DEF ChainInv, LogCheckpoint, CommitLog, StoreProofs, ledger
<1>2. CASE LogCheckpoint(p)
  <2>1. task[p].pc = "log" /\ Then(p, "write")
    BY <1>2 DEF LogCheckpoint
  <2> QED BY <1>1, <2>1, ThenDrains DEF Drains
<1>3. CASE CommitLog(p)
  <2>1. task[p].pc = "commit" /\ Then(p, "check")
    BY <1>3 DEF CommitLog
  <2> QED BY <1>1, <2>1, ThenDrains DEF Drains
<1>4. CASE StoreProofs(p)
  <2>1. CASE Walking(p)
    <3>1. Then(p, "next") /\ ~Drains(task[p], p)
      BY <1>4, <1>1, <2>1 DEF StoreProofs, Drains, Walking, Fits
    <3> QED BY <1>1, <3>1, ThenDrains
  <2>2. CASE ~Walking(p)
    <3>1. Then(p, "drain")
      BY <1>4, <2>2 DEF StoreProofs
    <3>2. \A t : t.pc = "drain" => Drains(t, p)
      BY DEF Drains
    <3> QED BY <1>1, <3>1, <3>2, ThenDrains
  <2> QED BY <2>1, <2>2
<1> QED BY <1>2, <1>3, <1>4

LEMMA ProofVerifiedDrains ==
  ASSUME ChainInv, DrainInv, NEW p \in Task, ProofVerified(p)
  PROVE  DrainInv'
<1>1. TasksFit /\ Fits(task[p], p, Local) /\ task[p].pc = "write" /\ UNCHANGED buffer
  BY TaskFacts DEF ChainInv, ProofVerified
<1>2. CASE Then(p, "commit")
  <2> DEFINE t == [task[p] EXCEPT !.pc = "commit"]
  <2>1. task' = [task EXCEPT ![p] = t]
    BY <1>1, <1>2 DEF Then, TasksFit
  <2>2. Drains(t, p)
    BY <1>1 DEF Drains, Fits, TaskFields
  <2> HIDE DEF t
  <2> QED BY <1>1, <2>1, <2>2, Heir
<1>3. CASE Then(p, "execute") /\ UNCHANGED <<chain, undrained>>
  BY <1>1, <1>3, ThenDrains DEF Drains
<1> QED BY <1>2, <1>3 DEF ProofVerified

LEMMA ExecuteDrains ==
  ASSUME ChainInv, DrainInv, NEW p \in Task, ExecuteCheckpoint(p)
  PROVE  DrainInv'
<1>1. TasksFit /\ Fits(task[p], p, Local) /\ task[p].pc = "execute"
  BY TaskFacts DEF ChainInv, ExecuteCheckpoint
<1>2. CASE undrained' = PeerWalk(p) /\ Then(p, "check")
  <2>1. CASE PeerWalk(p)
    BY <1>2, <2>1 DEF DrainInv
  <2>2. CASE ~PeerWalk(p)
    <3> DEFINE t == [task[p] EXCEPT !.pc = "check"]
    <3>1. task' = [task EXCEPT ![p] = t]
      BY <1>1, <1>2 DEF Then, TasksFit
    <3>2. Drains(t, p)
      BY <1>1, <2>2 DEF Drains, Fits, TaskFields, PeerWalk, Walking
    <3> HIDE DEF t
    <3> QED BY <1>1, <3>1, <3>2, Heir
  <2> QED BY <2>1, <2>2
<1>3. CASE GiveUp(p) /\ UNCHANGED <<chain, undrained>>
  BY <1>1, <1>3, GiveUpDrains
<1> QED BY <1>2, <1>3 DEF ExecuteCheckpoint
LEMMA CheckRootDrains ==
  ASSUME ReplicaConstants, ChainInv, DrainInv, NEW p \in Task, CheckRoot(p)
  PROVE  DrainInv'
<1> DEFINE k == task[p]
           after == IF k.proofs # {} /\ p # Service THEN "correct"
                    ELSE IF Walking(p) THEN "next" ELSE "drain"
           t == [k EXCEPT !.pc = after, !.applied = TRUE]
<1>1. /\ TasksFit /\ Fits(k, p, Local) /\ k.pc = "check"
      /\ UNCHANGED <<chain, undrained, buffer>>
  BY TaskFacts DEF ChainInv, CheckRoot, ledger
<1>2. task' = [task EXCEPT ![p] = t]
  BY <1>1 DEF CheckRoot, TasksFit
<1>3. Drains(k, p) => Drains(t, p)
  BY <1>1 DEF Drains, Fits, TaskFields, Walking
<1> HIDE DEF t
<1> QED BY <1>1, <1>2, <1>3, Handover

LEMMA NextOfDeltaDrains ==
  ASSUME ChainInv, DrainInv, NEW p \in Task, NextOfDelta(p)
  PROVE  DrainInv'
<1> DEFINE k == task[p]
           h == IF p = Service THEN Max({k.h, Local}) + 1 ELSE k.h + 1
           t == [k EXCEPT !.pc = "emit", !.h = h, !.bodies = h \in k.have,
                          !.proofs = IF k.cached THEN ProofsOf(h, k.to) ELSE {}]
<1>1. /\ TasksFit /\ Fits(k, p, Local) /\ k.pc = "next"
      /\ UNCHANGED <<chain, undrained, buffer>>
  BY TaskFacts DEF ChainInv, NextOfDelta, ledger
<1>2. task' = [task EXCEPT ![p] = t] \/ task' = [task EXCEPT ![p] = EndOfDelta(p)]
  BY DEF NextOfDelta
<1>3. Drains(k, p) => Drains(t, p)
  BY <1>1 DEF Drains, Fits, TaskFields
<1>4. Drains(k, p) => Drains(EndOfDelta(p), p)
  BY <1>1 DEF Drains, EndOfDelta, Idle
<1> HIDE DEF t
<1> QED BY <1>1, <1>2, <1>3, <1>4, Handover

LEMMA IdleStartDrains ==
  ASSUME ReplicaConstants, ChainInv, DrainInv, (\E p \in Busy : SyncFromPeer(p)) \/ PickUpDelta
  PROVE  DrainInv'
<1>1. TasksFit /\ UNCHANGED <<chain, undrained, buffer>>
  BY DEF ChainInv, SyncFromPeer, PickUpDelta, ledger
<1>2. ASSUME NEW p \in Task, NEW t, task[p].pc = "idle", task' = [task EXCEPT ![p] = t] PROVE DrainInv'
  <2>1. ~Drains(task[p], p)
    BY <1>2 DEF Drains
  <2> QED BY <1>1, <1>2, <2>1, Handover
<1>3. CASE UNCHANGED task
  BY <1>1, <1>3, DrainInvFrame
<1>4. ASSUME NEW p \in Busy, SyncFromPeer(p) PROVE DrainInv'
  <2>1. p \in Task /\ task[p].pc = "idle"
    BY <1>4 DEF Task, ReplicaConstants, SyncFromPeer
  <2> QED BY <1>2, <1>3, <1>4, <2>1 DEF SyncFromPeer
<1>5. CASE PickUpDelta
  <2>1. Service \in Task /\ task[Service].pc = "idle"
    BY <1>5 DEF Task, PickUpDelta
  <2>2. \E t : task' = [task EXCEPT ![Service] = t]
    BY <1>5 DEF PickUpDelta
  <2> QED BY <1>2, <2>1, <2>2
<1> QED BY <1>4, <1>5

LEMMA DrainInvStep ==
  ASSUME ReplicaConstants, ChainInv, DrainInv, [ReplicaNext]_replicaVars
  PROVE  DrainInv'
<1>1. CASE UNCHANGED replicaVars
  BY <1>1, DrainInvFrame DEF replicaVars, ledger
<1>2. ASSUME NEW p \in Busy, NEW h \in 1..NetTip, NEW push \in Pushes, ReceiveCheckpoint(p, h, push)
      PROVE  DrainInv'
  BY <1>2, ReceiveDrains DEF Task, ReplicaConstants
<1>3. ASSUME NEW p \in Task, Apply(p) PROVE DrainInv'
  BY <1>3, BufferDrains, DrainBufferDrains, EmitDrains, LogDrains, ProofVerifiedDrains, ExecuteDrains,
     CheckRootDrains DEF Apply
<1>4. CASE SpawnFetch \/ FetchAnswered \/ FetchFailed \/ CopyState \/ CopyRewards \/ CopyEmission \/ WriteDisk
  BY <1>4, DrainInvFrame DEF SpawnFetch, FetchAnswered, FetchFailed, CopyState, CopyRewards, CopyEmission,
                             WriteDisk, ledger
<1>5. CASE ApplySnapshot
  BY <1>5 DEF ApplySnapshot, DrainInv
<1>6. CASE Crash
  BY <1>6 DEF Crash, DrainInv
<1>7. CASE Restart \/ FirstStart
  <2>1. ~up /\ UNCHANGED buffer
    BY <1>7 DEF Restart, FirstStart, FreshGenesis, Presync, Start
  <2>2. buffer' = <<>>
    BY <2>1 DEF ChainInv, DownIdle
  <2> QED BY <2>2 DEF DrainInv
<1> QED BY <1>1, <1>2, <1>3, <1>4, <1>5, <1>6, <1>7, NextOfDeltaDrains, IdleStartDrains DEF ReplicaNext
-----------------------------------------------------------------------------
(* The rewards.                                                            *)

LEMMA ComebackFacts ==
  ASSUME NEW r \in Seq(Nat), NEW n \in Nat, NEW h \in Nat
  PROVE  /\ Cardinality(Comebacks(r, h)) \in Nat
         /\ Cardinality(Comebacks(Append(r, n), h)) \in Nat
         /\ Cardinality(Comebacks(Append(r, n), h)) >= Cardinality(Comebacks(r, h))
         /\ n < h => Cardinality(Comebacks(Append(r, n), h)) = Cardinality(Comebacks(r, h)) + 1
<1> DEFINE C == Comebacks(r, h)
           k == Len(r) + 1
<1>1. C \subseteq 1..Len(r) /\ k \notin C /\ Len(r) \in Nat
  BY DEF Comebacks
<1>2. IsFiniteSet(1..Len(r))
  BY <1>1, FS_Interval
<1>3. IsFiniteSet(C)
  BY <1>1, <1>2, FS_Subset
<1>4. Comebacks(Append(r, n), h) = IF n < h THEN C \cup {k} ELSE C
  <2>1. Append(r, n) \in Seq(Nat) /\ DOMAIN Append(r, n) = (1..Len(r)) \cup {k}
    BY <1>1
  <2>2. Append(r, n)[k] = n /\ \A i \in 1..Len(r) : Append(r, n)[i] = r[i]
    BY <1>1
  <2>3. DOMAIN r = 1..Len(r)
    OBVIOUS
  <2>4. k \notin 1..Len(r)
    BY <1>1
  <2> HIDE DEF k
  <2> QED BY <2>1, <2>2, <2>3, <2>4 DEF Comebacks
<1> HIDE DEF C, k
<1>5. Cardinality(C) \in Nat
  BY <1>3, FS_CardinalityType
<1>6. Cardinality(C \cup {k}) = Cardinality(C) + 1
  BY <1>1, <1>3, FS_AddElement
<1>7. Cardinality(Comebacks(r, h)) \in Nat
  BY <1>5 DEF C
<1>8. CASE n < h
  <2>1. Cardinality(Comebacks(Append(r, n), h)) = Cardinality(C) + 1
    BY <1>4, <1>6, <1>8
  <2> QED BY <1>5, <2>1 DEF C
<1>9. CASE ~(n < h)
  <2>1. Cardinality(Comebacks(Append(r, n), h)) = Cardinality(C)
    BY <1>4, <1>9
  <2> QED BY <1>5, <1>9, <2>1 DEF C
<1> QED BY <1>8, <1>9

LEMMA RewardFrame ==
  ASSUME RewardInv, UNCHANGED <<up, restored, paid, last, disk, saver>>
  PROVE  RewardInv'
BY DEF RewardInv, Bounded

LEMMA EmitRewards ==
  ASSUME ReplicaConstants, ChainInv, RewardInv, NEW p \in Task, Emit(p)
  PROVE  RewardInv'
<1> DEFINE k == task[p].h
           C(h) == Cardinality(Comebacks(restored, h))
<1>1. k \in Nat /\ up /\ UNCHANGED <<up, restored, disk, saver>>
  BY TaskFacts DEF Emit, life, store, Fits
<1>4. \A h \in Height : C(h) \in Nat
  <2>1. restored \in Seq(Nat) /\ 0 \in Nat /\ \A h \in Height : h \in Nat
    BY DEF RewardInv, Height, ReplicaConstants
  <2> QED BY <2>1, ComebackFacts
<1>2. CASE paid' = paid /\ last' = last
  BY <1>1, <1>2, RewardFrame
<1>3. CASE RewardDue(k) /\ paid' = [paid EXCEPT ![k] = @ + 1] /\ last' = k
  <2>1. /\ paid \in [Height -> Nat] /\ last \in Nat /\ k > last
        /\ \A h \in Height : paid[h] <= C(h) /\ (h > last => paid[h] < C(h))
    BY <1>1, <1>3 DEF RewardInv, Bounded, RewardDue
  <2>2. paid' \in [Height -> Nat] /\ \A h \in Height : paid'[h] = IF h = k THEN paid[h] + 1 ELSE paid[h]
    <3>1. paid' = [paid EXCEPT ![k] = paid[k] + 1]
      BY <1>3
    <3>2. k \in Height => paid[k] + 1 \in Nat
      BY <2>1
    <3> HIDE DEF k
    <3> QED BY <2>1, <3>1, <3>2
  <2>3. \A h \in Height : h \in Nat
    BY DEF Height, ReplicaConstants
  <2>4. \A h \in Height : paid'[h] <= C(h) /\ (h > last' => paid'[h] < C(h))
    <3> HIDE DEF k, C
    <3> QED BY <1>1, <1>3, <1>4, <2>1, <2>2, <2>3
  <2>5. Bounded(paid', restored)
    BY <2>2, <2>4 DEF Bounded
  <2>6. Bounded(paid, restored)'
    BY <1>1, <2>5 DEF Bounded
  <2> QED BY <1>1, <1>3, <2>4, <2>6 DEF RewardInv, Bounded
<1> QED BY <1>2, <1>3 DEF Emit, emission

LEMMA SaveRewards ==
  ASSUME ChainInv, RewardInv, CopyState \/ CopyRewards \/ CopyEmission \/ WriteDisk
  PROVE  RewardInv'
<1>1. UNCHANGED <<up, restored, paid, last>>
  BY DEF CopyState, CopyRewards, CopyEmission, WriteDisk, life, emission
<1>2. /\ saver'.paid \in {saver.paid, paid, NoRewards} /\ saver'.last \in {saver.last, last, 0}
      /\ disk'.paid \in {disk.paid, saver.paid} /\ disk'.last \in {disk.last, saver.last}
  <2>1. DOMAIN disk = {"saved", "accounts", "chain", "dag", "paid", "last"}
    BY DEF ChainInv, StoreFits
  <2>2. DOMAIN saver = {"pc", "accounts", "chain", "dag", "paid", "last"}
    BY DEF ChainInv, StoreFits
  <2>3. CASE CopyState
    BY <2>2, <2>3 DEF CopyState
  <2>4. CASE CopyRewards
    BY <2>2, <2>4 DEF CopyRewards
  <2>5. CASE CopyEmission
    BY <2>2, <2>5 DEF CopyEmission
  <2>6. CASE WriteDisk
    <3>1. CASE WriteState
      <4>1. UNCHANGED <<disk.paid, disk.last>>
        BY <2>1, <3>1 DEF WriteState
      <4>2. UNCHANGED <<saver.paid, saver.last>>
        BY <2>2, <3>1 DEF WriteState, Saving
      <4> QED BY <4>1, <4>2
    <3>2. CASE WriteRewards
      <4>1. disk'.paid = saver.paid /\ disk'.last = disk.last
        BY <2>1, <3>2 DEF WriteRewards
      <4>2. UNCHANGED <<saver.paid, saver.last>>
        BY <2>2, <3>2 DEF WriteRewards, Saving
      <4> QED BY <4>1, <4>2
    <3>3. CASE WriteEmission
      <4>1. disk'.paid = disk.paid /\ disk'.last = saver.last
        BY <2>1, <3>3 DEF WriteEmission
      <4>2. saver'.paid = NoRewards /\ saver'.last = 0
        BY <3>3 DEF WriteEmission, NoSave
      <4> QED BY <4>1, <4>2
    <3> QED BY <2>6, <3>1, <3>2, <3>3 DEF WriteDisk
  <2> QED BY <2>3, <2>4, <2>5, <2>6
<1>3. Bounded(NoRewards, restored)
  BY ComebackFacts DEF Bounded, NoRewards, Height, RewardInv
<1>4. Bounded(paid, restored) /\ Bounded(disk.paid, restored) /\ Bounded(saver.paid, restored)
  BY DEF RewardInv
<1>5. Bounded(paid', restored') /\ Bounded(disk'.paid, restored') /\ Bounded(saver'.paid, restored')
  BY <1>1, <1>2, <1>3, <1>4
<1> QED BY <1>1, <1>2, <1>5 DEF RewardInv
LEMMA CrashRewards ==
  ASSUME ReplicaConstants, RewardInv, Crash
  PROVE  RewardInv'
<1>1. ~up' /\ paid' = NoRewards /\ last' = 0 /\ UNCHANGED <<disk, restored>> /\ saver' = NoSave
  BY DEF Crash
<1>2. Bounded(NoRewards, restored)
  BY ComebackFacts DEF Bounded, NoRewards, Height, RewardInv
<1>3. NoSave.paid = NoRewards /\ NoSave.last = 0
  BY DEF NoSave
<1> QED BY <1>1, <1>2, <1>3 DEF RewardInv

LEMMA StartRewards ==
  ASSUME ReplicaConstants, RewardInv, NEW acc, NEW H, NEW bodies, NoGap(H),
         Start(acc, H, bodies, disk.paid, disk.last)
  PROVE  RewardInv'
<1> DEFINE n == MaxOf(H)
<1>1. /\ paid' = disk.paid /\ last' = Max({disk.last, n}) /\ restored' = Append(restored, n)
      /\ UNCHANGED <<disk, saver>>
  BY DEF Start, store
<1>2. n \in Nat
  BY GapFacts
<1>3. last' \in Nat /\ last' >= n
  <2>1. disk.last \in Nat
    BY DEF RewardInv
  <2> HIDE DEF n
  <2> QED BY <1>1, <1>2, <2>1, MaxOfTwo
<1> HIDE DEF n
<1>4. restored \in Seq(Nat) /\ restored' \in Seq(Nat)
  BY <1>1, <1>2 DEF RewardInv
<1>5. \A h \in Height : h \in Nat
  BY DEF Height, ReplicaConstants
<1>6. \A h \in Height : /\ Cardinality(Comebacks(restored, h)) \in Nat
                        /\ Cardinality(Comebacks(restored', h)) \in Nat
                        /\ Cardinality(Comebacks(restored', h)) >= Cardinality(Comebacks(restored, h))
                        /\ n < h => Cardinality(Comebacks(restored', h))
                                    = Cardinality(Comebacks(restored, h)) + 1
  BY <1>1, <1>2, <1>4, <1>5, ComebackFacts
<1>7. ASSUME NEW rewards, Bounded(rewards, restored) PROVE Bounded(rewards, restored')
  BY <1>6, <1>7 DEF Bounded
<1>8. Bounded(paid', restored') /\ Bounded(disk'.paid, restored') /\ Bounded(saver'.paid, restored')
  BY <1>1, <1>7 DEF RewardInv
<1>9. \A h \in Height : h > last' => paid'[h] < Cardinality(Comebacks(restored', h))
  <2> SUFFICES ASSUME NEW h \in Height, h > last'
               PROVE  paid'[h] < Cardinality(Comebacks(restored', h))
    OBVIOUS
  <2>1. n < h
    BY <1>2, <1>3, <1>5
  <2>2. paid'[h] \in Nat /\ paid'[h] <= Cardinality(Comebacks(restored, h))
    BY <1>1 DEF RewardInv, Bounded
  <2> QED BY <1>6, <2>1, <2>2
<1> QED BY <1>1, <1>3, <1>4, <1>8, <1>9 DEF RewardInv

LEMMA RewardInvStep ==
  ASSUME ReplicaConstants, ChainInv, RewardInv, [ReplicaNext]_replicaVars
  PROVE  RewardInv'
<1>1. ASSUME NEW p \in Task, Apply(p) PROVE RewardInv'
  <2>1. CASE Emit(p)
    BY <2>1, EmitRewards
  <2>2. CASE ~Emit(p)
    BY <1>1, <2>2, RewardFrame DEF Apply, BufferCheckpoint, DrainBuffer, LogCheckpoint, ProofVerified,
       CommitLog, ExecuteCheckpoint, CheckRoot, StoreProofs, life, emission, store
  <2> QED BY <2>1, <2>2
<1>2. CASE \/ \E p \in Busy, h \in 1..NetTip, push \in Pushes : ReceiveCheckpoint(p, h, push)
           \/ \E p \in Task : NextOfDelta(p)
           \/ \E p \in Busy : SyncFromPeer(p)
  BY <1>2, RewardFrame DEF ReceiveCheckpoint, NextOfDelta, SyncFromPeer, life, emission, store
<1>3. CASE SpawnFetch \/ FetchAnswered \/ FetchFailed \/ PickUpDelta \/ ApplySnapshot \/ UNCHANGED replicaVars
  BY <1>3, RewardFrame DEF SpawnFetch, FetchAnswered, FetchFailed, PickUpDelta, ApplySnapshot, replicaVars,
                           life, emission, store
<1>4. CASE Restart
  BY <1>4, StartRewards DEF Restart, ChainInv, StoreFits
<1>5. CASE FirstStart
  BY <1>5, FirstStartFacts, StartRewards
<1> QED BY <1>1, <1>2, <1>3, <1>4, <1>5, SaveRewards, CrashRewards DEF ReplicaNext

LEMMA RewardInvInit == ASSUME ReplicaConstants, ReplicaInit PROVE RewardInv
<1>1. /\ restored = <<>> /\ last = 0 /\ paid = NoRewards /\ ~up
      /\ disk = EmptyDisk /\ saver = NoSave
  BY DEF ReplicaInit
<1>2. restored \in Seq(Nat)
  BY <1>1
<1>3. Bounded(NoRewards, restored)
  BY <1>2, ComebackFacts DEF Bounded, NoRewards, Height, ReplicaConstants
<1>4. /\ EmptyDisk.paid = NoRewards /\ EmptyDisk.last = 0
      /\ NoSave.paid = NoRewards /\ NoSave.last = 0
  BY DEF EmptyDisk, NoSave
<1> QED BY <1>1, <1>2, <1>3, <1>4 DEF RewardInv

-----------------------------------------------------------------------------
(* Whatever the pushes, deltas and peer snapshots bring and in whatever    *)
(* order the gossip handlers, the checkpoint service, the saver, crashes   *)
(* and restarts run, a follower's checkpoints have no gap, no checkpoint   *)
(* that could be applied waits in the buffer once every task is done, and  *)
(* the reward of a height is distributed at most once per restart that     *)
(* came back below it (gossip.rs, checkpoint.rs, emission.rs, storage.rs). *)
THEOREM FollowerConsistent == ReplicaSpec => []ReplicaConsistent
<1> DEFINE Inv == ChainInv /\ DrainInv /\ RewardInv
<1>1. ReplicaInit => Inv
  <2>1. ASSUME ReplicaInit PROVE DrainInv
    BY <2>1 DEF ReplicaInit, DrainInv
  <2> QED BY <2>1, ReplicaAssumption, ChainInvInit, RewardInvInit
<1>2. Inv /\ [ReplicaNext]_replicaVars => Inv'
  BY ReplicaAssumption, ChainInvStep, DrainInvStep, RewardInvStep
<1>3. Inv => ReplicaConsistent
  <2> SUFFICES ASSUME Inv PROVE ReplicaConsistent
    OBVIOUS
  <2>1. ChainHasNoGap
    BY GapFacts DEF ChainInv, TasksFit, ChainHasNoGap, Local
  <2>2. NothingStranded
    BY DEF NothingStranded, DrainInv, Drains
  <2>3. RewardedOnce
    BY DEF RewardInv, Bounded, RewardedOnce, Comebacks
  <2> QED BY <2>1, <2>2, <2>3 DEF ReplicaConsistent
<1> QED BY <1>1, <1>2, <1>3, PTL DEF ReplicaSpec

-----------------------------------------------------------------------------
(* Proofs are exact.                                                       *)

LEMMA OthersKept ==
  ASSUME TasksFit, NEW q \in Task, NEW t, task' = [task EXCEPT ![q] = t], NEW p \in Task, p # q
  PROVE  task'[p] = task[p]
BY DEF TasksFit

(* Only a proof-verified application moves a task to its commit. *)
LEMMA CommitsAreProven ==
  ASSUME ReplicaConstants, ChainInv, [ReplicaNext]_replicaVars, NEW p \in Task,
         task[p].pc = "write", task'[p].pc = "commit"
  PROVE  ProofVerified(p)
<1>1. TasksFit /\ task'[p] # task[p]
  BY DEF ChainInv
<1>2. ASSUME NEW q \in Task, NEW t, task' = [task EXCEPT ![q] = t] PROVE q = p
  BY <1>1, <1>2, OthersKept
<1>3. ASSUME NEW q \in Task, Apply(q) PROVE ProofVerified(p)
  <2>1. \E t : task' = [task EXCEPT ![q] = t]
    BY <1>1, <1>3 DEF Apply, BufferCheckpoint, DrainBuffer, Emit, LogCheckpoint, ProofVerified, CommitLog,
                      ExecuteCheckpoint, CheckRoot, StoreProofs, GiveUp, Then, TasksFit
  <2>2. q = p
    BY <1>2, <2>1
  <2> QED BY <1>3, <2>2 DEF Apply, BufferCheckpoint, DrainBuffer, Emit, LogCheckpoint, CommitLog,
                            ExecuteCheckpoint, CheckRoot, StoreProofs
<1>4. ~\E q \in Task : NextOfDelta(q)
  BY <1>2 DEF NextOfDelta
<1>5. ~\E q \in Busy, h \in 1..NetTip, push \in Pushes : ReceiveCheckpoint(q, h, push)
  <2>1. SUFFICES ASSUME NEW q \in Task, NEW h, NEW push, ReceiveCheckpoint(q, h, push) PROVE FALSE
    BY DEF Task, ReplicaConstants
  <2>2. \E t : task' = [task EXCEPT ![q] = t]
    BY <1>1, <2>1 DEF ReceiveCheckpoint, LatePush
  <2> QED BY <1>2, <2>1, <2>2 DEF ReceiveCheckpoint
<1>6. ~\E q \in Busy : SyncFromPeer(q)
  <2>1. SUFFICES ASSUME NEW q \in Task, SyncFromPeer(q) PROVE FALSE
    BY DEF Task, ReplicaConstants
  <2>2. \E t : task' = [task EXCEPT ![q] = t]
    BY <1>1, <2>1 DEF SyncFromPeer
  <2> QED BY <1>2, <2>1, <2>2 DEF SyncFromPeer
<1>7. ~PickUpDelta
  BY <1>2 DEF PickUpDelta, Task
<1>8. ~Crash
  BY DEF Crash, Idle
<1>9. ASSUME \/ SpawnFetch \/ FetchAnswered \/ FetchFailed \/ ApplySnapshot
             \/ CopyState \/ CopyRewards \/ CopyEmission \/ WriteDisk \/ Restart \/ FirstStart
             \/ UNCHANGED replicaVars
      PROVE  UNCHANGED task
  BY <1>9 DEF SpawnFetch, FetchAnswered, FetchFailed, ApplySnapshot, CopyState, CopyRewards, CopyEmission,
              WriteDisk, Restart, FirstStart, FreshGenesis, Presync, Start, replicaVars
<1> QED BY <1>1, <1>3, <1>4, <1>5, <1>6, <1>7, <1>8, <1>9 DEF ReplicaNext

(* The trie updated for the changed accounts only is the trie of all, when *)
(* it agreed with the accounts before.                                     *)
LEMMA IncrementalIsFull ==
  ASSUME NEW p \in Task, ProofVerified(p), task'[p].pc = "commit", trie = accounts,
         task[p].pc = "write", TasksFit
  PROVE  accounts' = Value(task[p].h)
<1> DEFINE overlaid == Overlay(accounts, task[p].proofs, task[p].h)
           incremental == Refresh(trie, overlaid, {a \in Addr : overlaid[a] # accounts[a]})
<1>1. incremental = overlaid
  <2>1. overlaid = [a \in Addr |-> overlaid[a]]
    BY DEF Overlay
  <2>2. \A a \in Addr : incremental[a] = overlaid[a]
    <3> HIDE DEF overlaid
    <3> QED BY DEF Refresh
  <2>3. incremental = [a \in Addr |-> incremental[a]]
    BY DEF Refresh
  <2> HIDE DEF overlaid, incremental
  <2> QED BY <2>1, <2>2, <2>3
<1>2. \A pc : Then(p, pc) => task'[p].pc = pc
  <2>1. DOMAIN task[p] = TaskFields
    BY DEF TasksFit, Fits
  <2> QED BY <2>1 DEF Then, TasksFit, TaskFields
<1>3. /\ accounts' = overlaid
      /\ RootMatches(incremental, task[p].h) \/ RootMatches(overlaid, task[p].h)
  <2> HIDE DEF overlaid, incremental
  <2> QED BY <1>2 DEF ProofVerified, overlaid, incremental
<1> HIDE DEF overlaid, incremental
<1> QED BY <1>1, <1>3 DEF RootMatches

(* A proof-verified application that finds the trie in agreement with the  *)
(* accounts leaves exactly the certified accounts, whatever part of them   *)
(* the proofs cover (apply_checkpoint_proof_verified, state/proofs.rs).    *)
THEOREM ProofsExact == ReplicaSpec => ProofsAreExact
<1>1. ReplicaInit => ChainInv
  BY ChainInvInit
<1>2. ChainInv /\ [ReplicaNext]_replicaVars => ChainInv'
  BY ReplicaAssumption, ChainInvStep
<1>3. ChainInv /\ [ReplicaNext]_replicaVars =>
        [\A p \in Task : task[p].pc = "write" /\ task'[p].pc = "commit" /\ trie = accounts
           => accounts' = Value(task[p].h)]_replicaVars
  BY ReplicaAssumption, CommitsAreProven, IncrementalIsFull DEF ChainInv
<1> QED BY <1>1, <1>2, <1>3, PTL DEF ReplicaSpec, ProofsAreExact
=============================================================================
