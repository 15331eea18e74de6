---------------------------- MODULE LedgerProofs ----------------------------
(***************************************************************************)
(* The heights of a node's chain, for any transactions, any number of      *)
(* concurrent applications and any number of fork resolutions.             *)
(***************************************************************************)
EXTENDS Ledger, SequenceTheorems, TLAPS

TaskFields == {"pc", "cp", "list", "hashes", "fast", "txs", "deferred", "retries", "special",
               "credits", "staked", "late"}

Entry == [height : Nat, variant : Variants, hashes : SUBSET Tx]

(* A chain of which r tips have been rolled back. *)
ChainFits(cs, r) ==
  /\ r \in Nat /\ cs \in Seq(Entry)
  /\ \A i \in 1..Len(cs) : i <= cs[i].height /\ cs[i].height <= i + r
  /\ \A i, j \in 1..Len(cs) : i < j => cs[i].height < cs[j].height

(* The height that an open application has chosen: every rollback since    *)
(* took one checkpoint off the chain it was the next height of.            *)
TaskFits(k, n, r) ==
  /\ DOMAIN k = TaskFields
  /\ k.pc \in {"taken", "marked"} => /\ k.cp[1] \in Nat /\ k.cp[1] <= n + 1 + r
                                     /\ k.cp[2] \in Variants /\ k.list \subseteq Tx

(* A task that has no application open. *)
Settled(k) == DOMAIN k = TaskFields /\ k.pc \notin {"taken", "marked"}

HeightInv ==
  /\ ChainFits(checkpoints, rollbacks)
  /\ task = [p \in Task |-> task[p]]
  /\ \A p \in Task : TaskFits(task[p], Len(checkpoints), rollbacks)

LEMMA HeightsAreNat == \A e \in Entry : e.height \in Nat
BY DEF Entry

LEMMA LocalFacts ==
  ASSUME ChainFits(checkpoints, rollbacks)
  PROVE  /\ Local \in Nat /\ Len(checkpoints) <= Local /\ Local <= Len(checkpoints) + rollbacks
         /\ \A i \in 1..Len(checkpoints) : checkpoints[i].height <= Local
<1>1. CASE checkpoints = <<>>
  BY <1>1 DEF ChainFits, Local
<1>2. CASE checkpoints # <<>>
  <2>1. Len(checkpoints) > 0
    BY <1>2 DEF ChainFits
  <2>2. Local = checkpoints[Len(checkpoints)].height
    BY <1>2 DEF Local, Last
  <2>3. Len(checkpoints) \in Nat /\ \A i \in 1..Len(checkpoints) : checkpoints[i].height \in Nat
    <3>1. \A i \in 1..Len(checkpoints) : checkpoints[i] \in Entry
      BY DEF ChainFits
    <3> QED BY <3>1, HeightsAreNat DEF ChainFits
  <2>4. \A i \in 1..Len(checkpoints) : checkpoints[i].height <= Local
    <3> SUFFICES ASSUME NEW i \in 1..Len(checkpoints) PROVE checkpoints[i].height <= Local
      OBVIOUS
    <3>1. Len(checkpoints) \in 1..Len(checkpoints)
      BY <2>1, <2>3
    <3>2. CASE i = Len(checkpoints)
      BY <2>2, <2>3, <3>1, <3>2
    <3>3. CASE i < Len(checkpoints)
      BY <2>2, <2>3, <3>1, <3>3 DEF ChainFits
    <3> QED BY <2>3, <3>2, <3>3
  <2> QED BY <2>1, <2>2, <2>3, <2>4 DEF ChainFits
<1> QED BY <1>1, <1>2

LEMMA AppendFits ==
  ASSUME NEW cs, NEW r, ChainFits(cs, r), NEW e \in Entry,
         Len(cs) + 1 <= e.height, e.height <= Len(cs) + 1 + r,
         \A i \in 1..Len(cs) : cs[i].height < e.height
  PROVE  ChainFits(Append(cs, e), r) /\ Len(Append(cs, e)) = Len(cs) + 1
<1> DEFINE n == Len(cs)
           as == Append(cs, e)
<1>1. cs \in Seq(Entry) /\ n \in Nat /\ r \in Nat
  BY DEF ChainFits
<1>2. /\ as \in Seq(Entry) /\ Len(as) = n + 1
      /\ as[n + 1] = e /\ \A i \in 1..n : as[i] = cs[i]
  BY <1>1, AppendProperties
<1>3. \A i \in 1..(n + 1) : i = n + 1 \/ i \in 1..n
  BY <1>1
<1>4. /\ \A i \in 1..n : cs[i].height < e.height /\ i <= cs[i].height /\ cs[i].height <= i + r
      /\ \A i, j \in 1..n : i < j => cs[i].height < cs[j].height
  BY DEF ChainFits
<1> HIDE DEF as, n
<1>5. \A i \in 1..(n + 1) : i <= as[i].height /\ as[i].height <= i + r
  BY <1>2, <1>3, <1>4 DEF n
<1>6. \A i, j \in 1..(n + 1) : i < j => as[i].height < as[j].height
  <2> SUFFICES ASSUME NEW i \in 1..(n + 1), NEW j \in 1..(n + 1), i < j
               PROVE  as[i].height < as[j].height
    OBVIOUS
  <2>1. i \in 1..n
    BY <1>1
  <2> QED BY <1>2, <1>3, <1>4, <2>1
<1> QED BY <1>1, <1>2, <1>5, <1>6 DEF ChainFits, n, as

LEMMA FrontFits ==
  ASSUME NEW cs, NEW r, ChainFits(cs, r), cs # <<>>
  PROVE  ChainFits(Front(cs), r + 1) /\ Len(Front(cs)) = Len(cs) - 1
<1> DEFINE n == Len(cs)
           fs == SubSeq(cs, 1, n - 1)
<1>1. cs \in Seq(Entry) /\ n \in Nat /\ n > 0 /\ r \in Nat
  BY DEF ChainFits
<1>2. \A i \in 1..(n - 1) : cs[i] \in Entry
  BY <1>1
<1>3. /\ fs \in Seq(Entry) /\ Len(fs) = IF 1 <= n - 1 THEN n - 1 - 1 + 1 ELSE 0
      /\ \A i \in 1..(n - 1 - 1 + 1) : fs[i] = cs[1 + i - 1]
  <2> HIDE DEF n
  <2>1. 1 \in Int /\ n - 1 \in Int
    BY <1>1
  <2> QED BY <1>2, <2>1, SubSeqProperties
<1>4. Len(fs) = n - 1 /\ \A i \in 1..(n - 1) : fs[i] = cs[i]
  <2> HIDE DEF n, fs
  <2>1. n - 1 - 1 + 1 = n - 1 /\ \A i \in 1..(n - 1) : 1 + i - 1 = i
    BY <1>1
  <2> QED BY <1>1, <1>3, <2>1
<1>5. /\ \A i \in 1..n : cs[i].height \in Nat /\ i <= cs[i].height /\ cs[i].height <= i + r
      /\ \A i, j \in 1..n : i < j => cs[i].height < cs[j].height
  <2>1. \A i \in 1..n : cs[i] \in Entry
    BY <1>1
  <2> QED BY <2>1, HeightsAreNat DEF ChainFits
<1> HIDE DEF fs, n
<1>6. \A i \in 1..(n - 1) : i \in 1..n /\ i \in Nat
  BY <1>1
<1>7. \A i \in 1..(n - 1) : i <= fs[i].height /\ fs[i].height <= i + (r + 1)
  <2> SUFFICES ASSUME NEW i \in 1..(n - 1) PROVE i <= fs[i].height /\ fs[i].height <= i + (r + 1)
    OBVIOUS
  <2>1. cs[i].height \in Nat /\ i \in Nat /\ i <= cs[i].height /\ cs[i].height <= i + r
    BY <1>5, <1>6
  <2>2. fs[i] = cs[i]
    BY <1>4
  <2> QED BY <1>1, <2>1, <2>2
<1>8. \A i, j \in 1..(n - 1) : i < j => fs[i].height < fs[j].height
  BY <1>4, <1>5, <1>6
<1>9. ChainFits(fs, r + 1)
  BY <1>1, <1>3, <1>4, <1>7, <1>8 DEF ChainFits
<1> QED BY <1>4, <1>9 DEF Front, n, fs

-----------------------------------------------------------------------------
(* Steps.                                                                  *)

LEMMA ChainSteps ==
  ASSUME HeightInv, ChainFits(checkpoints', rollbacks'), NEW p \in Task, NEW k,
         task' = [task EXCEPT ![p] = k] \/ UNCHANGED task,
         Len(checkpoints) + rollbacks <= Len(checkpoints') + rollbacks',
         TaskFits(k, Len(checkpoints'), rollbacks')
  PROVE  HeightInv'
<1>1. Len(checkpoints) + rollbacks \in Nat /\ Len(checkpoints') + rollbacks' \in Nat
  BY DEF HeightInv, ChainFits
<1>2. ASSUME NEW q \in Task, task'[q] = task[q]
      PROVE  TaskFits(task'[q], Len(checkpoints'), rollbacks')
  <2>1. TaskFits(task[q], Len(checkpoints), rollbacks)
    BY DEF HeightInv
  <2>2. Len(checkpoints) \in Nat /\ rollbacks \in Nat /\ Len(checkpoints') \in Nat /\ rollbacks' \in Nat
    BY DEF HeightInv, ChainFits
  <2> QED BY <1>2, <2>1, <2>2 DEF TaskFits
<1>3. CASE UNCHANGED task
  BY <1>2, <1>3 DEF HeightInv
<1>4. CASE task' = [task EXCEPT ![p] = k]
  <2>1. task'[p] = k /\ \A q \in Task \ {p} : task'[q] = task[q]
    BY <1>4 DEF HeightInv
  <2>2. \A q \in Task : TaskFits(task'[q], Len(checkpoints'), rollbacks')
    BY <1>2, <2>1
  <2>3. task' = [q \in Task |-> task'[q]]
    BY <1>4 DEF HeightInv
  <2> QED BY <2>2, <2>3 DEF HeightInv
<1> QED BY <1>3, <1>4

LEMMA TaskMoves ==
  ASSUME HeightInv, UNCHANGED <<checkpoints, rollbacks>>, NEW p \in Task, NEW k,
         task' = [task EXCEPT ![p] = k], TaskFits(k, Len(checkpoints), rollbacks)
  PROVE  HeightInv'
<1>1. ChainFits(checkpoints', rollbacks') /\ Len(checkpoints') = Len(checkpoints)
  BY DEF HeightInv
<1>2. Len(checkpoints) + rollbacks <= Len(checkpoints') + rollbacks'
  BY <1>1 DEF HeightInv, ChainFits
<1> QED BY <1>1, <1>2, ChainSteps

LEMMA HeightFrame ==
  ASSUME HeightInv, UNCHANGED <<checkpoints, rollbacks, task>>
  PROVE  HeightInv'
BY DEF HeightInv
LEMMA IdleFits ==
  ASSUME NEW k, NEW n, NEW r, Settled(k) PROVE TaskFits(k, n, r)
BY DEF TaskFits, Settled

LEMMA BeginKeepsHeights ==
  ASSUME HeightInv, NEW p \in Task, NEW v \in Variants, NEW content \in SUBSET Sent, NEW listed,
         BeginApply(p, v, content, listed)
  PROVE  HeightInv'
<1> DEFINE k == [Idle EXCEPT !.pc = "taken", !.cp = <<Local + 1, v>>,
                       !.list = IF listed THEN content ELSE {},
                       !.hashes = IF listed \/ content \subseteq {t \in Tx : dag[t] = "pending"}
                                  THEN content ELSE {},
                       !.deferred = Unexpired(deferred), !.retries = retries]
<1>1. UNCHANGED <<checkpoints, rollbacks>> /\ task' = [task EXCEPT ![p] = k]
  BY DEF BeginApply
<1>2. /\ Local \in Nat /\ Local <= Len(checkpoints) + rollbacks
      /\ Len(checkpoints) \in Nat /\ rollbacks \in Nat
  BY LocalFacts DEF HeightInv, ChainFits
<1>3. DOMAIN k = TaskFields /\ k.cp = <<Local + 1, v>> /\ k.list = IF listed THEN content ELSE {}
  BY DEF Idle, TaskFields
<1>4. content \subseteq Tx
  BY LedgerAssumption
<1> HIDE DEF k
<1>5. TaskFits(k, Len(checkpoints), rollbacks)
  BY <1>2, <1>3, <1>4 DEF TaskFits
<1> QED BY <1>1, <1>5, TaskMoves

LEMMA Phase1KeepsHeights ==
  ASSUME HeightInv, NEW p \in Task, Phase1(p)
  PROVE  HeightInv'
<1>1. UNCHANGED <<checkpoints, rollbacks>> /\ task[p].pc = "taken"
  BY DEF Phase1
<1>2. PICK k : /\ task' = [task EXCEPT ![p] = k] /\ DOMAIN k = TaskFields
               /\ k.cp = task[p].cp /\ k.list = task[p].list
  <2>1. DOMAIN task[p] = TaskFields
    BY DEF HeightInv, TaskFits
  <2>2. PICK fast, txs, special, kept :
          task' = [task EXCEPT ![p] = [task[p] EXCEPT !.pc = "marked", !.fast = fast, !.txs = txs,
                                                     !.special = special, !.deferred = kept]]
    BY DEF Phase1
  <2> DEFINE k == [task[p] EXCEPT !.pc = "marked", !.fast = fast, !.txs = txs,
                                  !.special = special, !.deferred = kept]
  <2>3. DOMAIN k = TaskFields /\ k.cp = task[p].cp /\ k.list = task[p].list
    BY <2>1 DEF TaskFields
  <2>4. task' = [task EXCEPT ![p] = k]
    BY <2>2
  <2> HIDE DEF k
  <2> QED BY <2>3, <2>4
<1>3. TaskFits(k, Len(checkpoints), rollbacks)
  BY <1>1, <1>2 DEF HeightInv, TaskFits
<1> QED BY <1>1, <1>2, <1>3, TaskMoves

(* A checkpoint of the next height, or of one that was next at some        *)
(* rollback ago, is pushed.                                                *)
LEMMA PushKeepsHeights ==
  ASSUME HeightInv, NEW p \in Task, NEW h \in Nat, NEW v \in Variants, NEW content \in SUBSET Tx,
         h > Local, h <= Len(checkpoints) + 1 + rollbacks, UNCHANGED rollbacks,
         checkpoints' = Append(checkpoints, [height |-> h, variant |-> v, hashes |-> content]),
         NEW k, Settled(k), task' = [task EXCEPT ![p] = k]
  PROVE  HeightInv'
<1> DEFINE e == [height |-> h, variant |-> v, hashes |-> content]
<1>1. e \in Entry /\ e.height = h
  BY DEF Entry
<1>2. /\ ChainFits(checkpoints, rollbacks) /\ Len(checkpoints) \in Nat /\ rollbacks \in Nat
      /\ Local \in Nat /\ Len(checkpoints) <= Local
      /\ \A i \in 1..Len(checkpoints) : checkpoints[i].height <= Local
  BY LocalFacts DEF HeightInv, ChainFits
<1>3. \A i \in 1..Len(checkpoints) : checkpoints[i].height \in Nat
  <2>1. \A i \in 1..Len(checkpoints) : checkpoints[i] \in Entry
    BY <1>2 DEF ChainFits
  <2> QED BY <2>1, HeightsAreNat
<1>4. \A i \in 1..Len(checkpoints) : checkpoints[i].height < e.height
  BY <1>1, <1>2, <1>3
<1>5. checkpoints' = Append(checkpoints, e)
  OBVIOUS
<1> HIDE DEF e
<1>6. ChainFits(checkpoints', rollbacks') /\ Len(checkpoints') = Len(checkpoints) + 1
  BY <1>1, <1>2, <1>4, <1>5, AppendFits
<1>7. TaskFits(k, Len(checkpoints'), rollbacks')
  BY IdleFits
<1>8. Len(checkpoints) + rollbacks <= Len(checkpoints') + rollbacks'
  BY <1>2, <1>6
<1> QED BY <1>6, <1>7, <1>8, ChainSteps

(* Every batch ends its application's work on the chain. *)
LEMMA ExecutedSettles ==
  ASSUME NEW p, NEW k, NEW r, NEW kept, Executed(p, k, r, kept)
  PROVE  \E t : Settled(t) /\ task' = [task EXCEPT ![p] = t]
<1>1. PICK late, rest, hashes, left, special, fast :
        task' = [task EXCEPT ![p] = [Idle EXCEPT !.pc = "executed", !.late = late, !.retries = rest,
                   !.hashes = hashes, !.deferred = left, !.special = special, !.fast = fast]]
  BY DEF Executed
<1> QED BY <1>1 DEF Settled, Idle, TaskFields

LEMMA Phase2KeepsHeights ==
  ASSUME HeightInv, NEW p \in Task, Phase2(p)
  PROVE  HeightInv'
<1>1. task[p].pc = "marked" /\ task[p].cp[1] > Local /\ UNCHANGED rollbacks
  BY DEF Phase2
<1>2. checkpoints' = Append(checkpoints, [height |-> task[p].cp[1], variant |-> task[p].cp[2],
                                          hashes |-> task[p].list])
  BY DEF Phase2
<1>3. PICK k : Settled(k) /\ task' = [task EXCEPT ![p] = k]
  BY ExecutedSettles DEF Phase2
<1>4. /\ task[p].cp[1] \in Nat /\ task[p].cp[1] <= Len(checkpoints) + 1 + rollbacks
      /\ task[p].cp[2] \in Variants /\ task[p].list \in SUBSET Tx
  BY <1>1 DEF HeightInv, TaskFits
<1> QED BY <1>1, <1>2, <1>3, <1>4, PushKeepsHeights

LEMMA ProposerKeepsHeights ==
  ASSUME HeightInv, NEW p \in Task, NEW v \in Variants, NEW content \in SUBSET Sent,
         ProposerApply(p, v, content)
  PROVE  HeightInv'
<1>1. /\ UNCHANGED rollbacks
      /\ checkpoints' = Append(checkpoints, [height |-> Local + 1, variant |-> v, hashes |-> content])
  BY DEF ProposerApply
<1>2. PICK k : Settled(k) /\ task' = [task EXCEPT ![p] = k]
  BY ExecutedSettles DEF ProposerApply
<1>3. /\ Local \in Nat /\ Local <= Len(checkpoints) + rollbacks
      /\ Len(checkpoints) \in Nat /\ rollbacks \in Nat
  BY LocalFacts DEF HeightInv, ChainFits
<1>4. Local + 1 \in Nat /\ Local + 1 > Local /\ Local + 1 <= Len(checkpoints) + 1 + rollbacks
  BY <1>3
<1>5. content \in SUBSET Tx
  BY LedgerAssumption
<1> QED BY <1>1, <1>2, <1>4, <1>5, PushKeepsHeights

LEMMA RollbackKeepsHeights ==
  ASSUME HeightInv, NEW v, RollbackLastCheckpoint(v)
  PROVE  HeightInv'
<1>1. checkpoints # <<>> /\ checkpoints' = Front(checkpoints) /\ rollbacks' = rollbacks + 1 /\ UNCHANGED task
  BY DEF RollbackLastCheckpoint
<1>2. ChainFits(checkpoints', rollbacks') /\ Len(checkpoints') = Len(checkpoints) - 1
  BY <1>1, FrontFits DEF HeightInv
<1>3. Len(checkpoints) \in Nat /\ rollbacks \in Nat
  BY DEF HeightInv, ChainFits
<1>4. \A p \in Task : TaskFits(task'[p], Len(checkpoints'), rollbacks')
  BY <1>1, <1>2, <1>3 DEF HeightInv, TaskFits
<1> QED BY <1>1, <1>2, <1>4 DEF HeightInv

(* The steps of an application that leave the chain alone. *)
LEMMA TailKeepsHeights ==
  ASSUME HeightInv, NEW p \in Task,
         \/ Phase1Stale(p) \/ Phase2Stale(p) \/ LateExecute(p) \/ LateFinalize(p)
         \/ StoreBatchDeferred(p) \/ SpecialRewards(p) \/ SpecialCredits(p)
         \/ ReconcileRead(p) \/ ReconcileWrite(p)
         \/ \E i \in 1..Len(checkpoints) : LateSyncPush(p, i)
  PROVE  HeightInv'
<1>1. UNCHANGED <<checkpoints, rollbacks>>
  BY DEF Phase1Stale, Phase2Stale, Abort, LateExecute, LateFinalize, StoreBatchDeferred, SpecialRewards,
         SpecialCredits, ReconcileRead, ReconcileWrite, LateSyncPush, chain
<1>2. \E k : Settled(k) /\ task' = [task EXCEPT ![p] = k]
  <2>1. DOMAIN task[p] = TaskFields
    BY DEF HeightInv, TaskFits
  <2>2. CASE Phase1Stale(p) \/ Phase2Stale(p) \/ LateFinalize(p) \/ ReconcileWrite(p)
    BY <2>2 DEF Phase1Stale, Phase2Stale, Abort, LateFinalize, ReconcileWrite, Idle, Settled, TaskFields
  <2>3. CASE LateExecute(p)
    BY <2>3, ExecutedSettles DEF LateExecute
  <2>4. CASE StoreBatchDeferred(p)
    <3>1. PICK pc \in {"settled", "stored"} :
            task' = [task EXCEPT ![p] = [task[p] EXCEPT !.pc = pc, !.deferred = <<>>, !.retries = <<>>]]
      BY <2>4 DEF StoreBatchDeferred
    <3> QED BY <2>1, <3>1 DEF Settled, TaskFields
  <2>5. CASE SpecialRewards(p)
    <3>1. PICK credits : task' = [task EXCEPT ![p] = [task[p] EXCEPT !.pc = "credits", !.credits = credits,
                                                                    !.special = <<>>]]
      BY <2>5 DEF SpecialRewards
    <3> QED BY <2>1, <3>1 DEF Settled, TaskFields
  <2>6. CASE SpecialCredits(p)
    <3>1. task' = [task EXCEPT ![p] = [task[p] EXCEPT !.pc = "settled", !.credits = NoCredits]]
      BY <2>6 DEF SpecialCredits
    <3> QED BY <2>1, <3>1 DEF Settled, TaskFields
  <2>7. CASE ReconcileRead(p)
    <3>1. PICK staked : task' = [task EXCEPT ![p] = [Idle EXCEPT !.pc = "read", !.staked = staked]]
      BY <2>7 DEF ReconcileRead
    <3> QED BY <3>1 DEF Settled, Idle, TaskFields
  <2>8. CASE \E i \in 1..Len(checkpoints) : LateSyncPush(p, i)
    <3>1. PICK content, txs : task' = [task EXCEPT ![p] = [Idle EXCEPT !.pc = "late", !.late = TRUE,
                                         !.hashes = content, !.retries = retries, !.txs = txs]]
      BY <2>8 DEF LateSyncPush
    <3> QED BY <3>1 DEF Settled, Idle, TaskFields
  <2> QED BY <2>2, <2>3, <2>4, <2>5, <2>6, <2>7, <2>8
<1> QED BY <1>1, <1>2, IdleFits, TaskMoves

LEMMA HeightInvStep == ASSUME HeightInv, [Next]_vars PROVE HeightInv'
<1>1. CASE \/ \E S \in SUBSET Sent \ {{}} : FastPathBatch(S)
           \/ \E batch \in registrations : RegisterFastPathStakes(batch)
           \/ \E a \in Addr : CooldownPasses(a)
           \/ \E t \in Sent : AddToDag(t)
           \/ PurgeZombieDagTxs \/ PurgeStaleDeferredTxs \/ UNCHANGED vars
  BY <1>1, HeightFrame DEF FastPathBatch, RegisterFastPathStakes, CooldownPasses, AddToDag,
                           PurgeZombieDagTxs, PurgeStaleDeferredTxs, vars, chain
<1>2. ASSUME NEW p \in Task, NEW v \in Variants, NEW content \in SUBSET Sent \ {{}},
             (\E listed \in BOOLEAN : BeginApply(p, v, content, listed)) \/ ProposerApply(p, v, content)
      PROVE  HeightInv'
  BY <1>2, BeginKeepsHeights, ProposerKeepsHeights
<1>3. CASE \E v \in Variants : RollbackLastCheckpoint(v)
  BY <1>3, RollbackKeepsHeights
<1> QED BY <1>1, <1>2, <1>3, Phase1KeepsHeights, Phase2KeepsHeights, TailKeepsHeights DEF Next

(* Whatever the transactions and however fast-path batches, checkpoint     *)
(* applications in their two phases, late pushes and fork resolutions      *)
(* interleave, the heights of the chain ascend and at most one is left out *)
(* per rollback_last_checkpoint: without fork resolution there is no hole  *)
(* (apply_checkpoint_with_finalized_hashes, state/checkpoints.rs).         *)
THEOREM HeightsInvariance == Spec => []HolesNeedRollbacks
<1>1. Init => HeightInv
  <2> SUFFICES ASSUME Init PROVE HeightInv
    OBVIOUS
  <2>1. checkpoints = <<>> /\ rollbacks = 0 /\ task = [p \in Task |-> Idle]
    BY DEF Init
  <2>2. ChainFits(<<>>, 0)
    BY DEF ChainFits
  <2>3. Settled(Idle)
    BY DEF Settled, Idle, TaskFields
  <2> QED BY <2>1, <2>2, <2>3, IdleFits DEF HeightInv
<1>2. HeightInv /\ [Next]_vars => HeightInv'
  BY HeightInvStep
<1>3. HeightInv => HolesNeedRollbacks
  <2> SUFFICES ASSUME HeightInv PROVE HolesNeedRollbacks
    OBVIOUS
  <2>1. \A i \in 1..Len(checkpoints) : checkpoints[i].height \in Nat
    <3>1. \A i \in 1..Len(checkpoints) : checkpoints[i] \in Entry
      BY DEF HeightInv, ChainFits
    <3> QED BY <3>1, HeightsAreNat
  <2> QED BY <2>1 DEF HeightInv, ChainFits, HolesNeedRollbacks
<1> QED BY <1>1, <1>2, <1>3, PTL DEF Spec
=============================================================================
