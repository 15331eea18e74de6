---------------------------- MODULE GossipProofs ----------------------------
(***************************************************************************)
(* What a node keeps about its peers' messages: the fast-path votes, for   *)
(* every set of transactions, validators and stakes; the shards of         *)
(* checkpoints, which are decoded as soon as there are enough and never    *)
(* mixed, for any heights, competing checkpoints and limits; and the       *)
(* peers themselves.  The three share no variable.                         *)
(***************************************************************************)
EXTENDS FastPathService, Connections, DataShards, TLAPS

-----------------------------------------------------------------------------
(* Fast-path votes.                                                        *)

\* register_fast_path_tx, both critical sections of add_ack_checked and
\* mark_finalized keep the two maps of the tracker disjoint.
THEOREM DisjointInvariance == Spec => []PendingConfirmedDisjoint
<1>1. Init => PendingConfirmedDisjoint
  BY DEF Init, PendingConfirmedDisjoint
<1>2. PendingConfirmedDisjoint /\ [Next]_vars => PendingConfirmedDisjoint'
  <2> SUFFICES ASSUME PendingConfirmedDisjoint, [Next]_vars
               PROVE  PendingConfirmedDisjoint'
    OBVIOUS
  <2> USE DEF PendingConfirmedDisjoint
  <2>1. ASSUME NEW s \in TotalStakes, UpdateTotalStake(s)
        PROVE  PendingConfirmedDisjoint'
    BY <2>1 DEF UpdateTotalStake
  <2>2. ASSUME NEW t \in Tx, RegisterFastPathTx(t)
        PROVE  PendingConfirmedDisjoint'
    BY <2>2 DEF RegisterFastPathTx, Insert
  <2>3. ASSUME NEW t \in Tx, NEW v \in Validator, AddAck(t, v)
        PROVE  PendingConfirmedDisjoint'
    BY <2>3 DEF AddAck, Insert
  <2>4. ASSUME NEW t \in Tx, MoveConfirmed(t)
        PROVE  PendingConfirmedDisjoint'
    BY <2>4 DEF MoveConfirmed, Insert, Without, Restrict
  <2>5. ASSUME NEW t \in Tx, MarkFinalized(t)
        PROVE  PendingConfirmedDisjoint'
    <3>1. DOMAIN confirmed_txs' = DOMAIN confirmed_txs
      BY <2>5 DEF MarkFinalized
    <3>2. DOMAIN pending_txs' \subseteq DOMAIN pending_txs
      BY <2>5 DEF MarkFinalized, Without, Restrict
    <3>3. QED
      BY <3>1, <3>2
  <2>6. CASE CleanupOldConfirmed
    BY <2>6 DEF CleanupOldConfirmed, Without, Restrict
  <2>7. CASE CleanupTimedOutPending
    BY <2>7 DEF CleanupTimedOutPending, Without, Restrict
  <2>8. CASE Tick \/ UNCHANGED vars
    BY <2>8 DEF Tick, vars
  <2>9. QED
    BY <2>1, <2>2, <2>3, <2>4, <2>5, <2>6, <2>7, <2>8 DEF Next
<1>3. QED
  BY <1>1, <1>2, PTL DEF Spec

-----------------------------------------------------------------------------
(* Types and the acknowledged stake.                                       *)

AckInv == TypeOK /\ AckedStakeCountedOnce

\* An entry as add_ack_checked leaves it, for a validator that is not yet in
\* its ACKs, is well formed and has counted that validator's stake once more.
LEMMA AckedFacts ==
  ASSUME now \in 0 .. MaxTime, NEW f \in Finality, NEW v \in Validator, v \notin f.acks,
         f.total_stake_acked = AckStake[f.acks]
  PROVE  Acked(f, v) \in Finality /\ Acked(f, v).total_stake_acked = AckStake[Acked(f, v).acks]
<1> DEFINE total == f.total_stake_acked + AckStake[{v}]
           first == IF f.acks = {} THEN now ELSE f.first_ack_ms
           g == [f EXCEPT !.total_stake_acked = total, !.acks = @ \cup {v}, !.first_ack_ms = first]
<1>1. total \in Nat /\ total = AckStake[f.acks \cup {v}]
  BY FastPathAssumption DEF Finality
<1>2. g \in Finality /\ g.total_stake_acked = AckStake[g.acks]
  BY <1>1 DEF Finality
<1>3. [g EXCEPT !.status = "Confirmed", !.confirmed_at_ms = now] \in Finality
  BY <1>2 DEF Finality
<1>4. Acked(f, v) = IF total >= f.quorum_stake_required /\ f.status = "Pending"
                    THEN [g EXCEPT !.status = "Confirmed", !.confirmed_at_ms = now] ELSE g
  BY DEF Acked
<1>5. [g EXCEPT !.status = "Confirmed", !.confirmed_at_ms = now].total_stake_acked =
        AckStake[[g EXCEPT !.status = "Confirmed", !.confirmed_at_ms = now].acks]
  BY <1>2 DEF Finality
<1>6. QED
  BY <1>2, <1>3, <1>4, <1>5

\* The entries of a map, each well formed and counted once.
Sound(m) ==
  /\ IsMap(m, Tx, Finality)
  /\ \A t \in DOMAIN m : m[t].total_stake_acked = AckStake[m[t].acks]

Books ==
  /\ Sound(pending_txs) /\ Sound(confirmed_txs)
  /\ total_validator_stake \in {0} \cup TotalStakes
  /\ movers \in [Tx -> 0 .. MaxMovers] /\ now \in 0 .. MaxTime

LEMMA AckInvSound == (AckInv <=> Books) /\ (AckInv' <=> Books')
  BY DEF AckInv, TypeOK, AckedStakeCountedOnce, Books, Sound, Range

LEMMA SoundInsert ==
  ASSUME NEW m, Sound(m), NEW t \in Tx, NEW f \in Finality, f.total_stake_acked = AckStake[f.acks]
  PROVE  Sound(Insert(m, t, f))
  BY DEF Sound, Insert, IsMap

LEMMA SoundWithout ==
  ASSUME NEW m, Sound(m), NEW K PROVE Sound(Without(m, K))
  BY DEF Sound, Without, Restrict, IsMap

LEMMA QuorumRequiredIsNat ==
  ASSUME NEW s \in Nat PROVE QuorumRequired(s) \in Nat
  BY DEF QuorumRequired

LEMMA AckInvStep == AckInv /\ [Next]_vars => AckInv'
<1> SUFFICES ASSUME AckInv, [Next]_vars PROVE AckInv'
  OBVIOUS
<1>0. /\ Sound(pending_txs) /\ Sound(confirmed_txs)
      /\ total_validator_stake \in {0} \cup TotalStakes /\ total_validator_stake \in Nat
      /\ movers \in [Tx -> 0 .. MaxMovers] /\ now \in 0 .. MaxTime
      /\ MaxMovers \in Nat /\ MaxTime \in Nat
  BY AckInvSound, FastPathAssumption DEF Books
<1>1. ASSUME NEW s \in TotalStakes, UpdateTotalStake(s) PROVE AckInv'
  BY <1>0, <1>1, AckInvSound DEF UpdateTotalStake, Books
<1>2. ASSUME NEW t \in Tx, RegisterFastPathTx(t) PROVE AckInv'
  <2> DEFINE f == [status |-> "Pending", acks |-> {}, total_stake_acked |-> 0,
                   quorum_stake_required |-> QuorumRequired(total_validator_stake),
                   first_ack_ms |-> NoTime, confirmed_at_ms |-> NoTime]
  <2>1. f \in Finality /\ f.total_stake_acked = AckStake[f.acks]
    BY <1>0, QuorumRequiredIsNat, FastPathAssumption DEF Finality
  <2>2. Sound(Insert(pending_txs, t, f))
    BY <1>0, <2>1, SoundInsert
  <2>3. pending_txs' = Insert(pending_txs, t, f) /\ UNCHANGED <<confirmed_txs, total_validator_stake, movers, now>>
    BY <1>2 DEF RegisterFastPathTx
  <2>4. QED
    BY <1>0, <2>2, <2>3, AckInvSound DEF Books
<1>3. ASSUME NEW t \in Tx, NEW v \in Validator, AddAck(t, v) PROVE AckInv'
  <2> DEFINE g == Acked(pending_txs[t], v)
  <2>1. /\ t \in DOMAIN pending_txs /\ v \notin pending_txs[t].acks
        /\ pending_txs' = Insert(pending_txs, t, g)
        /\ \/ movers[t] < MaxMovers /\ movers' = [movers EXCEPT ![t] = @ + 1]
           \/ movers' = movers
        /\ UNCHANGED <<confirmed_txs, total_validator_stake, now>>
    BY <1>3 DEF AddAck
  <2>2. g \in Finality /\ g.total_stake_acked = AckStake[g.acks]
    BY <1>0, <2>1, AckedFacts DEF Sound, IsMap
  <2>3. movers' \in [Tx -> 0 .. MaxMovers]
    BY <1>0, <2>1
  <2>4. QED
    BY <1>0, <2>1, <2>2, <2>3, SoundInsert, AckInvSound DEF Books
<1>4. ASSUME NEW t \in Tx, MoveConfirmed(t) PROVE AckInv'
  <2>1. /\ movers[t] > 0 /\ movers' = [movers EXCEPT ![t] = @ - 1]
        /\ UNCHANGED <<total_validator_stake, now>>
        /\ \/ /\ t \in DOMAIN pending_txs
              /\ confirmed_txs' = Insert(confirmed_txs, t, pending_txs[t])
              /\ pending_txs' = Without(pending_txs, {t})
           \/ UNCHANGED <<pending_txs, confirmed_txs>>
    BY <1>4 DEF MoveConfirmed
  <2>2. movers' \in [Tx -> 0 .. MaxMovers]
    BY <1>0, <2>1
  <2>3. t \in DOMAIN pending_txs =>
          pending_txs[t] \in Finality /\ pending_txs[t].total_stake_acked = AckStake[pending_txs[t].acks]
    BY <1>0 DEF Sound, IsMap
  <2>4. Sound(pending_txs') /\ Sound(confirmed_txs')
    BY <1>0, <2>1, <2>3, SoundInsert, SoundWithout
  <2>5. QED
    BY <1>0, <2>1, <2>2, <2>4, AckInvSound DEF Books
<1>5. ASSUME NEW t \in Tx, MarkFinalized(t) PROVE AckInv'
  <2>1. Sound(pending_txs')
    BY <1>0, <1>5, SoundWithout DEF MarkFinalized
  <2>2. CASE t \in DOMAIN confirmed_txs
    <3>1. confirmed_txs' = [confirmed_txs EXCEPT ![t].status = "Finalized"]
      BY <1>5, <2>2 DEF MarkFinalized
    <3>2. /\ DOMAIN confirmed_txs' = DOMAIN confirmed_txs
          /\ confirmed_txs'[t] = [confirmed_txs[t] EXCEPT !.status = "Finalized"]
          /\ \A u \in DOMAIN confirmed_txs \ {t} : confirmed_txs'[u] = confirmed_txs[u]
      BY <2>2, <3>1
    <3>3. confirmed_txs'[t] \in Finality /\ confirmed_txs'[t].acks = confirmed_txs[t].acks
          /\ confirmed_txs'[t].total_stake_acked = confirmed_txs[t].total_stake_acked
      BY <1>0, <2>2, <3>2 DEF Sound, IsMap, Finality
    <3>4. Sound(confirmed_txs')
      BY <1>0, <2>2, <3>2, <3>3 DEF Sound, IsMap
    <3>5. QED
      BY <1>0, <1>5, <2>1, <3>4, AckInvSound DEF MarkFinalized, Books
  <2>3. CASE t \notin DOMAIN confirmed_txs
    BY <1>0, <1>5, <2>1, <2>3, AckInvSound DEF MarkFinalized, Books
  <2>4. QED
    BY <2>2, <2>3
<1>6. CASE CleanupOldConfirmed
  BY <1>0, <1>6, SoundWithout, AckInvSound DEF CleanupOldConfirmed, Books
<1>7. CASE CleanupTimedOutPending
  BY <1>0, <1>7, SoundWithout, AckInvSound DEF CleanupTimedOutPending, Books
<1>8. CASE Tick
  BY <1>0, <1>8, AckInvSound DEF Tick, Books
<1>9. CASE UNCHANGED vars
  BY <1>0, <1>9, AckInvSound DEF vars, Books
<1>10. QED
  BY <1>1, <1>2, <1>3, <1>4, <1>5, <1>6, <1>7, <1>8, <1>9 DEF Next

\* For any validators and stakes, whatever ACKs are repeated, late or racing with
\* clean-up, re-registration and finalization, every entry is well formed and the
\* stake add_ack_checked has counted for it is that of distinct validators.
THEOREM AckedStakeInvariance == Spec => [](TypeOK /\ AckedStakeCountedOnce)
<1>1. Init => AckInv
  BY FastPathAssumption DEF Init, AckInv, TypeOK, AckedStakeCountedOnce, IsMap, Range
<1>2. QED
  BY <1>1, AckInvStep, PTL DEF Spec, AckInv

-----------------------------------------------------------------------------

\* mark_finalized is final: no late ACK, no late move of add_ack_checked and no
\* registration takes Finalized from an entry, for it is no longer pending.
THEOREM FinalizedStaysFinal == Spec => FinalizedIsFinal
<1> DEFINE Kept == \A t \in DOMAIN confirmed_txs :
             confirmed_txs[t].status = "Finalized" =>
               \/ t \notin DOMAIN confirmed_txs' /\ CleanupOldConfirmed
               \/ t \in DOMAIN confirmed_txs' /\ confirmed_txs'[t].status = "Finalized"
<1>1. TypeOK /\ PendingConfirmedDisjoint /\ [Next]_vars => [Kept]_vars
  <2> SUFFICES ASSUME TypeOK, PendingConfirmedDisjoint, Next,
                      NEW u \in DOMAIN confirmed_txs, confirmed_txs[u].status = "Finalized"
               PROVE  \/ u \notin DOMAIN confirmed_txs' /\ CleanupOldConfirmed
                      \/ u \in DOMAIN confirmed_txs' /\ confirmed_txs'[u].status = "Finalized"
    OBVIOUS
  <2>1. CASE confirmed_txs' = confirmed_txs
    BY <2>1
  <2>2. ASSUME NEW t \in Tx, MoveConfirmed(t), t \in DOMAIN pending_txs
        PROVE  u \in DOMAIN confirmed_txs' /\ confirmed_txs'[u].status = "Finalized"
    <3>1. u # t
      BY <2>2 DEF PendingConfirmedDisjoint
    <3>2. QED
      BY <2>2, <3>1 DEF MoveConfirmed, Insert
  <2>3. ASSUME NEW t \in Tx, MarkFinalized(t), t \in DOMAIN confirmed_txs
        PROVE  u \in DOMAIN confirmed_txs' /\ confirmed_txs'[u].status = "Finalized"
    <3>1. confirmed_txs' = [confirmed_txs EXCEPT ![t].status = "Finalized"]
      BY <2>3 DEF MarkFinalized
    <3>2. confirmed_txs[t] \in Finality
      BY <2>3 DEF TypeOK, IsMap
    <3>3. QED
      BY <3>1, <3>2 DEF Finality
  <2>4. CASE CleanupOldConfirmed
    BY <2>4 DEF CleanupOldConfirmed, Without, Restrict
  <2>5. QED
    BY <2>1, <2>2, <2>3, <2>4 DEF Next, UpdateTotalStake, RegisterFastPathTx, MoveConfirmed,
       MarkFinalized, AddAck, CleanupTimedOutPending, Tick
<1>2. QED
  BY <1>1, DisjointInvariance, AckedStakeInvariance, PTL DEF Spec, FinalizedIsFinal

-----------------------------------------------------------------------------
(* Shards.                                                                 *)

TaskFields == {"pc", "height", "fork", "shards"}
CollectorFields == {"fork", "shards", "attempts"}

OfFork(shards, f) == \A s \in shards : s.fork = f

TasksSound ==
  /\ handler = [p \in Handler |-> handler[p]]
  /\ \A p \in Handler : DOMAIN handler[p] = TaskFields /\ OfFork(handler[p].shards, handler[p].fork)

CollectorSound(c) == DOMAIN c = CollectorFields /\ OfFork(c.shards, c.fork)

(* A task that will take the collector of h away, or has not read it yet.  *)
(* A task that decodes too few shards is none: the collector it copied was *)
(* cleaned up after it was filled, and another announcement came.          *)
Serves(k, h) == k.height = h /\ (k.pc = "try" \/ (k.pc = "decode" /\ Decodes(k)))

Served == \A h \in DOMAIN collector :
            Enough(collector[h].shards) => \E p \in Handler : Serves(handler[p], h)

ShardsInv ==
  /\ TasksSound /\ Served
  /\ \A h \in DOMAIN collector : CollectorSound(collector[h])

(* A task that serves nobody takes another one on, or none. *)
LEMMA TaskMoves ==
  ASSUME TasksSound, NEW p \in Handler, NEW k, handler' = [handler EXCEPT ![p] = k],
         DOMAIN k = TaskFields, OfFork(k.shards, k.fork)
  PROVE  /\ TasksSound'
         /\ handler'[p] = k /\ \A q \in Handler \ {p} : handler'[q] = handler[q]
<1>1. handler'[p] = k /\ \A q \in Handler \ {p} : handler'[q] = handler[q]
  BY DEF TasksSound
<1>2. handler' = [q \in Handler |-> handler'[q]]
  BY DEF TasksSound
<1> QED BY <1>1, <1>2 DEF TasksSound

LEMMA NoTaskSound ==
  /\ DOMAIN NoTask = TaskFields /\ OfFork(NoTask.shards, NoTask.fork)
  /\ \A h : LET k == [NoTask EXCEPT !.pc = "try", !.height = h]
            IN DOMAIN k = TaskFields /\ OfFork(k.shards, k.fork) /\ k.height = h /\ k.pc = "try"
BY DEF NoTask, TaskFields, OfFork

(* Everything but one height is collected as before, or no longer. *)
Kept(h) == \A g \in DOMAIN collector' \ {h} : g \in DOMAIN collector /\ collector'[g] = collector[g]

(* What an announcement or a chunk leaves at its height is taken up by its *)
(* own handler when there are enough shards.                               *)
LEMMA CollectSteps ==
  ASSUME ShardsInv, NEW p \in Handler, NEW h, handler[p].pc = "idle", Kept(h), h \in DOMAIN collector',
         CollectorSound(collector'[h]),
         IF Enough(collector'[h].shards) THEN Try(p, h) ELSE UNCHANGED handler
  PROVE  ShardsInv'
<1>1. \A g \in DOMAIN collector' : CollectorSound(collector'[g])
  BY DEF ShardsInv, Kept
<1>2. CASE Enough(collector'[h].shards)
  <2> DEFINE k == [NoTask EXCEPT !.pc = "try", !.height = h]
  <2>1. handler' = [handler EXCEPT ![p] = k]
    BY <1>2 DEF Try
  <2>2. DOMAIN k = TaskFields /\ OfFork(k.shards, k.fork) /\ k.height = h /\ k.pc = "try"
    BY NoTaskSound
  <2> HIDE DEF k
  <2>3. Serves(k, h)
    BY <2>2 DEF Serves
  <2>4. TasksSound' /\ handler'[p] = k /\ \A q \in Handler \ {p} : handler'[q] = handler[q]
    BY <2>1, <2>2, TaskMoves DEF ShardsInv
  <2>5. ASSUME NEW g \in DOMAIN collector', Enough(collector'[g].shards)
        PROVE  \E q \in Handler : Serves(handler'[q], g)
    <3>1. CASE g = h
      BY <2>3, <2>4, <3>1
    <3>2. CASE g # h
      <4>1. PICK q \in Handler : Serves(handler[q], g)
        BY <2>5, <3>2 DEF ShardsInv, Served, Kept
      <4>2. q # p
        BY <4>1 DEF Serves
      <4> QED BY <2>4, <4>1, <4>2
    <3> QED BY <3>1, <3>2
  <2>6. Served'
    BY <2>5 DEF Served, Enough, Serves, Decodes
  <2> QED BY <1>1, <2>4, <2>6 DEF ShardsInv
<1>3. CASE ~Enough(collector'[h].shards)
  <2>1. UNCHANGED handler
    BY <1>3
  <2>2. ASSUME NEW g \in DOMAIN collector', Enough(collector'[g].shards)
        PROVE  \E q \in Handler : Serves(handler'[q], g)
    <3>1. g # h
      BY <1>3, <2>2
    <3> QED BY <2>1, <2>2, <3>1 DEF ShardsInv, Served, Kept
  <2>3. Served'
    BY <2>2 DEF Served, Enough, Serves, Decodes
  <2> QED BY <1>1, <2>1, <2>3 DEF ShardsInv, TasksSound
<1> QED BY <1>2, <1>3

LEMMA AnnouncementSteps ==
  ASSUME ShardsInv, NEW p \in Handler, NEW h \in Height, NEW f \in Fork, ReceiveAnnouncement(p, h, f)
  PROVE  ShardsInv'
<1> DEFINE c == [fork |-> f, shards |-> EarlyShards(h, f), attempts |-> 0]
<1>1. handler[p].pc = "idle" /\ collector' = Insert(MakeRoom(collector), h, c)
  BY DEF ReceiveAnnouncement, Collect
<1>2. \A g \in DOMAIN MakeRoom(collector) : g \in DOMAIN collector /\ MakeRoom(collector)[g] = collector[g]
  BY DEF MakeRoom, Without, Restrict
<1>3. Kept(h) /\ h \in DOMAIN collector' /\ collector'[h] = c
  <2>1. /\ DOMAIN collector' = DOMAIN MakeRoom(collector) \cup {h} /\ collector'[h] = c
        /\ \A g \in DOMAIN MakeRoom(collector) \ {h} : collector'[g] = MakeRoom(collector)[g]
    <3> HIDE DEF c
    <3> QED BY <1>1 DEF Insert
  <2> QED BY <1>2, <2>1 DEF Kept
<1>4. CollectorSound(c) /\ c.shards = EarlyShards(h, f)
  BY DEF CollectorSound, CollectorFields, OfFork, EarlyShards
<1>5. IF Enough(c.shards) THEN Try(p, h) ELSE UNCHANGED handler
  BY <1>4 DEF ReceiveAnnouncement, Collect
<1> HIDE DEF c
<1>6. /\ CollectorSound(collector'[h])
      /\ IF Enough(collector'[h].shards) THEN Try(p, h) ELSE UNCHANGED handler
  BY <1>3, <1>4, <1>5
<1> QED BY <1>1, <1>3, <1>6, CollectSteps

LEMMA ChunkSteps ==
  ASSUME ShardsInv, NEW p \in Handler, NEW h \in Height, NEW s, ReceiveChunk(p, h, s)
  PROVE  ShardsInv'
<1>1. CASE CollectChunk(p, h, s)
  <2> DEFINE c == [collector[h] EXCEPT !.shards = collector[h].shards \cup {s}]
  <2>1. /\ handler[p].pc = "idle" /\ h \in DOMAIN collector /\ s.fork = collector[h].fork
        /\ CollectorSound(collector[h])
    BY <1>1 DEF ReceiveChunk, CollectChunk, ShardsInv
  <2>2. CollectorSound(c) /\ c.shards = collector[h].shards \cup {s}
    BY <2>1 DEF CollectorSound, CollectorFields, OfFork
  <2>3. collector' = [collector EXCEPT ![h] = c]
    BY <1>1 DEF CollectChunk
  <2>4. IF Enough(c.shards) THEN Try(p, h) ELSE UNCHANGED handler
    BY <1>1, <2>2 DEF CollectChunk
  <2> HIDE DEF c
  <2>5. Kept(h) /\ h \in DOMAIN collector' /\ collector'[h] = c
    BY <2>1, <2>3 DEF Kept
  <2>6. /\ CollectorSound(collector'[h])
        /\ IF Enough(collector'[h].shards) THEN Try(p, h) ELSE UNCHANGED handler
    BY <2>2, <2>4, <2>5
  <2> QED BY <2>1, <2>5, <2>6, CollectSteps
<1>2. CASE BufferChunk(h, s)
  BY <1>2 DEF BufferChunk, ShardsInv, TasksSound, Served, Serves, Decodes, Enough
<1> QED BY <1>1, <1>2 DEF ReceiveChunk

(* A task that ends serving its height, or serves none: what the others    *)
(* serve stays served.                                                     *)
LEMMA ServiceEnds ==
  ASSUME ShardsInv, NEW p \in Handler, NEW k, handler' = [handler EXCEPT ![p] = k],
         DOMAIN k = TaskFields, OfFork(k.shards, k.fork),
         \A g \in DOMAIN collector' : /\ g \in DOMAIN collector /\ CollectorSound(collector'[g])
                                      /\ collector'[g].shards = collector[g].shards
                                      /\ Serves(handler[p], g) /\ Enough(collector[g].shards)
                                         => Serves(k, g)
  PROVE  ShardsInv'
<1>1. TasksSound' /\ handler'[p] = k /\ \A q \in Handler \ {p} : handler'[q] = handler[q]
  BY TaskMoves DEF ShardsInv
<1>2. ASSUME NEW g \in DOMAIN collector', Enough(collector'[g].shards)
      PROVE  \E q \in Handler : Serves(handler'[q], g)
  <2>1. Enough(collector[g].shards) /\ g \in DOMAIN collector
    BY <1>2
  <2>2. PICK q \in Handler : Serves(handler[q], g)
    BY <2>1 DEF ShardsInv, Served
  <2> QED BY <1>1, <2>1, <2>2
<1>3. Served'
  BY <1>2 DEF Served, Enough, Serves, Decodes
<1> QED BY <1>1, <1>3 DEF ShardsInv

LEMMA BeginDecodeSteps ==
  ASSUME ShardsInv, NEW p \in Handler, BeginDecode(p)
  PROVE  ShardsInv'
<1> DEFINE h == handler[p].height
           c == collector[h]
<1>1. handler[p].pc = "try"
  BY DEF BeginDecode
<1>2. \A g \in DOMAIN collector : CollectorSound(collector[g])
  BY DEF ShardsInv
<1>3. \A g : Serves(handler[p], g) => g = h
  BY DEF Serves
<1>4. CASE h \notin DOMAIN collector
  <2>1. handler' = [handler EXCEPT ![p] = NoTask] /\ UNCHANGED collector
    BY <1>4 DEF BeginDecode
  <2>2. \A g \in DOMAIN collector : ~Serves(handler[p], g)
    BY <1>3, <1>4
  <2>3. \A g \in DOMAIN collector' : /\ g \in DOMAIN collector /\ CollectorSound(collector'[g])
                                     /\ collector'[g].shards = collector[g].shards
    BY <1>2, <2>1
  <2> QED BY <2>1, <2>2, <2>3, NoTaskSound, ServiceEnds
<1>5. CASE h \in DOMAIN collector /\ c.attempts >= MaxDecodeAttempts
  <2>1. handler' = [handler EXCEPT ![p] = NoTask]
    BY <1>5 DEF BeginDecode
  <2>2. DOMAIN collector' = DOMAIN collector \ {h} /\ \A g \in DOMAIN collector' : collector'[g] = collector[g]
    BY <1>5 DEF BeginDecode, Without, Restrict
  <2> QED BY <1>2, <1>3, <2>1, <2>2, NoTaskSound, ServiceEnds
<1>6. CASE h \in DOMAIN collector /\ ~(c.attempts >= MaxDecodeAttempts)
  <2> DEFINE k == [pc |-> "decode", height |-> h, fork |-> c.fork, shards |-> c.shards]
             d == [c EXCEPT !.attempts = @ + 1]
  <2>1. handler' = [handler EXCEPT ![p] = k] /\ collector' = [collector EXCEPT ![h] = d]
    BY <1>6 DEF BeginDecode
  <2>2. DOMAIN k = TaskFields /\ OfFork(k.shards, k.fork) /\ k.shards = c.shards
    BY <1>2, <1>6 DEF CollectorSound, TaskFields
  <2>3. Enough(c.shards) => Serves(k, h)
    BY <2>2 DEF Serves, Decodes, OfFork
  <2>4. CollectorSound(d) /\ d.shards = c.shards
    BY <1>2, <1>6 DEF CollectorSound, CollectorFields
  <2> HIDE DEF k, d
  <2>5. DOMAIN collector' = DOMAIN collector /\ collector'[h] = d
        /\ \A g \in DOMAIN collector \ {h} : collector'[g] = collector[g]
    BY <1>6, <2>1
  <2>6. \A g \in DOMAIN collector' : /\ g \in DOMAIN collector /\ CollectorSound(collector'[g])
                                     /\ collector'[g].shards = collector[g].shards
    BY <1>2, <2>4, <2>5
  <2>7. \A g : Serves(handler[p], g) /\ Enough(collector[g].shards) => Serves(k, g)
    BY <1>3, <2>3
  <2> QED BY <2>1, <2>2, <2>6, <2>7, ServiceEnds
<1> QED BY <1>4, <1>5, <1>6

LEMMA EndDecodeSteps ==
  ASSUME ShardsInv, NEW p \in Handler, EndDecode(p) \/ Apply(p)
  PROVE  ShardsInv'
<1> DEFINE k == handler[p]
<1>1. DOMAIN k = TaskFields /\ \A g \in DOMAIN collector : CollectorSound(collector[g])
  BY DEF ShardsInv, TasksSound
<1>2. CASE EndDecode(p) /\ Decodes(k)
  <2> DEFINE t == [k EXCEPT !.pc = "apply", !.shards = {}]
  <2>1. handler' = [handler EXCEPT ![p] = t]
    BY <1>2 DEF EndDecode
  <2>2. DOMAIN collector' = DOMAIN collector \ {k.height}
        /\ \A g \in DOMAIN collector' : collector'[g] = collector[g]
    BY <1>2 DEF EndDecode, Without, Restrict
  <2>3. DOMAIN t = TaskFields /\ OfFork(t.shards, t.fork)
    BY <1>1 DEF TaskFields, OfFork
  <2>4. \A g : Serves(k, g) => g = k.height
    BY DEF Serves
  <2> HIDE DEF t
  <2> QED BY <1>1, <2>1, <2>2, <2>3, <2>4, ServiceEnds
<1>3. CASE (EndDecode(p) /\ ~Decodes(k)) \/ Apply(p)
  <2>1. handler' = [handler EXCEPT ![p] = NoTask] /\ UNCHANGED collector
    BY <1>3 DEF EndDecode, Apply
  <2>2. \A g : ~Serves(k, g)
    BY <1>3 DEF Serves, EndDecode, Apply
  <2> QED BY <1>1, <2>1, <2>2, NoTaskSound, ServiceEnds
<1> QED BY <1>2, <1>3

LEMMA CleanupSteps ==
  ASSUME ShardsInv, NEW T, Cleanup(T)
  PROVE  ShardsInv'
<1>1. UNCHANGED handler
  BY DEF Cleanup
<1>2. \A g \in DOMAIN collector' : g \in DOMAIN collector /\ collector'[g] = collector[g]
  BY DEF Cleanup, Without, Restrict
<1>3. Served'
  BY <1>1, <1>2 DEF ShardsInv, Served, Serves, Decodes, Enough
<1> QED BY <1>1, <1>2, <1>3 DEF ShardsInv, TasksSound

(* Whatever the order, repetition and loss of announcements and chunks of  *)
(* competing checkpoints, the limits, decoding attempts and timeouts, a    *)
(* collector with as many shards as there are data shards is being         *)
(* decoded, and no shard of the rival is decoded with them                 *)
(* (try_da_reconstruction, cleanup_stale_da_collectors, gossip.rs).        *)
THEOREM ShardsInvariance == ShardsSpec => []ShardsDecode
<1>1. ShardsInit => ShardsInv
  BY NoTaskSound DEF ShardsInit, ShardsInv, TasksSound, Served
<1>2. ShardsInv /\ [ShardsNext]_shardVars => ShardsInv'
  <2> SUFFICES ASSUME ShardsInv, [ShardsNext]_shardVars PROVE ShardsInv'
    OBVIOUS
  <2>1. CASE UNCHANGED shardVars
    BY <2>1 DEF shardVars, ShardsInv, TasksSound, Served, Serves, Decodes, Enough
  <2> QED BY <2>1, AnnouncementSteps, ChunkSteps, BeginDecodeSteps, EndDecodeSteps, CleanupSteps
          DEF ShardsNext
<1>3. ShardsInv => ShardsDecode
  BY DEF ShardsInv, TasksSound, Served, Serves, OfFork, ShardsDecode, EnoughShardsDecode, DecodesOwnShards
<1> QED BY <1>1, <1>2, <1>3, PTL DEF ShardsSpec

-----------------------------------------------------------------------------
(* No ghost peers.  A handshake validates an entry only over an open       *)
(* connection, and every close drops the entry; in between the table of    *)
(* peers and the connections are changed by different handlers.            *)

ConnType ==
  /\ links \in [Peer -> Nat]
  /\ IsMap(entries, Peer, [validated : BOOLEAN, failures : Nat])

GhostInv == ConnType /\ ValidatedIsConnected

(* A step that keeps the connections and validates nobody. *)
LEMMA QuietStep ==
  ASSUME GhostInv, UNCHANGED links,
         IsMap(entries', Peer, [validated : BOOLEAN, failures : Nat]),
         \A p \in DOMAIN entries' : entries'[p].validated => Validated(p)
  PROVE  GhostInv'
BY DEF GhostInv, ConnType, ValidatedIsConnected, Validated, Connected

(* A new entry is not validated. *)
LEMMA KnownFacts ==
  ASSUME GhostInv, NEW p \in Peer
  PROVE  /\ IsMap(Known(entries, p), Peer, [validated : BOOLEAN, failures : Nat])
         /\ p \in DOMAIN Known(entries, p)
         /\ \A q \in DOMAIN Known(entries, p) : Known(entries, p)[q].validated => Validated(q)
BY DEF GhostInv, ConnType, Known, Insert, IsMap, Entry, Validated

LEMMA EstablishedKeeps ==
  ASSUME GhostInv, NEW p \in Peer, NEW labelled, Established(p, labelled)
  PROVE  GhostInv'
<1>1. /\ IsMap(entries', Peer, [validated : BOOLEAN, failures : Nat])
      /\ \A q \in DOMAIN entries' : entries'[q].validated => Validated(q)
  <2>1. CASE Admitted(p)
    BY <2>1, KnownFacts DEF Established
  <2>2. CASE ~Admitted(p)
    BY <2>2 DEF Established, GhostInv, ConnType, Validated
  <2> QED BY <2>1, <2>2
<1>2. links' \in [Peer -> Nat] /\ \A q \in Peer : links'[q] >= links[q]
  BY DEF Established, GhostInv, ConnType
<1> QED
  BY <1>1, <1>2 DEF GhostInv, ConnType, ValidatedIsConnected, Validated, Connected

LEMMA CloseLinkKeeps ==
  ASSUME GhostInv, NEW p \in Peer, CloseLink(p)
  PROVE  GhostInv'
<1>1. links' = [links EXCEPT ![p] = @ - 1] /\ links[p] > 0 /\ entries' = Without(entries, {p})
  BY DEF CloseLink, Forget, Connected
<1>2. links' \in [Peer -> Nat] /\ \A q \in Peer \ {p} : links'[q] = links[q]
  BY <1>1 DEF GhostInv, ConnType
<1>3. /\ DOMAIN entries' = DOMAIN entries \ {p}
      /\ \A q \in DOMAIN entries' : entries'[q] = entries[q]
      /\ IsMap(entries', Peer, [validated : BOOLEAN, failures : Nat])
  BY <1>1 DEF Without, Restrict, IsMap, GhostInv, ConnType
<1> QED
  BY <1>2, <1>3 DEF GhostInv, ConnType, ValidatedIsConnected, Validated, Connected

LEMMA HandshakeKeeps ==
  ASSUME GhostInv, NEW p \in Peer, NEW told,
         HandshakeAnswered(p, told) \/ HandshakeReceived(p, told)
  PROVE  GhostInv'
<1>1. Connected(p) /\ UNCHANGED links
  BY DEF HandshakeAnswered, HandshakeReceived
<1>2. /\ IsMap(entries', Peer, [validated : BOOLEAN, failures : Nat])
      /\ \A q \in DOMAIN entries' \ {p} : entries'[q].validated => Validated(q)
  <2>1. CASE HandshakeAnswered(p, told)
    <3>1. CASE p \in DOMAIN entries
      <4>1. entries' = [entries EXCEPT ![p] = [validated |-> TRUE, failures |-> 0]]
        BY <2>1, <3>1 DEF HandshakeAnswered
      <4>2. /\ DOMAIN entries' = DOMAIN entries
            /\ entries'[p] = [validated |-> TRUE, failures |-> 0]
            /\ \A q \in DOMAIN entries \ {p} : entries'[q] = entries[q]
        BY <3>1, <4>1
      <4>3. [validated |-> TRUE, failures |-> 0] \in [validated : BOOLEAN, failures : Nat]
        OBVIOUS
      <4>4. \A q \in DOMAIN entries' : entries'[q] \in [validated : BOOLEAN, failures : Nat]
        BY <4>2, <4>3 DEF GhostInv, ConnType, IsMap
      <4>5. \A q \in DOMAIN entries' \ {p} : entries'[q].validated => Validated(q)
        BY <4>2 DEF Validated
      <4> QED BY <4>2, <4>4, <4>5 DEF GhostInv, ConnType, IsMap
    <3>2. CASE p \notin DOMAIN entries
      BY <2>1, <3>2 DEF HandshakeAnswered, GhostInv, ConnType, Validated
    <3> QED BY <3>1, <3>2
  <2>2. CASE HandshakeReceived(p, told)
    <3>1. entries' = [Known(entries, p) EXCEPT ![p].validated = TRUE]
      BY <2>2 DEF HandshakeReceived
    <3> QED BY <3>1, KnownFacts DEF IsMap
  <2> QED BY <2>1, <2>2
<1> QED
  BY <1>1, <1>2 DEF GhostInv, ConnType, ValidatedIsConnected, Validated, Connected, IsMap

(* Answers and failures of requests only count. *)
LEMMA RequestKeeps ==
  ASSUME GhostInv, NEW p \in Peer, RequestAnswered(p) \/ RequestFails(p)
  PROVE  GhostInv'
<1>1. UNCHANGED links
  BY DEF RequestAnswered, RequestFails
<1>2. \/ entries' = entries
      \/ /\ p \in DOMAIN entries
         /\ \E k \in Nat : entries' = [entries EXCEPT ![p].failures = k]
  BY DEF RequestAnswered, RequestFails, GhostInv, ConnType, IsMap
<1>3. /\ IsMap(entries', Peer, [validated : BOOLEAN, failures : Nat])
      /\ \A q \in DOMAIN entries' : entries'[q].validated => Validated(q)
  BY <1>2 DEF GhostInv, ConnType, IsMap, Validated
<1> QED BY <1>1, <1>3, QuietStep

LEMMA GhostInvStep == GhostInv /\ [ConnNext]_connVars => GhostInv'
<1> SUFFICES ASSUME GhostInv, [ConnNext]_connVars PROVE GhostInv'
  OBVIOUS
<1>0. CASE UNCHANGED <<links, entries>>
  BY <1>0, QuietStep DEF GhostInv, ConnType, Validated
<1>1. ASSUME NEW p \in Peer, DialSucceeds(p) \/ PeerDials(p) PROVE GhostInv'
  BY <1>1, EstablishedKeeps DEF DialSucceeds, PeerDials
<1>2. ASSUME NEW p \in Peer, Closed(p) \/ LinkLost(p) PROVE GhostInv'
  BY <1>2, CloseLinkKeeps DEF Closed, LinkLost
<1>3. ASSUME NEW p \in Peer, NEW told, HandshakeAnswered(p, told) \/ HandshakeReceived(p, told)
      PROVE  GhostInv'
  BY <1>3, HandshakeKeeps
<1>4. ASSUME NEW p \in Peer, RequestAnswered(p) \/ RequestFails(p) PROVE GhostInv'
  BY <1>4, RequestKeeps
<1>5. ASSUME NEW p \in Peer, MdnsDiscovered(p) PROVE GhostInv'
  BY <1>5, KnownFacts, QuietStep DEF MdnsDiscovered
<1>6. ASSUME NEW p \in Peer, MdnsExpired(p) PROVE GhostInv'
  <2>1. UNCHANGED links /\ entries' = Without(entries, {p})
    BY <1>6 DEF MdnsExpired
  <2>2. /\ IsMap(entries', Peer, [validated : BOOLEAN, failures : Nat])
        /\ \A q \in DOMAIN entries' : entries'[q].validated => Validated(q)
    BY <2>1 DEF Without, Restrict, IsMap, GhostInv, ConnType, Validated
  <2> QED BY <2>1, <2>2, QuietStep
<1>7. ASSUME NEW p \in Peer, NEW depleted,
             \/ DialFails(p) \/ BadRequest(p, depleted) \/ UnhandshakedGossip(p, depleted)
             \/ BanExpires(p) \/ SendRequest(p)
      PROVE  UNCHANGED <<links, entries>>
  BY <1>7 DEF DialFails, BadRequest, UnhandshakedGossip, BanExpires, SendRequest
<1>8. CASE ProcessReconnect \/ Maintenance
  BY <1>8, <1>0 DEF ProcessReconnect, Maintenance, MeshMaintenance
<1>9. CASE UNCHANGED connVars
  BY <1>9, <1>0 DEF connVars
<1> QED
  BY <1>0, <1>1, <1>2, <1>3, <1>4, <1>5, <1>6, <1>7, <1>8, <1>9 DEF ConnNext

(* For any peers, limits, ban and failure thresholds: a peer the node      *)
(* counts as validated, and so sends votes, pushes and synchronisation     *)
(* requests to, has an open connection, however its connections,       *)
(* handshakes, failures and mDNS events of network.rs interleave.          *)
THEOREM NoGhostPeers == ConnSpec => []ValidatedIsConnected
<1>1. ConnInit => GhostInv
  BY DEF ConnInit, GhostInv, ConnType, ValidatedIsConnected, Validated, IsMap
<1>2. GhostInv => ValidatedIsConnected
  BY DEF GhostInv
<1> QED BY <1>1, <1>2, GhostInvStep, PTL DEF ConnSpec
=============================================================================
