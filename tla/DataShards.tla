----------------------------- MODULE DataShards -----------------------------
(***************************************************************************)
(* Checkpoints whose bodies are too large for one message travel as an     *)
(* announcement and erasure-coded shards (rinku-node/src/gossip.rs and     *)
(* erasure.rs).  A node collects the shards of a height, early ones apart, *)
(* and decodes as soon as it holds as many as there are data shards.       *)
(*                                                                         *)
(* Handlers run concurrently and give up the lock between the collection,  *)
(* the decoding and the application.  Two checkpoints may compete at a     *)
(* height; messages are reordered, repeated and lost, never altered.       *)
(***************************************************************************)
EXTENDS Integers, Sequences, FiniteSets, SequencesExt, Maps

CONSTANTS
  Height,         \* heights announced (1..n)
  Fork,           \* the checkpoints competing at a height
  Validators,     \* number of validators when the shards were cut
  Handler,        \* concurrent message handlers
  MaxCollectors,  \* DA_COLLECTOR_MAX
  MaxEarly,       \* DA_EARLY_SHARD_MAX_PER_HEIGHT
  MaxEarlyHeights, \* DA_EARLY_SHARD_MAX_HEIGHTS
  MaxDecodeAttempts \* MAX_DECODE_ATTEMPTS, 3 in the code

VARIABLES
  local,      \* the node's checkpoint height
  collector,  \* da_collector: height -> what was collected
  early,      \* da_early_shards: height -> shards without an announcement
  handler,    \* what each handler is doing
  waiting     \* heights applied out of order, kept by the checkpoint buffer

shardVars == <<local, collector, early, handler, waiting>>

(* compute_shard_params *)
DataShardCount == ((IF Validators < 3 THEN 3 ELSE Validators) + 1) \div 2
ParityShardCount ==
  LET n == IF Validators < 3 THEN 3 ELSE Validators
  IN IF n - DataShardCount < 1 THEN 1 ELSE n - DataShardCount
Index == 0..(DataShardCount + ParityShardCount - 1)

NoTask == [pc |-> "idle", height |-> 0, fork |-> 0, shards |-> {}]

ShardsInit ==
  /\ local = 0 /\ collector = <<>> /\ early = <<>> /\ waiting = {}
  /\ handler = [p \in Handler |-> NoTask]

Try(p, h) == handler' = [handler EXCEPT ![p] = [NoTask EXCEPT !.pc = "try", !.height = h]]

Enough(shards) == Cardinality(shards) >= DataShardCount

(* At the limit the lowest height makes room. *)
MakeRoom(m) ==
  IF Cardinality(DOMAIN m) < MaxCollectors THEN m
  ELSE Without(m, {CHOOSE h \in DOMAIN m : \A g \in DOMAIN m : h <= g})

(* The early shards that belong to the announced checkpoint. *)
EarlyShards(h, f) == {s \in Range(GetOr(early, h, <<>>)) : s.fork = f}

(* Mutant: early shards alone never start the decoding. *)
CollectIdle(p, h, f) ==
  /\ collector' = Insert(MakeRoom(collector), h,
                         [fork |-> f, shards |-> EarlyShards(h, f), attempts |-> 0])
  /\ early' = Without(early, {h})
  /\ UNCHANGED handler

Collect(p, h, f) ==
  LET shards == EarlyShards(h, f)
  IN /\ collector' = Insert(MakeRoom(collector), h, [fork |-> f, shards |-> shards, attempts |-> 0])
     /\ early' = Without(early, {h})
     /\ IF Enough(shards) THEN Try(p, h) ELSE UNCHANGED handler

(* CheckpointAnnouncement with a commitment and no bodies. *)
ReceiveAnnouncement(p, h, f) ==
  /\ handler[p].pc = "idle"
  /\ h > local /\ h \notin DOMAIN collector
  /\ Collect(p, h, f)
  /\ UNCHANGED <<local, waiting>>

(* DaChunk, with a collector: a shard of the other checkpoint or one that  *)
(* is already there is dropped.                                            *)
CollectChunk(p, h, s) ==
  LET c == collector[h]
      shards == c.shards \union {s}
  IN /\ h \in DOMAIN collector
     /\ s.fork = c.fork /\ s \notin c.shards
     /\ collector' = [collector EXCEPT ![h].shards = shards]
     /\ IF Enough(shards) THEN Try(p, h) ELSE UNCHANGED handler
     /\ UNCHANGED early

(* DaChunk, without one: kept for the announcement, repetitions included.  *)
BufferChunk(h, s) ==
  LET kept == GetOr(early, h, <<>>)
  IN /\ h \notin DOMAIN collector
     /\ h \in DOMAIN early \/ Cardinality(DOMAIN early) < MaxEarlyHeights
     /\ Len(kept) < MaxEarly
     /\ early' = Insert(early, h, Append(kept, s))
     /\ UNCHANGED <<collector, handler>>

ReceiveChunk(p, h, s) ==
  /\ handler[p].pc = "idle"
  /\ h > local
  /\ CollectChunk(p, h, s) \/ BufferChunk(h, s)
  /\ UNCHANGED <<local, waiting>>

(* try_da_reconstruction, first lock: the shards are copied, and after     *)
(* MaxDecodeAttempts the collector is given up.                            *)
BeginDecode(p) ==
  LET h == handler[p].height
      c == collector[h]
  IN /\ handler[p].pc = "try"
     /\ IF h \notin DOMAIN collector
        THEN handler' = [handler EXCEPT ![p] = NoTask] /\ UNCHANGED collector
        ELSE IF c.attempts >= MaxDecodeAttempts
        THEN /\ handler' = [handler EXCEPT ![p] = NoTask]
             /\ collector' = Without(collector, {h})
        ELSE /\ handler' = [handler EXCEPT ![p] =
                  [pc |-> "decode", height |-> h, fork |-> c.fork, shards |-> c.shards]]
             /\ collector' = [collector EXCEPT ![h].attempts = @ + 1]
     /\ UNCHANGED <<local, early, waiting>>

(* erasure::decode checks every shard it is given against the commitment.  *)
Decodes(k) == Enough(k.shards) /\ \A s \in k.shards : s.fork = k.fork

EndDecode(p) ==
  LET k == handler[p]
  IN /\ k.pc = "decode"
     /\ IF Decodes(k)
        THEN /\ collector' = Without(collector, {k.height})
             /\ handler' = [handler EXCEPT ![p] = [k EXCEPT !.pc = "apply", !.shards = {}]]
        ELSE handler' = [handler EXCEPT ![p] = NoTask] /\ UNCHANGED collector
     /\ UNCHANGED <<local, early, waiting>>

(* apply_received_checkpoint: the next height is applied with what waited  *)
(* for it, a later one waits, an older one is ignored.                     *)
Drained(h) == Max({h} \union {g \in waiting : (h + 1)..g \subseteq waiting})

Apply(p) ==
  LET h == handler[p].height
  IN /\ handler[p].pc = "apply"
     /\ handler' = [handler EXCEPT ![p] = NoTask]
     /\ local' = IF h = local + 1 THEN Drained(h) ELSE local
     /\ waiting' = {g \in waiting \union {h} : g > local'}
     /\ UNCHANGED <<collector, early>>

(* cleanup_stale_da_collectors: heights reached, and collectors older than *)
(* DA_TIMEOUT_SECS (any of them may be).                                   *)
Cleanup(T) ==
  LET done == {h \in Height : h <= local}
      gone == done \union T
  IN /\ gone \intersect (DOMAIN collector \union DOMAIN early) # {}
     /\ T \subseteq DOMAIN collector
     /\ collector' = Without(collector, gone)
     /\ early' = Without(early, done)
     /\ UNCHANGED <<local, handler, waiting>>

ShardsNext ==
  \/ \E p \in Handler, h \in Height, f \in Fork :
       \/ ReceiveAnnouncement(p, h, f)
       \/ \E i \in Index : ReceiveChunk(p, h, [fork |-> f, index |-> i])
  \/ \E p \in Handler : BeginDecode(p) \/ EndDecode(p) \/ Apply(p)
  \/ \E T \in SUBSET Height : Cleanup(T)

ShardsSpec == ShardsInit /\ [][ShardsNext]_shardVars

-----------------------------------------------------------------------------
(* A collector that holds as many shards as there are data shards is being *)
(* decoded: no order of announcement, early shards and later shards leaves *)
(* a complete payload waiting for one more message.                        *)
EnoughShardsDecode ==
  \A h \in DOMAIN collector :
    Enough(collector[h].shards) =>
      \E p \in Handler : handler[p].height = h /\ handler[p].pc \in {"try", "decode"}

(* What is decoded are shards of the announced checkpoint only, although   *)
(* shards of two competing checkpoints arrive before and after the         *)
(* announcement and one shard of the other makes the decoding fail.        *)
DecodesOwnShards ==
  \A p \in Handler : \A s \in handler[p].shards : s.fork = handler[p].fork

(* The shards of a payload are decoded as soon as there are enough, and    *)
(* never mixed with those of a rival checkpoint.                           *)
ShardsDecode == EnoughShardsDecode /\ DecodesOwnShards
=============================================================================
