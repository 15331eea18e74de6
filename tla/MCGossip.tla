------------------------------ MODULE MCGossip ------------------------------
(* What a node sends and receives, in lanes that `scenario` fixes in the   *)
(* initial state: the order of nonces that every path of execution keeps,  *)
(* the fast lane with certificates (votes) and with execution (lane), the  *)
(* data shards of competing checkpoints and of competing heights, the      *)
(* intake of transactions and of tips, the retries of pushed checkpoints,  *)
(* the peers, and the outgoing and the incoming channels.                  *)
EXTENDS MCNonceOrder, Connections, DataShards

CONSTANTS Scenarios

VARIABLES scenario,
  table, cached, known, dag, votes, pending, confirmed, inLane, bodies, fresh, queue, batch,
  accounts, pool, ahead, finalized, since, applied, certified, refused, laned, messages,
  checkpoints,
  knownTxs, stale, staleOrder, nonces, inDag, task, syncInFlight, syncing, quiet,
  height, pushing, retries, taken, failed, seenHeight, tried,
  loop, due, outbound, buffer, published, sent, routing, inbound, tasks, received, dropped

laneVars == <<table, cached, known, dag, votes, pending, confirmed, inLane, bodies, fresh, queue,
              batch, accounts, pool, ahead, finalized, since, applied, certified, refused, laned,
              messages, checkpoints>>
intakeVars == <<knownTxs, stale, staleOrder, nonces, inDag, task, syncInFlight, syncing, quiet>>
pushVars == <<height, pushing, retries, taken, failed, seenHeight, tried>>
chanVars == <<loop, due, outbound, buffer, published, sent, routing, inbound, tasks, received,
              dropped>>
netVars == <<connVars, chanVars>>
allVars == <<scenario, vars, laneVars, shardVars, intakeVars, pushVars, netVars>>

Transfer(from, to, n) ==
  [from |-> from, to |-> to, amount |-> 1, nonce |-> n, gas_price |-> 0, kind |-> "Transfer"]

Infos == 1 :> Transfer(1, 2, 0) @@ 2 :> Transfer(1, 2, 1) @@ 3 :> Transfer(2, 1, 0)
Balances == 1 :> 2 @@ 2 :> 0
Vals == {"s", "p", "q"}

V == INSTANCE FastLane WITH
  executed <- inLane,
  Tx <- {1, 2, 3}, Addr <- {1, 2}, TxInfo <- Infos, PoolCap <- 2,
  Validator <- Vals, Self <- "s",
  StakeTables <- <<"s" :> 1 @@ "p" :> 1 @@ "q" :> 3, "s" :> 0 @@ "p" :> 1 @@ "q" :> 2>>,
  PeerTx <- {1}, OwnTx <- {1}, Unacceptable <- {3}, Funds <- Balances,
  MaxMessages <- 3, MaxCheckpoints <- 0, MaxAhead <- 0, ChannelSize <- 2, MaxKnown <- 2,
  MaxQueue <- 2, MaxRequeue <- 1, MaxTracked <- 1

E == INSTANCE FastLane WITH
  executed <- inLane,
  Tx <- {1, 2, 3}, Addr <- {1, 2}, TxInfo <- Infos, PoolCap <- 2,
  Validator <- {"s", "p"}, Self <- "s",
  StakeTables <- <<"s" :> 1 @@ "p" :> 2>>,
  PeerTx <- {2}, OwnTx <- {1}, Unacceptable <- {3}, Funds <- Balances,
  MaxMessages <- 2, MaxCheckpoints <- 1, MaxAhead <- 1, ChannelSize <- 1, MaxKnown <- 2,
  MaxQueue <- 2, MaxRequeue <- 1, MaxTracked <- 1

\* Two heights compete for one collector, where otherwise two checkpoints of
\* one height do; three validators need as many data shards as four.
H == INSTANCE DataShards WITH
  Height <- {1, 2}, Fork <- {1}, Validators <- 3, MaxEarly <- 2, MaxDecodeAttempts <- 3

Senders == 1 :> "a" @@ 2 :> "a" @@ 3 :> "b" @@ 4 :> "b"
Nonces == 1 :> 0 @@ 2 :> 1 @@ 3 :> 0 @@ 4 :> 0

I == INSTANCE Intake WITH
  Transaction <- {1, 2, 3}, Sender <- Senders, NonceOf <- Nonces, System <- {},
  Peer <- {}, HttpPeer <- {},
  MaxNonce <- 2, MaxKnown <- 2, MaxStale <- 1

T == INSTANCE Intake WITH
  Transaction <- {4}, Sender <- Senders, NonceOf <- Nonces, System <- {4},
  Peer <- {"p", "q"}, HttpPeer <- {"h"},
  MaxNonce <- 0, MaxKnown <- 2, MaxStale <- 1

P == INSTANCE PushRetry WITH PushPeer <- {1}, MaxHeight <- 4, MaxRetries <- 2, MaxAttempts <- 2

Rooms == "checkpoint" :> 1 @@ "priority" :> 1 @@ "regular" :> 2

O == INSTANCE Channels WITH
  OutKind <- {"QccVoteCast", "TxConfirmAck", "TipAnnouncement"}, Batches <- {},
  ChannelSize <- 2, BufferCap <- 2, Sizes <- Rooms, MaxSent <- 4, MaxReceived <- 0

R == INSTANCE Channels WITH
  OutKind <- {}, Batches <- {<<"CheckpointAnnouncement">>, <<"QccVoteCast">>,
                             <<"TxConfirmAck", "TxConfirmAck">>},
  ChannelSize <- 2, BufferCap <- 2, Sizes <- Rooms, MaxSent <- 0, MaxReceived <- 6

GossipInit ==
  /\ scenario \in Scenarios /\ Init
  /\ V!FastLaneInit /\ ShardsInit /\ I!IntakeInit /\ P!PushInit
  /\ ConnInit /\ O!ChanInit

Lane(A) == A /\ UNCHANGED <<scenario, vars, shardVars, intakeVars, pushVars, netVars>>
Shards(A) == A /\ UNCHANGED <<scenario, vars, laneVars, intakeVars, pushVars, netVars>>
Messages(A) == A /\ UNCHANGED <<scenario, vars, laneVars, shardVars, pushVars, netVars>>
Push(A) == scenario = "push" /\ A /\ UNCHANGED <<scenario, vars, laneVars, shardVars, intakeVars, netVars>>
Peers(A) ==
  /\ scenario = "peers" /\ A
  /\ UNCHANGED <<scenario, vars, laneVars, shardVars, intakeVars, pushVars, chanVars>>
Chan(A) == A /\ UNCHANGED <<scenario, vars, laneVars, shardVars, intakeVars, pushVars, connVars>>
Out(A) == scenario = "outbound" /\ Chan(A)

GossipNext ==
 \/ scenario = "nonces" /\ Next /\ UNCHANGED <<scenario, laneVars, shardVars, intakeVars, pushVars, netVars>>
 \/ scenario = "votes" /\ Lane(V!FastLaneNext)
 \/ scenario = "lane" /\ Lane(E!FastLaneNext)
 \/ scenario = "forks" /\ Shards(ShardsNext)
 \/ scenario = "heights" /\ Shards(H!ShardsNext)
 \/ scenario = "transactions" /\ Messages(I!IntakeNext)
 \/ scenario = "tips" /\ Messages(T!IntakeNext)
 \/ Push(P!PushNext)
 \/ Peers(ConnNext)
 \/ Out(O!ChanNext)
 \/ scenario = "inbound" /\ Chan(R!ChanNext)

GossipSpec ==
  /\ GossipInit /\ [][GossipNext]_allVars
  /\ WF_allVars(Push(P!TakeRetries)) /\ WF_allVars(Push(P!RetryStep))
  /\ WF_allVars(Push(P!PutBack)) /\ WF_allVars(Push(P!IntervalPasses))
  /\ WF_allVars(Out(O!Top)) /\ WF_allVars(Out(O!RecvOutbound)) /\ WF_allVars(Out(O!SleepEnds))
  /\ WF_allVars(Out(O!IntervalPasses))

(* See the properties of FastLane, Intake, PushRetry and Channels.         *)
LaneSafety == IF scenario = "lane" THEN E!LaneSafety ELSE V!LaneSafety
IntakeSound ==
  /\ scenario = "transactions" => I!IntakeSound
  /\ scenario = "tips" => T!IntakeSound
RetriesEnd == scenario = "push" => P!RetriesEnd
ChannelsSound ==
  /\ scenario = "outbound" => O!ChannelsSound
  /\ scenario = "inbound" => R!ChannelsSound
EveryMessagePublished == scenario = "outbound" => O!EveryMessagePublished
=============================================================================
