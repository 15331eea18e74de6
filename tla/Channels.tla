------------------------------ MODULE Channels ------------------------------
(***************************************************************************)
(* Messages in and out of a node: the coalescing event loop of             *)
(* rinku-node/src/network.rs, which buffers what broadcast and             *)
(* try_broadcast put into the outbound channel and publishes it by topic,  *)
(* and the three bounded inbound channels with the receivers of gossip.rs. *)
(* Gossipsub and the other branches of the loop are external.              *)
(***************************************************************************)
EXTENDS Integers, Sequences, FiniteSets, SequencesExt, FiniteSetsExt

CONSTANTS
  OutKind,         \* kinds of messages sent
  Batches,         \* gossip events received, each a sequence of kinds
  ChannelSize,     \* capacity of the outbound channel
  BufferCap,       \* OUTBOUND_BUFFER_CAP
  Sizes,           \* inbound channel -> capacity
  MaxSent,         \* bound: messages sent
  MaxReceived      \* bound: messages received

VARIABLES
  loop,      \* where the event loop is: "top" or "select"
  due,       \* the coalescing interval has passed since the last flush
  outbound,  \* outbound_rx: [kind, id]
  buffer,    \* outbound_buffer
  published, \* what gossipsub was given, in order: sequences of messages
  sent,      \* messages accepted by the outbound channel
  routing,   \* messages of the gossip event that are still to be routed
  inbound,   \* channel -> number of messages waiting
  tasks,     \* channel -> number of handlers spawned
  received,  \* messages received
  dropped    \* kinds dropped, and whether some channel had room

chanVars == <<loop, due, outbound, buffer, published, sent, routing, inbound, tasks, received,
              dropped>>

Channel == {"checkpoint", "priority", "regular"}

ChanInit ==
  /\ loop = "top" /\ due = FALSE
  /\ outbound = <<>> /\ buffer = <<>> /\ published = <<>> /\ sent = 0
  /\ routing = <<>> /\ received = 0 /\ dropped = {}
  /\ inbound = [c \in Channel |-> 0] /\ tasks = [c \in Channel |-> 0]

inVars == <<routing, inbound, tasks, received, dropped>>

-----------------------------------------------------------------------------
(* Sending.  broadcast waits for room and try_broadcast fails without it;  *)
(* either way a message enters only a channel with room.                   *)
Broadcast(kind) ==
  /\ sent < MaxSent /\ Len(outbound) < ChannelSize
  /\ sent' = sent + 1
  /\ outbound' = Append(outbound, [kind |-> kind, id |-> sent'])
  /\ UNCHANGED <<loop, due, buffer, published, inVars>>

(* publish_batched sorts by topic, in this order. *)
Topics == <<"priority", "critical", "consensus", "data", "general">>

Topic(kind) ==
  CASE kind = "QccVoteCast" -> "priority"
    [] kind = "CheckpointAnnouncement" -> "critical"
    [] kind = "TxConfirmAck" -> "consensus"
    [] kind = "DaChunk" -> "data"
    [] OTHER -> "general"

Critical(kind) == Topic(kind) \in {"priority", "critical", "data"}
HasCritical(messages) == \E i \in 1..Len(messages) : Critical(messages[i].kind)

(* Mutant: the newest messages first. *)
OfTopicReversed(messages, topic) == Reverse(SelectSeq(messages, LAMBDA m : Topic(m.kind) = topic))

OfTopic(messages, topic) == SelectSeq(messages, LAMBDA m : Topic(m.kind) = topic)

(* Several messages of the consensus or the general topic go as one Batch. *)
Publishes(messages, topic) ==
  LET own == OfTopic(messages, topic)
  IN IF own = <<>> THEN <<>>
     ELSE IF topic \in {"consensus", "general"} THEN <<own>>
     ELSE [i \in 1..Len(own) |-> <<own[i]>>]

PublishBatched(messages) ==
  FlattenSeq([t \in 1..Len(Topics) |-> Publishes(messages, Topics[t])])

(* Mutant: the interval is left to the sleep branch. *)
ShouldFlushUntimed(messages, timed) == HasCritical(messages) \/ Len(messages) >= BufferCap

ShouldFlush(messages, timed) ==
  HasCritical(messages) \/ Len(messages) >= BufferCap \/ (timed /\ messages # <<>>)

(* Moves the first messages, and then drain_outbound_to_buffer's: it looks *)
(* at the cap after each one, so one is taken even if the buffer is full.  *)
DrainAndFlush(first, timed) ==
  LET held == buffer \o SubSeq(outbound, 1, first)
      rest == SubSeq(outbound, first + 1, Len(outbound))
      n == Min({Len(rest), Max({1, BufferCap - Len(held)})})
      all == held \o SubSeq(rest, 1, n)
      flush == ShouldFlush(all, timed)
  IN /\ outbound' = SubSeq(rest, n + 1, Len(rest))
     /\ buffer' = IF flush THEN <<>> ELSE all
     /\ published' = IF flush THEN published \o PublishBatched(all) ELSE published
     /\ due' = (due /\ ~flush)

(* run_event_loop before the select ... *)
Top ==
  /\ loop = "top" /\ loop' = "select"
  /\ DrainAndFlush(0, due)
  /\ UNCHANGED <<sent, inVars>>

(* ... and its branches: a message, the end of the interval, or any other. *)
RecvOutbound ==
  /\ loop = "select" /\ loop' = "top"
  /\ outbound # <<>> /\ DrainAndFlush(1, FALSE)
  /\ UNCHANGED <<sent, inVars>>

SleepEnds ==
  /\ loop = "select" /\ loop' = "top"
  /\ due /\ buffer # <<>> /\ DrainAndFlush(0, TRUE)
  /\ UNCHANGED <<sent, inVars>>

OtherEvent ==
  /\ loop = "select" /\ loop' = "top"
  /\ UNCHANGED <<due, outbound, buffer, published, sent, inVars>>

IntervalPasses ==
  /\ ~due /\ due' = TRUE
  /\ UNCHANGED <<loop, outbound, buffer, published, sent, inVars>>

-----------------------------------------------------------------------------
(* Receiving.  A gossip event, possibly a Batch, is routed one message     *)
(* after the other while the receivers run.                                *)
GossipEvent(kinds) ==
  /\ loop = "select" /\ routing = <<>>
  /\ received + Len(kinds) <= MaxReceived
  /\ received' = received + Len(kinds)
  /\ routing' = kinds
  /\ UNCHANGED <<loop, due, outbound, buffer, published, sent, inbound, tasks, dropped>>

(* The channels that are tried for a message. *)
Fallback(kind) ==
  CASE kind = "CheckpointAnnouncement" -> <<"checkpoint", "priority", "regular">>
    [] kind \in {"QccVoteCast", "DaChunk"} -> <<"priority", "regular">>
    [] OTHER -> <<"regular">>

HasRoom(c) == inbound[c] < Sizes[c]

Route ==
  LET kind == Head(routing)
      open == SelectSeq(Fallback(kind), HasRoom)
  IN /\ routing # <<>> /\ routing' = Tail(routing)
     /\ IF open # <<>>
        THEN inbound' = [inbound EXCEPT ![open[1]] = @ + 1] /\ UNCHANGED dropped
        ELSE dropped' = dropped \union {[kind |-> kind, room |-> \E c \in Channel : HasRoom(c)]}
             /\ UNCHANGED inbound
     /\ loop' = IF Len(routing) = 1 THEN "top" ELSE loop
     /\ UNCHANGED <<due, outbound, buffer, published, sent, tasks, received>>

(* A receiver spawns a handler and does not wait for its permit; a regular *)
(* message is taken only when no priority message waits.                   *)
Spawn(c) ==
  /\ inbound[c] > 0
  /\ c = "regular" => inbound["priority"] = 0
  /\ inbound' = [inbound EXCEPT ![c] = @ - 1]
  /\ tasks' = [tasks EXCEPT ![c] = @ + 1]
  /\ UNCHANGED <<loop, due, outbound, buffer, published, sent, routing, received, dropped>>

Handled(c) ==
  /\ tasks[c] > 0
  /\ tasks' = [tasks EXCEPT ![c] = @ - 1]
  /\ UNCHANGED <<loop, due, outbound, buffer, published, sent, routing, inbound, received, dropped>>

ChanNext ==
  \/ \E kind \in OutKind : Broadcast(kind)
  \/ Top \/ RecvOutbound \/ SleepEnds \/ OtherEvent \/ IntervalPasses
  \/ \E kinds \in Batches : GossipEvent(kinds)
  \/ Route
  \/ \E c \in Channel : Spawn(c) \/ Handled(c)

-----------------------------------------------------------------------------
(* While the loop waits for its next event, which may be long, no vote,    *)
(* checkpoint or shard sits in the coalescing buffer.                      *)
CriticalNeverHeld ==
  loop = "select" =>
    /\ \A i \in 1..Len(buffer) : Topic(buffer[i].kind) \in {"consensus", "general"}
    /\ Len(buffer) < BufferCap

(* Coalescing keeps each topic in the order of the sends, across buffers,  *)
(* caps and batches, and loses or repeats nothing.                         *)
TopicOrder ==
  LET all == FlattenSeq(published) \o buffer \o outbound
  IN /\ {all[i].id : i \in 1..Len(all)} = 1..sent /\ Len(all) = sent
     /\ \A i, j \in 1..Len(all) :
          i < j /\ Topic(all[i].kind) = Topic(all[j].kind) => all[i].id < all[j].id

(* A checkpoint announcement is dropped only when all channels are full. *)
CheckpointKept == [kind |-> "CheckpointAnnouncement", room |-> TRUE] \notin dropped

(* Every accepted message is published, also when the other events of the  *)
(* loop never pause.                                                       *)
EveryMessagePublished == <>[](outbound = <<>> /\ buffer = <<>>)

(* The bounded channels and the coalescing buffer delay, reorder and drop  *)
(* only what they may.                                                     *)
ChannelsSound == CriticalNeverHeld /\ TopicOrder /\ CheckpointKept
=============================================================================
