----------------------------- MODULE PushRetry ------------------------------
(***************************************************************************)
(* How a proposer pushes its checkpoints to its peers (rinku-node/src/     *)
(* gossip.rs).  Every checkpoint has a task that offers it to all peers;   *)
(* the peers that did not acknowledge go to push_retry_queue, which the    *)
(* checkpoint loop takes, works through without the lock, and puts back    *)
(* what failed again while other tasks add to it.                          *)
(***************************************************************************)
EXTENDS Integers, Sequences, FiniteSets, SequencesExt

CONSTANTS
  PushPeer,   \* connected peers
  MaxHeight,  \* bound: checkpoints created
  MaxRetries, \* MAX_RETRY_QUEUE_SIZE
  MaxAttempts \* MAX_ATTEMPTS

VARIABLES
  height,     \* the proposer's checkpoint height
  pushing,    \* heights whose push task runs
  retries,    \* push_retry_queue
  taken,      \* entries the loop has taken and not looked at
  failed,     \* entries it will put back (requeue)
  seenHeight, \* local_height read by the loop
  tried       \* how often a peer was offered a height, up to MaxAttempts + 1

pushVars == <<height, pushing, retries, taken, failed, seenHeight, tried>>

Offer == PushPeer \X (1..MaxHeight)

PushInit ==
  /\ height = 0 /\ pushing = {} /\ retries = <<>> /\ taken = <<>> /\ failed = <<>>
  /\ seenHeight = 0 /\ tried = [o \in Offer |-> 0]

(* push_checkpoint_to_peers spawns the task. *)
CreateCheckpoint ==
  /\ height < MaxHeight /\ height' = height + 1
  /\ pushing' = pushing \union {height + 1}
  /\ UNCHANGED <<retries, taken, failed, seenHeight, tried>>

(* sort_by_key on the height is stable; the lowest heights are drained. *)
ByHeight(q) ==
  FlattenSeq([h \in 1..MaxHeight |-> SelectSeq(q, LAMBDA e : e.height = h)])

Capped(q) ==
  IF Len(q) <= MaxRetries THEN q
  ELSE LET sorted == ByHeight(q) IN SubSeq(sorted, 1 + Len(q) - MaxRetries, Len(q))

(* A NACK, another answer, a closed channel, a timeout and a failed send   *)
(* are all failures.                                                       *)
EndPush(h, F) ==
  LET entry(p) == [peer |-> p, height |-> h, attempts |-> 1, recent |-> TRUE]
      added == SetToSeq({entry(p) : p \in F})
  IN /\ h \in pushing /\ pushing' = pushing \ {h}
     /\ retries' = IF F = {} THEN retries ELSE Capped(retries \o added)
     /\ tried' = [o \in Offer |-> tried[o] + IF o[2] = h THEN 1 ELSE 0]
     /\ UNCHANGED <<height, taken, failed, seenHeight>>

(* drain_push_retries *)
TakeRetries ==
  /\ taken = <<>> /\ failed = <<>> /\ retries # <<>>
  /\ taken' = retries /\ retries' = <<>>
  /\ seenHeight' = height
  /\ UNCHANGED <<height, pushing, failed, tried>>

(* Two heights back, out of attempts, or older than MAX_AGE_SECS. *)
GivesUp(e, expired) == e.height < seenHeight - 2 \/ e.attempts >= MaxAttempts \/ expired

(* Mutant: a failed retry is put back as it was. *)
FailedAgainUncounted(e) == [e EXCEPT !.recent = TRUE]

FailedAgain(e) == [e EXCEPT !.attempts = @ + 1, !.recent = TRUE]

(* One entry: an attempt less than RETRY_INTERVAL_MS ago is not repeated.  *)
RetryPush(expired, acked) ==
  LET e == Head(taken)
      offer == <<e.peer, e.height>>
  IN /\ taken # <<>> /\ taken' = Tail(taken)
     /\ IF GivesUp(e, expired) THEN UNCHANGED <<failed, tried>>
        ELSE IF e.recent THEN failed' = Append(failed, e) /\ UNCHANGED tried
        ELSE /\ tried' = [tried EXCEPT ![offer] = Min({@ + 1, MaxAttempts + 1})]
             /\ failed' = IF acked THEN failed ELSE Append(failed, FailedAgain(e))
     /\ UNCHANGED <<height, pushing, retries, seenHeight>>

PutBack ==
  /\ taken = <<>> /\ failed # <<>>
  /\ retries' = Capped(retries \o failed)
  /\ failed' = <<>>
  /\ UNCHANGED <<height, pushing, taken, seenHeight, tried>>

Rested(q) == [i \in 1..Len(q) |-> [q[i] EXCEPT !.recent = FALSE]]

IntervalPasses ==
  /\ \E e \in Range(retries \o taken \o failed) : e.recent
  /\ retries' = Rested(retries) /\ taken' = Rested(taken) /\ failed' = Rested(failed)
  /\ UNCHANGED <<height, pushing, seenHeight, tried>>

RetryStep == \E expired, acked \in BOOLEAN : RetryPush(expired, acked)

PushNext ==
  \/ CreateCheckpoint
  \/ \E h \in pushing, F \in SUBSET PushPeer : EndPush(h, F)
  \/ TakeRetries \/ RetryStep \/ PutBack \/ IntervalPasses

-----------------------------------------------------------------------------
(* A peer is offered a checkpoint at most MAX_ATTEMPTS times, the first    *)
(* push included, although entries leave the queue, are worked on without  *)
(* the lock and come back to a queue other tasks have filled.              *)
AttemptsBounded == \A o \in Offer : tried[o] <= MaxAttempts

(* The attempts are bounded, and once no checkpoint is created any more    *)
(* the retries come to an end: a peer that never answers does not keep the *)
(* queue busy.                                                             *)
RetriesEnd == []AttemptsBounded /\ []<>(retries = <<>> /\ taken = <<>> /\ failed = <<>>)
=============================================================================
