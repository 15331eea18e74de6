------------------------------- MODULE Intake -------------------------------
(***************************************************************************)
(* What a node does with two gossip messages (handle_message in            *)
(* rinku-node/src/gossip.rs): a transaction, which goes to the state once  *)
(* and is remembered, and a peer's tip announcement, which may start a     *)
(* background synchronisation.  Handlers run concurrently and take the     *)
(* service's lock several times per message.                               *)
(***************************************************************************)
EXTENDS Integers, Sequences, FiniteSets, SequencesExt, Maps

CONSTANTS
  Transaction,  \* transactions peers send
  Sender,       \* Transaction -> address
  NonceOf,      \* Transaction -> nonce
  System,       \* transactions of kind System
  Peer,         \* peers that announce a larger DAG under their P2P id
  HttpPeer,     \* peers that announce it under an HTTP URL
  Handler,      \* concurrent message handlers
  MaxNonce,     \* bound: nonces of an account
  MaxKnown,     \* KNOWN_TXS_MAX_SIZE
  MaxStale      \* STALE_NONCE_CACHE_MAX

VARIABLES
  knownTxs,     \* known_txs, oldest first
  stale,        \* stale_nonce_cache: address -> expected nonce
  staleOrder,   \* stale_nonce_cache_order
  nonces,       \* the accounts' nonces
  inDag,        \* transactions the state took
  task,         \* what each handler is doing
  syncInFlight, \* sync_in_flight
  syncing,      \* peers background synchronisations run with
  quiet         \* last_sync_failure, last_any_sync, peer_last_sync not elapsed

intakeVars == <<knownTxs, stale, staleOrder, nonces, inDag, task, syncInFlight, syncing, quiet>>

NoWork == [pc |-> "idle", tx |-> 0, expected |-> 0]
Address == {Sender[t] : t \in Transaction}

IntakeInit ==
  /\ knownTxs = <<>> /\ stale = <<>> /\ staleOrder = <<>> /\ inDag = {}
  /\ nonces = [a \in Address |-> 0]
  /\ task = [p \in Handler |-> NoWork]
  /\ syncInFlight = FALSE /\ syncing = <<>> /\ quiet = {}

syncVars == <<syncInFlight, syncing, quiet>>
stateVars == <<nonces, inDag>>
cacheVars == <<stale, staleOrder>>

Goto(p, pc) == task' = [task EXCEPT ![p].pc = pc]
Done(p) == task' = [task EXCEPT ![p] = NoWork]

-----------------------------------------------------------------------------
(* Transaction.                                                            *)

(* First, under the read lock: known hashes and passed nonces are dropped. *)
ReceiveTransaction(p, t) ==
  /\ task[p].pc = "idle"
  /\ NonceOf[t] >= GetOr(stale, Sender[t], 0)
  /\ t \notin Range(knownTxs)
  /\ task' = [task EXCEPT ![p] = [pc |-> "mark", tx |-> t, expected |-> 0]]
  /\ UNCHANGED <<knownTxs, cacheVars, stateVars, syncVars>>

(* BoundedHashSet::insert *)
KnownWith(t) ==
  LET kept == IF Len(knownTxs) >= MaxKnown THEN SubSeq(knownTxs, 2 + Len(knownTxs) - MaxKnown, Len(knownTxs))
              ELSE knownTxs
  IN Append(kept, t)

MarkKnown(p) ==
  /\ task[p].pc = "mark"
  /\ IF task[p].tx \in Range(knownTxs)
     THEN Done(p) /\ UNCHANGED knownTxs
     ELSE Goto(p, "admit") /\ knownTxs' = KnownWith(task[p].tx)
  /\ UNCHANGED <<cacheVars, stateVars, syncVars>>

(* add_transaction_from_gossip_authenticated: a signature that does not    *)
(* verify or a price below the current one is refused, a nonce that has    *)
(* passed is stale.  A System transaction of no validator (here: any that  *)
(* is not accepted) is dropped before it and stays known.                  *)
Admit(p, accepts) ==
  LET t == task[p].tx
      passed == t \notin System /\ NonceOf[t] < nonces[Sender[t]]
  IN /\ task[p].pc = "admit"
     /\ inDag' = IF accepts /\ ~passed THEN inDag \union {t} ELSE inDag
     /\ IF accepts /\ passed THEN Goto(p, "stale")
        ELSE IF accepts \/ t \in System THEN Done(p)
        ELSE Goto(p, "forget")
     /\ UNCHANGED <<knownTxs, cacheVars, nonces, syncVars>>

(* A refusal may not last: the hash is forgotten. *)
Forget(p) ==
  /\ task[p].pc = "forget"
  /\ knownTxs' = SelectSeq(knownTxs, LAMBDA u : u # task[p].tx)
  /\ Done(p)
  /\ UNCHANGED <<cacheVars, stateVars, syncVars>>

ReadNonce(p) ==
  /\ task[p].pc = "stale"
  /\ task' = [task EXCEPT ![p].pc = "cache", ![p].expected = nonces[Sender[task[p].tx]]]
  /\ UNCHANGED <<knownTxs, cacheVars, stateVars, syncVars>>

(* A new entry may evict the oldest. *)
Note(a, m) ==
  LET order == IF a \in DOMAIN stale THEN staleOrder ELSE Append(staleOrder, a)
      gone == IF Cardinality(DOMAIN m) > MaxStale THEN {Head(order)} ELSE {}
  IN /\ stale' = Without(m, gone)
     /\ staleOrder' = IF gone = {} THEN order ELSE Tail(order)

(* The expected nonce was read outside the lock: only a higher one counts. *)
CacheStaleNonce(p) ==
  LET a == Sender[task[p].tx]
      expected == task[p].expected
  IN /\ task[p].pc = "cache"
     /\ IF expected > GetOr(stale, a, 0)
        THEN Note(a, Insert(stale, a, expected))
        ELSE UNCHANGED cacheVars
     /\ Done(p)
     /\ UNCHANGED <<knownTxs, stateVars, syncVars>>

(* A checkpoint moves an account on. *)
NonceAdvances(a) ==
  /\ nonces[a] < MaxNonce
  /\ nonces' = [nonces EXCEPT ![a] = @ + 1]
  /\ UNCHANGED <<knownTxs, cacheVars, inDag, task, syncVars>>

-----------------------------------------------------------------------------
(* TipAnnouncement of a DAG more than MIN_DAG_DIFF_FOR_SYNC larger.        *)

(* SYNC_FAILURE_COOLDOWN, GLOBAL_SYNC_DEBOUNCE and PEER_SYNC_DEBOUNCE. *)
MayStart(peer) == ~syncInFlight /\ {"failure", "any", peer} \intersect quiet = {}

TipAnnouncement(p, peer) ==
  /\ task[p].pc = "idle"
  /\ MayStart(peer)
  /\ syncInFlight' = TRUE
  /\ quiet' = quiet \union {"any", peer}
  /\ IF peer \in Peer
     THEN syncing' = Append(syncing, peer) /\ UNCHANGED task
     ELSE Goto(p, "http") /\ UNCHANGED syncing
  /\ UNCHANGED <<knownTxs, cacheVars, stateVars>>

(* Mutant: the announcement of an HTTP peer leaves the flag set. *)
SkipHttpPeerKeepingFlag(p) ==
  /\ task[p].pc = "http"
  /\ UNCHANGED syncInFlight
  /\ Done(p)
  /\ UNCHANGED <<knownTxs, cacheVars, stateVars, syncing, quiet>>

(* HTTP peers are not synchronised with; the flag is taken back. *)
SkipHttpPeer(p) ==
  /\ task[p].pc = "http"
  /\ syncInFlight' = FALSE
  /\ Done(p)
  /\ UNCHANGED <<knownTxs, cacheVars, stateVars, syncing, quiet>>

SyncEnds(i, ok) ==
  /\ syncing' = RemoveAt(syncing, i)
  /\ syncInFlight' = FALSE
  /\ quiet' = IF ok THEN quiet \ {"failure"} ELSE quiet \union {"failure"}
  /\ UNCHANGED <<knownTxs, cacheVars, stateVars, task>>

Elapses(x) ==
  /\ x \in quiet /\ quiet' = quiet \ {x}
  /\ UNCHANGED <<knownTxs, cacheVars, stateVars, task, syncInFlight, syncing>>

IntakeNext ==
  \/ \E p \in Handler :
       \/ \E t \in Transaction : ReceiveTransaction(p, t)
       \/ MarkKnown(p) \/ Forget(p) \/ ReadNonce(p) \/ CacheStaleNonce(p)
       \/ \E accepts \in BOOLEAN : Admit(p, accepts)
       \/ \E peer \in Peer \union HttpPeer : TipAnnouncement(p, peer)
       \/ SkipHttpPeer(p)
  \/ \E a \in Address : NonceAdvances(a)
  \/ \E i \in 1..Len(syncing), ok \in BOOLEAN : SyncEnds(i, ok)
  \/ \E x \in quiet : Elapses(x)

-----------------------------------------------------------------------------
(* A hash in known_txs, which makes every later copy be ignored, stands    *)
(* for a transaction the state took, one whose nonce has passed, a System  *)
(* transaction, or one a handler is still working on: no refusal silences  *)
(* a transaction for good, whichever handlers raced for it.                *)
RememberedIsSettled ==
  \A t \in Range(knownTxs) :
    \/ t \in inDag \union System
    \/ NonceOf[t] < nonces[Sender[t]]
    \/ \E p \in Handler : task[p].tx = t /\ task[p].pc \in {"admit", "forget", "stale", "cache"}

(* The eviction order of stale_nonce_cache names each cached address once, *)
(* whichever handlers updated it: evicting the oldest always makes room.   *)
StaleOrderMatchesCache ==
  /\ Range(staleOrder) = DOMAIN stale
  /\ Len(staleOrder) = Cardinality(DOMAIN stale)

(* At most one background synchronisation runs, and sync_in_flight never   *)
(* stays set without a task that takes it back, in any order of            *)
(* announcements, HTTP peers, failures and timers.                         *)
SyncFlagOwned ==
  /\ Len(syncing) <= 1
  /\ syncInFlight => syncing # <<>> \/ \E p \in Handler : task[p].pc = "http"

(* The memories of the message handlers (known_txs, stale_nonce_cache,     *)
(* sync_in_flight) hold only what some task or the state accounts for.     *)
IntakeSound == RememberedIsSettled /\ StaleOrderMatchesCache /\ SyncFlagOwned
=============================================================================
