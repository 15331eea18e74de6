----------------------------- MODULE WeightTrie -----------------------------
(***************************************************************************)
(* WeightTrie (rinku-core/src/weight.rs): votes on transactions come in    *)
(* through gossip and the API.  A node that builds a snapshot for the next *)
(* checkpoint adds the pending votes to the weights, forgets old           *)
(* transactions and commits to the root; the others only collect votes.    *)
(***************************************************************************)
EXTENDS Merkle

CONSTANTS
  Ballot,     \* votes that are cast: [tx, voter, kind]
  Address,    \* voters, addresses or public keys, to their addresses
  Stake,      \* stakes of the validators: a map from addresses
  Retention,  \* WEIGHT_RETENTION_CHECKPOINTS
  MaxVotes,   \* bound: pending votes
  MaxRounds,  \* bound: snapshots that add votes on a transaction
  MaxHeight   \* bound: checkpoints

VARIABLES
  weights,     \* tx -> [boost, suppress, neutral, count, total]
  pending,     \* pending_votes
  cachedRoot,  \* cached_root: <<>> or <<root>>
  known,       \* tx -> 0 in the DAG, or the height that finalized it
  top,         \* height of the last checkpoint
  snapshot,    \* transactions to keep, read by the running snapshot: <<>> or <<set>>
  saved,       \* weights in the storage and their rounds
  rounds       \* snapshots in which votes on a transaction were added

weightVars == <<weights, pending, cachedRoot, known, top, snapshot, saved, rounds>>

NoWeight == [boost |-> 0, suppress |-> 0, neutral |-> 0, count |-> 0, total |-> 0]

StakeOf(v) == GetOr(Stake, Address[v], 0)

TotalStake == FoldFunction(+, 0, Stake)

WeightInit ==
  /\ weights = <<>> /\ pending = <<>> /\ cachedRoot = <<>> /\ known = <<>> /\ top = 0
  /\ snapshot = <<>> /\ saved = [weights |-> <<>>, rounds |-> <<>>] /\ rounds = <<>>

(* WeightVote of gossip and post_weight_vote; neither asks for the transaction. *)
AddVote(vote) ==
  /\ Len(pending) < MaxVotes /\ GetOr(rounds, vote.tx, 0) < MaxRounds
  /\ pending' = Append(pending, vote) /\ cachedRoot' = <<>>
  /\ UNCHANGED <<weights, known, top, snapshot, saved, rounds>>

(* The last vote under each name on a transaction. *)
Counted(votes, t) ==
  {k \in DOMAIN votes : /\ votes[k].tx = t
                        /\ \A j \in (k + 1)..Len(votes) :
                             votes[j].tx = t => votes[j].voter # votes[k].voter}

(* finalize_votes: what it adds to weights w, a transaction at a time. *)
FinalizeVotes(w, votes) ==
  LET voted == {votes[k].tx : k \in DOMAIN votes}
      old(t) == GetOr(w, t, NoWeight)
      stake(t, kind) == FoldFunction(+, 0, [k \in {k \in Counted(votes, t) : votes[k].kind = kind} |->
                                             StakeOf(votes[k].voter)])
      new(t) == [boost |-> old(t).boost + stake(t, "boost"),
                 suppress |-> old(t).suppress + stake(t, "suppress"),
                 neutral |-> old(t).neutral + stake(t, "neutral"),
                 count |-> old(t).count + Cardinality(Counted(votes, t)),
                 total |-> TotalStake]
  IN [t \in voted |-> new(t)] @@ w

Leaves(w) == LET order == Sorted(DOMAIN w) IN [k \in DOMAIN order |-> <<<<order[k], w[order[k]]>>>>]

(* compute_root without its cache; <<>> stands for the hash of the empty trie. *)
WeightRoot(w) == IF DOMAIN w = {} THEN <<>> ELSE Root(Leaves(w))

ComputeRoot(w, cached) == IF cached # <<>> THEN cached[1] ELSE WeightRoot(w)

(* The snapshot of height top + 1 first reads, under the read lock, which  *)
(* transactions are recent or not yet final.                               *)
ReadRecent ==
  /\ snapshot = <<>>
  /\ snapshot' = <<IF top + 1 > Retention
                   THEN {t \in DOMAIN known : known[t] = 0 \/ known[t] >= top + 1 - Retention} ELSE Tx>>
  /\ UNCHANGED <<weights, pending, cachedRoot, known, top, saved, rounds>>

(* Mutant: only finalizing votes drops the cached root, pruning does not. *)
CacheLeftByVotes == IF pending # <<>> THEN <<>> ELSE cachedRoot

(* The cached root after finalize_votes and prune_before_checkpoint. *)
CacheLeft == IF pending # <<>> \/ top + 1 > Retention THEN <<>> ELSE cachedRoot

(* Then it adds, prunes and computes the root under the write lock, before *)
(* any other node has agreed to the checkpoint.                            *)
FinalizeSnapshot ==
  /\ snapshot # <<>>
  /\ LET added == FinalizeVotes(weights, pending)
         kept == Restrict(added, DOMAIN added \intersect snapshot[1])
     IN /\ weights' = kept
        /\ cachedRoot' = <<ComputeRoot(kept, CacheLeft)>>
        /\ rounds' = [t \in DOMAIN kept |->
                       GetOr(rounds, t, 0) + (IF \E k \in DOMAIN pending : pending[k].tx = t THEN 1 ELSE 0)]
  /\ pending' = <<>> /\ snapshot' = <<>>
  /\ UNCHANGED <<known, top, saved>>

(* External to the trie: a transaction enters the DAG, a checkpoint of any *)
(* proposer finalizes what is there.                                       *)
Learn(t) ==
  /\ t \notin DOMAIN known /\ known' = known @@ (t :> 0)
  /\ UNCHANGED <<weights, pending, cachedRoot, top, snapshot, saved, rounds>>

ApplyCheckpoint ==
  /\ top < MaxHeight /\ top' = top + 1 /\ snapshot = <<>>
  /\ known' = [t \in DOMAIN known |-> IF known[t] = 0 THEN top' ELSE known[t]]
  /\ UNCHANGED <<weights, pending, cachedRoot, snapshot, saved, rounds>>

(* save_snapshot_to_storage leaves the stored weights when there are none. *)
SaveWeights ==
  /\ weights # <<>> /\ saved' = [weights |-> weights, rounds |-> rounds]
  /\ UNCHANGED <<weights, pending, cachedRoot, known, top, snapshot, rounds>>

(* A restart loads what was stored, pending votes are lost; a snapshot of  *)
(* a peer that has the stored weights replaces the weights only.           *)
LoadWeights(restart) ==
  /\ restart \/ saved.weights # <<>>
  /\ weights' = saved.weights /\ rounds' = saved.rounds /\ cachedRoot' = <<>>
  /\ IF restart THEN pending' = <<>> /\ snapshot' = <<>> ELSE UNCHANGED <<pending, snapshot>>
  /\ UNCHANGED <<known, top, saved>>

WeightNext ==
  \/ \E vote \in Ballot : AddVote(vote)
  \/ ReadRecent
  \/ FinalizeSnapshot
  \/ \E t \in Tx : Learn(t)
  \/ ApplyCheckpoint
  \/ SaveWeights
  \/ \E restart \in BOOLEAN : LoadWeights(restart)

-----------------------------------------------------------------------------
(* A snapshot never commits to a stale root: a cached root is the root of  *)
(* the weights as they are, whatever added, pruned or loaded them, and the *)
(* proof get_weight_proof serves for a weight verifies against it.         *)
ServedWeightProofs ==
  LET root == ComputeRoot(weights, cachedRoot)
  IN /\ root = WeightRoot(weights)
     /\ \A i \in 0..(Cardinality(DOMAIN weights) - 1) :
          LET p == GetProof(Leaves(weights), i)
          IN VerifyByIndex(p.leaf, p.siblings, i, root)

(* However often and however differently votes are cast between two        *)
(* snapshots, a name adds its stake to a transaction once in each, to one  *)
(* of boost, suppress and neutral.                                         *)
StakeCountedOnce ==
  \A t \in DOMAIN weights :
    LET w == weights[t]
        names == {vote.voter : vote \in {b \in Ballot : b.tx = t}}
    IN /\ w.boost + w.suppress + w.neutral <= rounds[t] * FoldFunction(+, 0, [v \in names |-> StakeOf(v)])
       /\ w.count <= rounds[t] * Cardinality(names)

(* The weights a snapshot commits to are counted once and can be proved.   *)
WeightsSound == ServedWeightProofs /\ StakeCountedOnce
=============================================================================
