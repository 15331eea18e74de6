------------------------------- MODULE Merkle -------------------------------
(***************************************************************************)
(* The Merkle trees of the node: the tree of rinku-core/src/merkle.rs      *)
(* (checkpoint transactions, view keys, weights), the weight-sum tree of   *)
(* the validators (proofs.rs), the padded tree of the data shards          *)
(* (erasure.rs), and the check of a received delta (sync_verification.rs). *)
(*                                                                         *)
(* A hash is a sequence and hashing is injective: a leaf hash has one      *)
(* element, the hash of two children is the pair of them.  Positions count *)
(* from 0, as in the code.                                                 *)
(***************************************************************************)
EXTENDS Integers, Sequences, FiniteSets, SequencesExt, FiniteSetsExt, Maps

CONSTANTS
  Leaf,       \* leaf values, positive numbers
  MaxLeaves,  \* bound: leaves of a tree
  Tx,         \* transaction numbers in a delta
  MaxFaults   \* bound: changes a delta suffers on the way

VARIABLES
  leaves,    \* the leaf hashes of a tree
  committed, \* transactions of checkpoints 1, 2, ...
  delta,     \* the delta received: [txs: sequence, heights: tx -> height, counts]
  faults

merkleVars == <<leaves, committed, delta, faults>>

At(layer, i) == layer[i + 1]

-----------------------------------------------------------------------------
(* MerkleTree: the last node of an odd layer is its own sibling. *)

ParentOf(layer, i) == <<At(layer, 2 * i), At(layer, Min({2 * i + 1, Len(layer) - 1}))>>

NextLayer(layer) == [k \in 1..((Len(layer) + 1) \div 2) |-> ParentOf(layer, k - 1)]

RECURSIVE Layers(_)
Layers(layer) == IF Len(layer) = 1 THEN <<layer>> ELSE <<layer>> \o Layers(NextLayer(layer))

Root(leafHashes) == Last(Layers(leafHashes))[1]

Sibling(layer, i) == IF i % 2 = 1 THEN i - 1 ELSE Min({i + 1, Len(layer) - 1})

Up(i, k) == i \div 2^k

GetProof(leafHashes, i) ==
  LET L == Layers(leafHashes)
      steps == 1..(Len(L) - 1)
  IN [leaf |-> At(leafHashes, i), root |-> Last(L)[1],
      siblings |-> [k \in steps |-> At(L[k], Sibling(L[k], Up(i, k - 1)))],
      bits |-> [k \in steps |-> Up(i, k - 1) % 2 = 1]]

Climb(leaf, siblings, bits) ==
  FoldLeft(LAMBDA h, k : IF bits[k] THEN <<siblings[k], h>> ELSE <<h, siblings[k]>>,
           leaf, [k \in 1..Len(siblings) |-> k])

VerifyProof(p) == Climb(p.leaf, p.siblings, p.bits) = p.root

(* verify_tx_merkle_proof, verify_weight_proof: the index gives the sides. *)
VerifyByIndex(leaf, siblings, i, root) ==
  Climb(leaf, siblings, [k \in 1..Len(siblings) |-> Up(i, k - 1) % 2 = 1]) = root

-----------------------------------------------------------------------------
(* get_multiproof: for every known node of a layer whose sibling is not    *)
(* known, the sibling, with its place.                                     *)

(* Mutant: the known positions are not moved up with the layers. *)
HelpersOfLeaves(L, I) ==
  {[at |-> <<k, s>>, hash |-> At(L[k + 1], s)] :
     <<k, s>> \in {<<k, s>> \in (0..(Len(L) - 2)) \X (0..(Len(L[1]) - 1)) :
        /\ s \notin I
        /\ \E i \in I : Sibling(L[k + 1], Up(i, k)) = s /\ Up(i, k) # s}}

Helpers(L, I) ==
  {[at |-> <<k, s>>, hash |-> At(L[k + 1], s)] :
     <<k, s>> \in {<<k, s>> \in (0..(Len(L) - 2)) \X (0..(Len(L[1]) - 1)) :
        /\ s \notin {Up(i, k) : i \in I}
        /\ \E i \in I : Sibling(L[k + 1], Up(i, k)) = s}}

GetMultiproof(leafHashes, I) ==
  LET L == Layers(leafHashes)
  IN [leafAt |-> [i \in I |-> At(leafHashes, i)], helpers |-> Helpers(L, I),
      num_leaves |-> Len(leafHashes), root |-> Last(L)[1]]

RECURSIVE LayerSizes(_)
LayerSizes(n) == IF n <= 1 THEN <<1>> ELSE <<n>> \o LayerSizes((n + 1) \div 2)

(* verify_multiproof: layer by layer, every parent both of whose children  *)
(* are known; a computed node replaces a helper at its place.              *)
VerifyMultiproof(p) ==
  LET sizes == LayerSizes(p.num_leaves)
      helpersAt(k) == LET H == {h \in p.helpers : h.at[1] = k}
                      IN [i \in {h.at[2] : h \in H} |-> (CHOOSE h \in H : h.at[2] = i).hash]
      right(k, i) == IF i + 1 < sizes[k + 1] THEN i + 1 ELSE i
      parents(k, known) ==
        LET Q == {q \in {i \div 2 : i \in DOMAIN known} :
                    2 * q \in DOMAIN known /\ right(k, 2 * q) \in DOMAIN known}
        IN [q \in Q |-> <<known[2 * q], known[right(k, 2 * q)]>>]
      top == FoldLeft(LAMBDA known, k : parents(k, known) @@ helpersAt(k + 1),
                      helpersAt(0) @@ p.leafAt, [k \in 1..(Len(sizes) - 1) |-> k - 1])
  IN 0 \in DOMAIN top /\ top[0] = p.root

-----------------------------------------------------------------------------
(* The weight-sum tree: a missing sibling is an empty node of weight 0.    *)

SumLeaf(i, weight) == [hash |-> <<i, weight>>, sum |-> weight]
EmptyNode == [hash |-> <<>>, sum |-> 0]
SumParent(l, r) == [hash |-> <<l.hash, l.sum, r.hash, r.sum>>, sum |-> l.sum + r.sum]
SumAt(layer, i) == IF i < Len(layer) THEN At(layer, i) ELSE EmptyNode

SumNext(layer) ==
  [k \in 1..((Len(layer) + 1) \div 2) |-> SumParent(At(layer, 2 * k - 2), SumAt(layer, 2 * k - 1))]

RECURSIVE SumLayers(_)
SumLayers(layer) == IF Len(layer) = 1 THEN <<layer>> ELSE <<layer>> \o SumLayers(SumNext(layer))

BuildMerkleSumTree(weights) == SumLayers([k \in 1..Len(weights) |-> SumLeaf(k - 1, weights[k])])

GetMerkleSumProof(weights, i) ==
  LET L == BuildMerkleSumTree(weights)
      steps == 1..(Len(L) - 1)
      side(k) == Up(i, k - 1) % 2 = 1
  IN [leaf |-> SumLeaf(i, weights[i + 1]), bits |-> [k \in steps |-> side(k)],
      siblings |-> [k \in steps |-> SumAt(L[k], IF side(k) THEN Up(i, k - 1) - 1 ELSE Up(i, k - 1) + 1)]]

SumClimb(p) ==
  FoldLeft(LAMBDA n, k : IF p.bits[k] THEN SumParent(p.siblings[k], n) ELSE SumParent(n, p.siblings[k]),
           p.leaf, [k \in 1..Len(p.siblings) |-> k])

VerifyMerkleSumProof(p, root) == SumClimb(p).hash = root.hash /\ SumClimb(p).sum = root.sum

-----------------------------------------------------------------------------
(* The tree of the data shards is padded to a power of two. *)

Padding == <<0>>

RECURSIVE NextPow2(_)
NextPow2(n) == IF n <= 1 THEN 1 ELSE 2 * NextPow2((n + 1) \div 2)

Padded(leafHashes) ==
  leafHashes \o [k \in 1..(NextPow2(Len(leafHashes)) - Len(leafHashes)) |-> Padding]

ShardRoot(leafHashes) == Root(Padded(leafHashes))
ShardProof(leafHashes, i) == GetProof(Padded(leafHashes), i).siblings

RECURSIVE Log2(_)
Log2(n) == IF n = 1 THEN 0 ELSE 1 + Log2(n \div 2)

VerifyShardProof(root, leaf, i, proof, total) ==
  Len(proof) = Log2(NextPow2(total)) /\ VerifyByIndex(leaf, proof, i, root)

-----------------------------------------------------------------------------
(* verify_delta.  The root of a checkpoint is that of its sorted           *)
(* transactions, ZeroRoot when it has none.                                *)

ZeroRoot == <<>>
Sorted(S) == SetToSortSeq(S, <)
RootOfTxs(seq) == IF seq = <<>> THEN ZeroRoot ELSE Root([k \in 1..Len(seq) |-> <<seq[k]>>])
CheckpointRoot(h) == RootOfTxs(Sorted(committed[h]))

Labelled(d, h) == SelectSeq(d.txs, LAMBDA t : t \in DOMAIN d.heights /\ d.heights[t] = h)

CheckpointOk(d, h) ==
  LET txs == SortSeq(Labelled(d, h), <)
  IN IF txs = <<>> THEN CheckpointRoot(h) = ZeroRoot \/ d.counts[h] = 0
     ELSE RootOfTxs(txs) = CheckpointRoot(h)

VerifyDelta(d) ==
  /\ \A k \in DOMAIN d.txs : d.txs[k] \in DOMAIN d.heights
  /\ \A h \in DOMAIN committed : CheckpointOk(d, h)

HonestDelta(cs) ==
  [txs |-> Sorted(UNION Range(cs)), counts |-> [h \in DOMAIN cs |-> Cardinality(cs[h])],
   heights |-> [t \in UNION Range(cs) |-> CHOOSE h \in DOMAIN cs : t \in cs[h]]]

-----------------------------------------------------------------------------
(* Trees grow leaf by leaf; a delta loses a transaction the peer has       *)
(* pruned, carries one twice, or labels one with another height.           *)

TreeInit == leaves = <<>> /\ faults = 0 /\ committed = <<>> /\ delta = HonestDelta(<<>>)

DeltaInit ==
  /\ leaves = <<>> /\ faults = 0
  /\ committed \in {cs \in [1..2 -> SUBSET Tx] : cs[1] \intersect cs[2] = {}}
  /\ delta = HonestDelta(committed)

AddLeaf(v) ==
  /\ Len(leaves) < MaxLeaves /\ leaves' = Append(leaves, <<v>>)
  /\ UNCHANGED <<committed, delta, faults>>

DeltaFault ==
  /\ faults < MaxFaults /\ faults' = faults + 1
  /\ \E k \in DOMAIN delta.txs :
       \/ delta' = [delta EXCEPT !.txs = RemoveAt(@, k)]
       \/ delta' = [delta EXCEPT !.txs = Append(@, @[k])]
       \/ \E h \in DOMAIN committed : delta' = [delta EXCEPT !.heights[delta.txs[k]] = h]
  /\ UNCHANGED <<leaves, committed>>

TreeNext == \E v \in Leaf : AddLeaf(v)

-----------------------------------------------------------------------------
Positions == 0..(Len(leaves) - 1)
Other(hash) == <<hash[1] + 1>>

(* get_proof and verify_proof agree on every tree, odd layers included; so *)
(* does verify_tx_merkle_proof, which is given the index; and the proof is *)
(* of that leaf and no other.                                              *)
ProofsVerify ==
  \A i \in Positions :
    LET p == GetProof(leaves, i)
    IN /\ VerifyProof(p) /\ VerifyByIndex(p.leaf, p.siblings, i, p.root)
       /\ ~VerifyProof([p EXCEPT !.leaf = Other(@)])

(* A multiproof of any set of leaves verifies, with the fewest helpers: it *)
(* does not without one of them, nor with another leaf.                    *)
MultiproofsVerify ==
  \A I \in SUBSET Positions \ {{}} :
    LET p == GetMultiproof(leaves, I)
    IN /\ VerifyMultiproof(p)
       /\ \A h \in p.helpers : ~VerifyMultiproof([p EXCEPT !.helpers = @ \ {h}])
       /\ \A i \in I : ~VerifyMultiproof([p EXCEPT !.leafAt[i] = Other(@)])

(* The root of the validators' tree carries their total weight, and every  *)
(* membership proof leads to that root and that total.                     *)
SumProofsVerify ==
  leaves # <<>> =>
    LET weights == [k \in DOMAIN leaves |-> leaves[k][1]]
        root == Last(BuildMerkleSumTree(weights))[1]
    IN /\ root.sum = FoldLeft(LAMBDA a, w : a + w, 0, weights)
       /\ \A i \in Positions :
            LET p == GetMerkleSumProof(weights, i)
            IN /\ VerifyMerkleSumProof(p, root)
               /\ ~VerifyMerkleSumProof([p EXCEPT !.leaf = SumLeaf(i, @.sum + 1)], root)

(* A shard's proof verifies for any number of shards, at its own index.    *)
ShardProofsVerify ==
  \A i \in Positions :
    LET n == Len(leaves)
        ok(leaf) == VerifyShardProof(ShardRoot(leaves), leaf, i, ShardProof(leaves, i), n)
    IN ok(At(leaves, i)) /\ ~ok(Other(At(leaves, i)))

(* A delta that verify_delta accepts has, for every checkpoint whose       *)
(* transactions it counts, exactly those transactions: none was lost,      *)
(* added or given to another checkpoint on the way.                        *)
AcceptedDeltaIsWhole ==
  VerifyDelta(delta) =>
    \A h \in DOMAIN committed : delta.counts[h] > 0 => ToSet(Labelled(delta, h)) = committed[h]

(* Every tree of the node (transactions, multiproofs, validator weights,   *)
(* shards) proves each of its leaves and nothing else.                     *)
ProofsHold == ProofsVerify /\ MultiproofsVerify /\ SumProofsVerify /\ ShardProofsVerify
=============================================================================
