-------------------------------- MODULE Dag --------------------------------
(***************************************************************************)
(* The in-memory transaction DAG of rinku-core/src/dag.rs: a node per      *)
(* transaction hash with its parent and child links, and four secondary    *)
(* indexes (tips, unfinalized, sender_unfinalized, finalized_by_height)    *)
(* that every operation maintains by hand or rebuilds.                     *)
(*                                                                         *)
(* Every method has &mut self and is one action.  The positions of nodes   *)
(* in the petgraph vector (hash_to_index) are abstracted away, except for  *)
(* what prune_oldest does with them; the petgraph edges are the child      *)
(* links between present nodes.  An empty set in sender_unfinalized or     *)
(* finalized_by_height stands for an absent key.                           *)
(***************************************************************************)
EXTENDS Integers, FiniteSets, Maps, Graphs

CONSTANTS
  Hash,       \* transaction hashes
  Sender,     \* account addresses
  From,       \* From[h]: the sender of transaction h
  Parents,    \* Parents[h]: the parent hashes named by transaction h
  Timestamp,  \* Timestamp[h]: the transaction's own timestamp
  Height,     \* checkpoint heights
  MaxNodes    \* max_nodes

ASSUME DagAssumption ==
  /\ From \in [Hash -> Sender]
  /\ Parents \in [Hash -> SUBSET Hash]
  /\ \A h \in Hash : h \notin Parents[h]   \* add_node refuses the others
  /\ Timestamp \in [Hash -> Nat]
  /\ Height \subseteq Nat
  /\ MaxNodes \in Nat

VARIABLES
  node,                \* hash -> DagNode
  tips,
  unfinalized,
  sender_unfinalized,  \* sender -> set of hashes
  finalized_by_height, \* height -> set of hashes
  cleanup,             \* the caller's list of hashes it marked with
                       \* mark_finalized_deferred_cleanup and has yet to clean up
  loading,             \* NodeState::new is still inserting the snapshot
  disturbed            \* history: hashes whose sender entry went wrong because
                       \* something happened between marking and clean-up

vars == <<node, tips, unfinalized, sender_unfinalized, finalized_by_height,
          cleanup, loading, disturbed>>

NoHeight == -1

DagNode ==
  [parents : SUBSET Hash,      \* node.parents
   tx_parents : SUBSET Hash,   \* node.tx.tx.parents
   children : SUBSET Hash,
   finalized : BOOLEAN,
   checkpoint_height : Height \cup {NoHeight}]

\* A node with other links, or with another finality.
WithLinks(d, parents, tx_parents, children) ==
  [parents |-> parents, tx_parents |-> tx_parents, children |-> children,
   finalized |-> d.finalized, checkpoint_height |-> d.checkpoint_height]

WithChildren(d, children) == WithLinks(d, d.parents, d.tx_parents, children)

WithFinality(d, fin, height) ==
  [parents |-> d.parents, tx_parents |-> d.tx_parents, children |-> d.children,
   finalized |-> fin, checkpoint_height |-> height]

-----------------------------------------------------------------------------
(* The indexes as rebuild_index computes them from the nodes.              *)

UnfinalizedOf(n) == {h \in DOMAIN n : ~n[h].finalized}

BySender(n) == [s \in Sender |-> {h \in UnfinalizedOf(n) : From[h] = s}]

ByHeight(n) ==
  [k \in Height |-> {h \in DOMAIN n : n[h].finalized /\ n[h].checkpoint_height = k}]

Childless(n) == {h \in DOMAIN n : n[h].children = {}}

RebuildIndex(n) ==
  /\ unfinalized' = UnfinalizedOf(n)
  /\ sender_unfinalized' = BySender(n)
  /\ finalized_by_height' = ByHeight(n)
  /\ disturbed' = {}

DropFromSets(f, H) == [k \in DOMAIN f |-> f[k] \ H]

\* The petgraph edges: child links between present nodes.
DagGraph == [node |-> DOMAIN node,
             edge |-> {e \in (DOMAIN node) \X (DOMAIN node) : e[2] \in node[e[1]].children}]

-----------------------------------------------------------------------------

Init ==
  /\ node = <<>>
  /\ tips = {}
  /\ unfinalized = {}
  /\ sender_unfinalized = [s \in Sender |-> {}]
  /\ finalized_by_height = [k \in Height |-> {}]
  /\ cleanup = {}
  /\ loading = TRUE
  /\ disturbed = {}

\* The oldest k members of C, by timestamp (ties in any order).
Oldest(C, k) ==
  {S \in SUBSET C : /\ Cardinality(S) = (IF Cardinality(C) < k THEN Cardinality(C) ELSE k)
                    /\ \A x \in S, y \in C \ S : Timestamp[x] <= Timestamp[y]}

\* What prune_oldest may select in nodes n with tips t: the oldest finalized
\* non-tips down to 3/4 of the capacity and, above twice the capacity, then
\* the oldest unfinalized non-tips that are older than ten minutes.
PruneSelections(n, t) ==
  LET excess == Cardinality(DOMAIN n) - (MaxNodes * 3) \div 4
      fin == {h \in DOMAIN n \ t : n[h].finalized}
      severe == Cardinality(DOMAIN n) > MaxNodes * 2
      aged(c) == {h \in DOMAIN n \ t : ~n[h].finalized /\ Timestamp[h] < c}
  IN UNION {{S \cup U : U \in IF severe /\ Cardinality(S) < excess
                              THEN UNION {Oldest(aged(c), excess - Cardinality(S)) :
                                            c \in {Timestamp[h] : h \in Hash} \cup {0}}
                              ELSE {{}}} : S \in Oldest(fin, excess)}

\* The sets prune_oldest may really remove.  It removes selected positions in
\* an order that is not descending, so a selected node that petgraph moved into
\* a freed slot is missed; the first one is always removed.
PruneOldest(n, t) ==
  UNION {{R \in SUBSET S : R = {} <=> S = {}} : S \in PruneSelections(n, t)}

\* The nodes after add_node linked the new node to its present parents.
Linked(h, fin, height) ==
  [x \in DOMAIN node \cup {h} |->
     IF x = h
     THEN [parents |-> Parents[h], tx_parents |-> Parents[h], children |-> {},
           finalized |-> fin, checkpoint_height |-> height]
     ELSE IF x \in Parents[h] THEN WithChildren(node[x], node[x].children \cup {h})
     ELSE node[x]]

\* Mutant: the new node is not entered under its sender.
IndexAddedForgettingSender(h, fin, height) ==
  /\ unfinalized' = IF fin THEN unfinalized ELSE unfinalized \cup {h}
  /\ sender_unfinalized' = sender_unfinalized
  /\ finalized_by_height' = [k \in Height |->
       finalized_by_height[k] \cup (IF fin /\ k = height THEN {h} ELSE {})]

IndexAdded(h, fin, height) ==
  /\ unfinalized' = IF fin THEN unfinalized ELSE unfinalized \cup {h}
  /\ sender_unfinalized' = [s \in Sender |->
       sender_unfinalized[s] \cup (IF ~fin /\ From[h] = s THEN {h} ELSE {})]
  /\ finalized_by_height' = [k \in Height |->
       finalized_by_height[k] \cup (IF fin /\ k = height THEN {h} ELSE {})]

\* add_node and add_node_with_stats, which only also counts the links.
AddNode(h, fin, height) ==
  /\ h \notin DOMAIN node
  /\ LET n == Linked(h, fin, height)
         t == (tips \ Parents[h]) \cup {h}
     IN IF Cardinality(DOMAIN n) > MaxNodes
        THEN \E R \in PruneOldest(n, t) :
               /\ node' = Without(n, R)
               /\ tips' = t \ R
               /\ RebuildIndex(node')
        ELSE /\ node' = n
             /\ tips' = t
             /\ IndexAdded(h, fin, height)
             /\ UNCHANGED disturbed
  /\ UNCHANGED <<cleanup, loading>>

\* rebuild_tips, called once by NodeState::new after the snapshot's
\* transactions were inserted in arbitrary order.
RebuildTips ==
  /\ loading
  /\ loading' = FALSE
  /\ node' = [p \in DOMAIN node |->
       WithChildren(node[p], {c \in DOMAIN node : p \in node[c].parents /\ c # p})]
  /\ tips' = Childless(node')
  /\ UNCHANGED <<unfinalized, sender_unfinalized, finalized_by_height, cleanup, disturbed>>

\* The height index after the nodes H moved from their old height to k.
MovedToHeight(H, k) ==
  [j \in Height |-> IF j = k THEN finalized_by_height[j] \cup H
                    ELSE finalized_by_height[j] \
                           {h \in H : node[h].finalized /\ node[h].checkpoint_height = j}]

MarkedAt(H, k) ==
  [h \in DOMAIN node |->
     IF h \in H THEN WithFinality(node[h], TRUE, k) ELSE node[h]]

\* mark_finalized for one hash, mark_finalized_batch for several.
MarkFinalized(H, k) ==
  /\ ~loading
  /\ LET K == H \cap DOMAIN node IN
     /\ node' = MarkedAt(K, k)
     /\ finalized_by_height' = MovedToHeight(K, k)
     /\ unfinalized' = unfinalized \ H
     /\ sender_unfinalized' = DropFromSets(sender_unfinalized, K)
  /\ UNCHANGED <<tips, cleanup, loading, disturbed>>

\* Mutant: the old height keeps the hash.
MarkDeferredKeepingOldHeight(h, k) ==
  /\ ~loading /\ h \in DOMAIN node
  /\ node' = MarkedAt({h}, k)
  /\ finalized_by_height' = [finalized_by_height EXCEPT ![k] = @ \cup {h}]
  /\ unfinalized' = unfinalized \ {h}
  /\ cleanup' = cleanup \cup {h}
  /\ UNCHANGED <<tips, sender_unfinalized, loading, disturbed>>

MarkFinalizedDeferredCleanup(h, k) ==
  /\ ~loading
  /\ h \in DOMAIN node
  /\ node' = MarkedAt({h}, k)
  /\ finalized_by_height' = MovedToHeight({h}, k)
  /\ unfinalized' = unfinalized \ {h}
  /\ cleanup' = cleanup \cup {h}
  /\ UNCHANGED <<tips, sender_unfinalized, loading, disturbed>>

\* Called by the same checkpoint application for the hashes it marked, in a
\* later critical section of the node's state lock.
CleanupSenderUnfinalizedBatch ==
  /\ cleanup # {}
  /\ sender_unfinalized' = DropFromSets(sender_unfinalized, cleanup \cap DOMAIN node)
  /\ cleanup' = {}
  /\ disturbed' = disturbed \cup (cleanup \cap unfinalized)
  /\ UNCHANGED <<node, tips, unfinalized, finalized_by_height, loading>>

\* The caller finds that another task applied the checkpoint in between and
\* returns without cleaning up.
AbandonCleanup ==
  /\ cleanup # {}
  /\ cleanup' = {}
  /\ disturbed' = disturbed \cup (cleanup \ unfinalized)
  /\ UNCHANGED <<node, tips, unfinalized, sender_unfinalized, finalized_by_height, loading>>

\* unmark_finalized_batch for the finalized hashes of a rolled back checkpoint,
\* unfinalize for a transaction rolled back by a merge: H is finalized in the
\* first, a single present hash in the second.
Unmarked(H) ==
  /\ node' = [h \in DOMAIN node |->
       IF h \in H THEN WithFinality(node[h], FALSE, NoHeight) ELSE node[h]]
  /\ finalized_by_height' = DropFromSets(finalized_by_height, H)
  /\ unfinalized' = unfinalized \cup H
  /\ sender_unfinalized' = [s \in Sender |->
       sender_unfinalized[s] \cup {h \in H : From[h] = s}]
  /\ UNCHANGED <<tips, cleanup, loading, disturbed>>

UnmarkFinalizedBatch(H) ==
  /\ ~loading
  /\ Unmarked({h \in H \cap DOMAIN node : node[h].finalized})

Unfinalize(h) ==
  /\ ~loading
  /\ h \in DOMAIN node
  /\ Unmarked({h})

-----------------------------------------------------------------------------
(* Removal.                                                                *)

\* The surviving nodes when the nodes R leave and unlink themselves from the
\* parents they name.
Unlinked(R) ==
  [p \in DOMAIN node \ R |->
     WithChildren(node[p], node[p].children \ {r \in R : p \in node[r].parents})]

\* A surviving parent whose last child left becomes a tip again.
TipsAfterUnlink(n, R) ==
  (tips \ R) \cup {p \in DOMAIN n : /\ n[p].children = {}
                                   /\ \E r \in R : p \in node[r].parents}

Prunable(min_height) ==
  LET old == UNION {finalized_by_height[k] : k \in {j \in Height : j < min_height}}
      unfinalized_ancestors == UNION {node[h].tx_parents : h \in unfinalized}
  IN (old \ tips) \ unfinalized_ancestors

PruneFinalizedBefore(min_height) ==
  /\ ~loading
  /\ LET R == Prunable(min_height) IN
     /\ node' = Unlinked(R)
     /\ tips' = TipsAfterUnlink(node', R)
     /\ sender_unfinalized' = DropFromSets(sender_unfinalized, R)
     /\ finalized_by_height' = DropFromSets(finalized_by_height, R)
  /\ UNCHANGED <<unfinalized, cleanup, loading, disturbed>>

\* Mutant: the surviving nodes lose all their parents.
EvictedClearingParents(R, tx_too) ==
  [h \in DOMAIN node \ R |->
     WithLinks(node[h], {}, node[h].tx_parents, node[h].children \ R)]

\* The nodes left by remove_nodes_batch and evict_finalized_before, which drop
\* the evicted hashes from every link; only the former also edits tx.parents.
Evicted(R, tx_too) ==
  [h \in DOMAIN node \ R |->
     WithLinks(node[h], node[h].parents \ R,
               IF tx_too THEN node[h].tx_parents \ R ELSE node[h].tx_parents,
               node[h].children \ R)]

RemoveNodesBatch(H) ==
  /\ ~loading
  /\ H \cap DOMAIN node # {}
  /\ node' = Evicted(H, TRUE)
  /\ tips' = Childless(node')
  /\ RebuildIndex(node')
  /\ UNCHANGED <<cleanup, loading>>

\* Mutant: a node without a height counts as an old one.
EvictableWithoutHeight(boundary) ==
  {h \in DOMAIN node : node[h].checkpoint_height < boundary}

Evictable(boundary) ==
  {h \in DOMAIN node : /\ node[h].finalized
                       /\ node[h].checkpoint_height # NoHeight
                       /\ node[h].checkpoint_height < boundary
                       /\ \A c \in node[h].children \cap DOMAIN node : node[c].finalized}

EvictFinalizedBefore(boundary) ==
  /\ ~loading
  /\ LET R == Evictable(boundary) IN
     /\ R # {}
     /\ node' = Evicted(R, FALSE)
     /\ tips' = Childless(node')
     /\ RebuildIndex(node')
  /\ UNCHANGED <<cleanup, loading>>

\* remove_node for each member of R; the order does not matter.
RemoveEach(R) ==
  /\ node' = Unlinked(R)
  /\ tips' = TipsAfterUnlink(node', R)
  /\ RebuildIndex(node')
  /\ UNCHANGED <<cleanup, loading>>

RemoveNode(h) ==
  /\ ~loading
  /\ h \in DOMAIN node
  /\ RemoveEach({h})

\* The descendants of root, and root, that are not finalized.
Branch(root) ==
  {h \in ({root} \cup Descendants(DagGraph, root)) \cap DOMAIN node : ~node[h].finalized}

PruneBranch(root) ==
  /\ ~loading
  /\ root \in DOMAIN node
  /\ ~node[root].finalized  \* prune_losing_branch returns early otherwise
  /\ RemoveEach(Branch(root))

\* current height minus the retention window.
Boundary == Height \cup {k + 1 : k \in Height}

Next ==
  \/ \E h \in Hash : AddNode(h, FALSE, NoHeight)
  \/ \E h \in Hash, k \in Height \cup {NoHeight} : AddNode(h, TRUE, k)
  \/ RebuildTips
  \/ \E H \in SUBSET Hash, k \in Height : MarkFinalized(H, k)
  \/ \E h \in Hash, k \in Height : MarkFinalizedDeferredCleanup(h, k)
  \/ CleanupSenderUnfinalizedBatch \/ AbandonCleanup
  \/ \E H \in SUBSET Hash : UnmarkFinalizedBatch(H) \/ RemoveNodesBatch(H)
  \/ \E h \in Hash : Unfinalize(h) \/ RemoveNode(h) \/ PruneBranch(h)
  \/ \E k \in Boundary : PruneFinalizedBefore(k) \/ EvictFinalizedBefore(k)

Spec == Init /\ [][Next]_vars

-----------------------------------------------------------------------------

\* Every field has its Rust type; no index names a transaction without a node.
TypeOK ==
  /\ IsMap(node, Hash, DagNode)
  /\ tips \subseteq DOMAIN node
  /\ unfinalized \subseteq DOMAIN node
  /\ sender_unfinalized \in [Sender -> SUBSET DOMAIN node]
  /\ finalized_by_height \in [Height -> SUBSET DOMAIN node]
  /\ cleanup \subseteq Hash /\ disturbed \subseteq Hash
  /\ loading \in BOOLEAN

\* The hand-maintained indexes are what a rebuild from the nodes would give:
\* unfinalized (the checkpoint proposer's input), the per-height sets (the
\* pruners' input) and the tips (the childless nodes), after any mix of
\* insertion, finalization, rollback, pruning and eviction.
IndexesMatchNodes ==
  /\ unfinalized = UnfinalizedOf(node)
  /\ finalized_by_height = ByHeight(node)
  /\ tips = Childless(node)

\* The per-sender index that admission computes nonces and reserved funds from
\* differs from the unfinalized set only for hashes in the window between
\* mark_finalized_deferred_cleanup and the batch clean-up, or for hashes that
\* window was disturbed for and no rebuild has repaired since.
SenderIndexOutsideWindow ==
  /\ \A s \in Sender, h \in Hash : h \in sender_unfinalized[s] => From[h] = s
  /\ \A h \in Hash \ (cleanup \cup disturbed) :
       h \in sender_unfinalized[From[h]] <=> h \in unfinalized

\* An unfinalized transaction leaves the DAG only when it is removed by name
\* (zombie purge, expiry, merge loser, losing branch) or when add_node finds
\* more than twice max_nodes: pruning and eviction by height never lose one.
UnfinalizedNeverEvicted ==
  [][\/ unfinalized \subseteq DOMAIN node'
     \/ Cardinality(DOMAIN node) >= 2 * MaxNodes /\ DOMAIN node' \ DOMAIN node # {}
     \/ \E H \in SUBSET Hash : DOMAIN node \ H = DOMAIN node' /\ RemoveNodesBatch(H)
     \/ \E x \in unfinalized \ DOMAIN node' : RemoveNode(x) \/ PruneBranch(x)]_vars

\* The child lists and the parent lists agree: a present child names the parent
\* that lists it, so a removal that follows parent links unlinks every child.
ChildLinksHaveParents ==
  \A p \in DOMAIN node : \A c \in node[p].children \cap DOMAIN node : p \in node[c].parents
=============================================================================
