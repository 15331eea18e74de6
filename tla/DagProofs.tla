----------------------------- MODULE DagProofs -----------------------------
(* Theorems about Dag, for every finite or infinite set of hashes, every    *)
(* parent relation and every capacity.                                      *)
EXTENDS Dag, FiniteSetTheorems, TLAPS

\* The inductive invariant: the types, and every index against the nodes.
DagInv == TypeOK /\ IndexesMatchNodes

LEMMA InitInv == Init => DagInv
  BY DagAssumption DEF Init, DagInv, TypeOK, IndexesMatchNodes, IsMap, UnfinalizedOf, ByHeight,
     Childless

\* rebuild_index alone restores the indexes from well-formed nodes.
LEMMA RebuildRestores ==
  ASSUME IsMap(node', Hash, DagNode), RebuildIndex(node'), tips' = Childless(node'),
         cleanup' \subseteq Hash, loading' \in BOOLEAN
  PROVE  DagInv'
  BY DagAssumption DEF RebuildIndex, DagInv, TypeOK, IndexesMatchNodes, UnfinalizedOf, ByHeight,
     BySender, Childless

LEMMA LinkedType ==
  ASSUME TypeOK, NEW h \in Hash, NEW fin \in BOOLEAN, NEW k \in Height \cup {NoHeight}
  PROVE  /\ IsMap(Linked(h, fin, k), Hash, DagNode)
         /\ DOMAIN Linked(h, fin, k) = DOMAIN node \cup {h}
  BY DagAssumption DEF TypeOK, IsMap, Linked, DagNode, WithChildren, WithLinks

LEMMA AddNodeInv ==
  ASSUME DagInv, NEW h \in Hash, NEW fin \in BOOLEAN, NEW k \in Height \cup {NoHeight},
         fin \/ k = NoHeight, AddNode(h, fin, k)
  PROVE  DagInv'
<1> DEFINE n == Linked(h, fin, k)
           t == (tips \ Parents[h]) \cup {h}
<1>0. h \notin DOMAIN node /\ cleanup' = cleanup /\ loading' = loading
  BY DEF AddNode
<1>1. IsMap(n, Hash, DagNode) /\ DOMAIN n = DOMAIN node \cup {h}
  BY LinkedType DEF DagInv
<1>2. t = Childless(n)
  <2>1. \A x \in DOMAIN n : n[x].children = {} <=> x \in t
    BY <1>0, <1>1, DagAssumption DEF Linked, WithChildren, WithLinks, DagInv, TypeOK, IsMap, DagNode, IndexesMatchNodes, Childless
  <2>2. t \subseteq DOMAIN n
    BY <1>1 DEF DagInv, TypeOK
  <2>3. QED
    BY <2>1, <2>2 DEF Childless
<1>3. CASE Cardinality(DOMAIN n) > MaxNodes
  <2>1. PICK R : node' = Without(n, R) /\ tips' = t \ R /\ RebuildIndex(node')
    BY <1>3 DEF AddNode
  <2>2. IsMap(node', Hash, DagNode)
    BY <2>1, <1>1 DEF Without, Restrict, IsMap
  <2>3. tips' = Childless(node')
    BY <2>1, <1>2 DEF Without, Restrict, Childless
  <2>4. QED
    BY <2>1, <2>2, <2>3, <1>0, RebuildRestores DEF DagInv, TypeOK
<1>4. CASE ~(Cardinality(DOMAIN n) > MaxNodes)
  <2>1. node' = n /\ tips' = t /\ IndexAdded(h, fin, k) /\ disturbed' = disturbed
    BY <1>4 DEF AddNode
  <2>2. n[h].finalized = fin /\ n[h].checkpoint_height = k
    BY DEF Linked
  <2>3. \A x \in DOMAIN node : /\ n[x].finalized = node[x].finalized
                               /\ n[x].checkpoint_height = node[x].checkpoint_height
    BY <1>0 DEF Linked, WithChildren, WithLinks, DagInv, TypeOK, IsMap, DagNode
  <2>4. unfinalized' = UnfinalizedOf(n)
    BY <2>1, <2>2, <2>3, <1>0, <1>1 DEF IndexAdded, UnfinalizedOf, DagInv, IndexesMatchNodes
  <2>5. finalized_by_height' = ByHeight(n)
    BY <2>1, <2>2, <2>3, <1>0, <1>1, DagAssumption DEF IndexAdded, ByHeight, DagInv, IndexesMatchNodes
  <2>6. sender_unfinalized' \in [Sender -> SUBSET DOMAIN n]
    BY <2>1, <1>1 DEF IndexAdded, DagInv, TypeOK
  <2>7. finalized_by_height' \in [Height -> SUBSET DOMAIN n]
    BY <2>5 DEF ByHeight
  <2>8. QED
    BY <2>1, <2>4, <2>5, <2>6, <2>7, <1>0, <1>1, <1>2
       DEF DagInv, TypeOK, IndexesMatchNodes, UnfinalizedOf, Childless
<1>5. QED
  BY <1>3, <1>4

\* Unlinking keeps the nodes well formed, and recomputes the tips correctly from
\* the parents of the removed nodes alone.
LEMMA UnlinkedFacts ==
  ASSUME DagInv, NEW R
  PROVE  /\ IsMap(Unlinked(R), Hash, DagNode)
         /\ DOMAIN Unlinked(R) = DOMAIN node \ R
         /\ \A x \in DOMAIN node \ R :
              /\ Unlinked(R)[x].finalized = node[x].finalized
              /\ Unlinked(R)[x].checkpoint_height = node[x].checkpoint_height
         /\ TipsAfterUnlink(Unlinked(R), R) = Childless(Unlinked(R))
<1> DEFINE n == Unlinked(R)
<1>1. DOMAIN n = DOMAIN node \ R
  BY DEF Unlinked
<1>2. \A x \in DOMAIN n : n[x] = WithChildren(node[x], node[x].children \ {r \in R : x \in node[r].parents})
  BY <1>1 DEF Unlinked
<1>3. IsMap(n, Hash, DagNode)
  BY <1>1, <1>2 DEF DagInv, TypeOK, IsMap, DagNode, WithChildren, WithLinks
<1>4. \A x \in DOMAIN n : /\ n[x].finalized = node[x].finalized
                          /\ n[x].checkpoint_height = node[x].checkpoint_height
                          /\ n[x].children = node[x].children \ {r \in R : x \in node[r].parents}
  BY <1>2 DEF WithChildren, WithLinks
<1>5. \A x \in DOMAIN n : x \in tips => n[x].children = {}
  BY <1>1, <1>4 DEF DagInv, IndexesMatchNodes, Childless
<1>6. \A x \in DOMAIN n : n[x].children = {} =>
                             x \in tips \/ \E r \in R : x \in node[r].parents
  BY <1>1, <1>4 DEF DagInv, IndexesMatchNodes, Childless
<1>7. TipsAfterUnlink(n, R) = Childless(n)
  BY <1>1, <1>5, <1>6 DEF TipsAfterUnlink, Childless, DagInv, TypeOK
<1>8. QED
  BY <1>1, <1>3, <1>4, <1>7

LEMMA RemoveEachInv ==
  ASSUME DagInv, NEW R, RemoveEach(R)
  PROVE  DagInv'
  BY UnlinkedFacts, RebuildRestores DEF RemoveEach, DagInv, TypeOK

LEMMA EvictedInv ==
  ASSUME DagInv, NEW R, NEW b \in BOOLEAN, node' = Evicted(R, b), tips' = Childless(node'),
         RebuildIndex(node'), cleanup' = cleanup, loading' = loading
  PROVE  DagInv'
<1>1. IsMap(node', Hash, DagNode)
  BY DEF Evicted, DagInv, TypeOK, IsMap, DagNode, WithLinks
<1>2. QED
  BY <1>1, RebuildRestores DEF DagInv, TypeOK

\* prune_finalized_before maintains the indexes incrementally: it is correct
\* because the height index names finalized nodes only.
LEMMA PruneFinalizedInv ==
  ASSUME DagInv, NEW m, PruneFinalizedBefore(m)
  PROVE  DagInv'
<1> DEFINE R == Prunable(m)
<1>1. /\ node' = Unlinked(R)
      /\ tips' = TipsAfterUnlink(node', R)
      /\ sender_unfinalized' = DropFromSets(sender_unfinalized, R)
      /\ finalized_by_height' = DropFromSets(finalized_by_height, R)
      /\ unfinalized' = unfinalized /\ cleanup' = cleanup
      /\ loading' = loading /\ disturbed' = disturbed
  BY DEF PruneFinalizedBefore
<1>2. R \cap unfinalized = {}
  BY DEF Prunable, DagInv, IndexesMatchNodes, ByHeight, UnfinalizedOf
<1>3. /\ IsMap(node', Hash, DagNode)
      /\ DOMAIN node' = DOMAIN node \ R
      /\ tips' = Childless(node')
      /\ \A x \in DOMAIN node' : /\ node'[x].finalized = node[x].finalized
                                 /\ node'[x].checkpoint_height = node[x].checkpoint_height
  BY <1>1, UnlinkedFacts
<1>4. unfinalized' = UnfinalizedOf(node')
  BY <1>1, <1>2, <1>3 DEF UnfinalizedOf, DagInv, IndexesMatchNodes
<1>5. finalized_by_height' = ByHeight(node')
  BY <1>1, <1>3 DEF DropFromSets, ByHeight, DagInv, IndexesMatchNodes
<1>6. sender_unfinalized' \in [Sender -> SUBSET DOMAIN node']
  BY <1>1, <1>3 DEF DropFromSets, DagInv, TypeOK
<1>7. finalized_by_height' \in [Height -> SUBSET DOMAIN node']
  BY <1>5 DEF ByHeight
<1>8. unfinalized' \subseteq DOMAIN node' /\ tips' \subseteq DOMAIN node'
  BY <1>3, <1>4 DEF UnfinalizedOf, Childless
<1>9. QED
  BY <1>1, <1>3, <1>4, <1>5, <1>6, <1>7, <1>8 DEF DagInv, TypeOK, IndexesMatchNodes

\* Marking and unmarking leave the links alone.
LEMMA MarkedFacts ==
  ASSUME DagInv, NEW H \in SUBSET DOMAIN node, NEW k \in Height
  PROVE  /\ IsMap(MarkedAt(H, k), Hash, DagNode)
         /\ Childless(MarkedAt(H, k)) = tips
         /\ UnfinalizedOf(MarkedAt(H, k)) = unfinalized \ H
         /\ ByHeight(MarkedAt(H, k)) = MovedToHeight(H, k)
<1> DEFINE n == MarkedAt(H, k)
<1>1. DOMAIN n = DOMAIN node /\ IsMap(n, Hash, DagNode)
  BY DEF MarkedAt, DagInv, TypeOK, IsMap, DagNode, WithFinality
<1>2. \A x \in DOMAIN n : /\ n[x].children = node[x].children
                          /\ x \in H => n[x].finalized = TRUE /\ n[x].checkpoint_height = k
                          /\ x \notin H => n[x] = node[x]
  BY DEF MarkedAt, WithFinality
<1>3. ByHeight(n) = MovedToHeight(H, k)
  <2>1. \A j \in Height : ByHeight(n)[j] = MovedToHeight(H, k)[j]
    BY <1>1, <1>2 DEF ByHeight, MovedToHeight, DagInv, IndexesMatchNodes
  <2>2. QED
    BY <2>1 DEF ByHeight, MovedToHeight
<1>4. QED
  BY <1>1, <1>2, <1>3 DEF Childless, UnfinalizedOf, DagInv, IndexesMatchNodes

LEMMA MarkFinalizedInv ==
  ASSUME DagInv, NEW H \in SUBSET Hash, NEW k \in Height, MarkFinalized(H, k)
  PROVE  DagInv'
<1> DEFINE K == H \cap DOMAIN node
<1>1. /\ node' = MarkedAt(K, k) /\ finalized_by_height' = MovedToHeight(K, k)
      /\ unfinalized' = unfinalized \ H
      /\ sender_unfinalized' = DropFromSets(sender_unfinalized, K)
      /\ tips' = tips /\ cleanup' = cleanup /\ loading' = loading /\ disturbed' = disturbed
  BY DEF MarkFinalized
<1>2. unfinalized \ H = unfinalized \ K
  BY DEF DagInv, TypeOK
<1>3. DOMAIN node' = DOMAIN node
  BY <1>1 DEF MarkedAt
<1>4. IndexesMatchNodes' /\ IsMap(node', Hash, DagNode)
  BY <1>1, <1>2, MarkedFacts DEF IndexesMatchNodes
<1>5. finalized_by_height' \in [Height -> SUBSET DOMAIN node']
  BY <1>4 DEF IndexesMatchNodes, ByHeight
<1>6. sender_unfinalized' \in [Sender -> SUBSET DOMAIN node']
  BY <1>1, <1>3 DEF DropFromSets, DagInv, TypeOK
<1>7. QED
  BY <1>1, <1>3, <1>4, <1>5, <1>6 DEF DagInv, TypeOK

LEMMA MarkDeferredInv ==
  ASSUME DagInv, NEW h \in Hash, NEW k \in Height, MarkFinalizedDeferredCleanup(h, k)
  PROVE  DagInv'
<1>1. /\ h \in DOMAIN node /\ node' = MarkedAt({h}, k)
      /\ finalized_by_height' = MovedToHeight({h}, k)
      /\ unfinalized' = unfinalized \ {h} /\ sender_unfinalized' = sender_unfinalized
      /\ tips' = tips /\ cleanup' = cleanup \cup {h} /\ loading' = loading /\ disturbed' = disturbed
  BY DEF MarkFinalizedDeferredCleanup
<1>2. DOMAIN node' = DOMAIN node
  BY <1>1 DEF MarkedAt
<1>3. IndexesMatchNodes' /\ IsMap(node', Hash, DagNode)
  BY <1>1, MarkedFacts DEF IndexesMatchNodes
<1>4. finalized_by_height' \in [Height -> SUBSET DOMAIN node']
  BY <1>3 DEF IndexesMatchNodes, ByHeight
<1>5. QED
  BY <1>1, <1>2, <1>3, <1>4 DEF DagInv, TypeOK

LEMMA UnmarkedInv ==
  ASSUME DagInv, NEW H \in SUBSET DOMAIN node, Unmarked(H)
  PROVE  DagInv'
<1>1. /\ finalized_by_height' = DropFromSets(finalized_by_height, H)
      /\ unfinalized' = unfinalized \cup H
      /\ tips' = tips /\ cleanup' = cleanup /\ loading' = loading /\ disturbed' = disturbed
  BY DEF Unmarked
<1>2. DOMAIN node' = DOMAIN node /\ IsMap(node', Hash, DagNode)
  BY DEF Unmarked, DagInv, TypeOK, IsMap, DagNode, WithFinality
<1>3. \A x \in DOMAIN node : /\ node'[x].children = node[x].children
                             /\ x \in H => node'[x].finalized = FALSE
                             /\ x \notin H => node'[x] = node[x]
  BY DEF Unmarked, WithFinality
<1>4. tips' = Childless(node') /\ unfinalized' = UnfinalizedOf(node')
  BY <1>1, <1>2, <1>3 DEF Childless, UnfinalizedOf, DagInv, IndexesMatchNodes
<1>5. finalized_by_height' = ByHeight(node')
  BY <1>1, <1>2, <1>3 DEF DropFromSets, ByHeight, DagInv, IndexesMatchNodes
<1>6. sender_unfinalized' \in [Sender -> SUBSET DOMAIN node']
  BY <1>2 DEF Unmarked, DagInv, TypeOK
<1>7. finalized_by_height' \in [Height -> SUBSET DOMAIN node']
  BY <1>5 DEF ByHeight
<1>8. unfinalized' \subseteq DOMAIN node' /\ tips' \subseteq DOMAIN node'
  BY <1>4 DEF UnfinalizedOf, Childless
<1>9. QED
  BY <1>1, <1>2, <1>4, <1>5, <1>6, <1>7, <1>8 DEF DagInv, TypeOK, IndexesMatchNodes

LEMMA RebuildTipsInv ==
  ASSUME DagInv, RebuildTips
  PROVE  DagInv'
<1>1. DOMAIN node' = DOMAIN node /\ IsMap(node', Hash, DagNode)
  BY DEF RebuildTips, DagInv, TypeOK, IsMap, DagNode, WithChildren, WithLinks
<1>2. \A x \in DOMAIN node : /\ node'[x].finalized = node[x].finalized
                             /\ node'[x].checkpoint_height = node[x].checkpoint_height
  BY DEF RebuildTips, WithChildren, WithLinks
<1>3. UnfinalizedOf(node') = UnfinalizedOf(node) /\ ByHeight(node') = ByHeight(node)
  BY <1>1, <1>2 DEF UnfinalizedOf, ByHeight
<1>4. QED
  BY <1>1, <1>3 DEF RebuildTips, DagInv, TypeOK, IndexesMatchNodes, Childless

\* For every parent relation, capacity and history of insertions, finalizations,
\* rollbacks, prunings and evictions, the indexes of the DAG are well typed and
\* equal to what a rebuild from the nodes would compute.
THEOREM IndexInvariance == Spec => [](TypeOK /\ IndexesMatchNodes)
<1>1. DagInv /\ [Next]_vars => DagInv'
  <2> SUFFICES ASSUME DagInv, [Next]_vars PROVE DagInv'
    OBVIOUS
  <2>1. ASSUME NEW h \in Hash, AddNode(h, FALSE, NoHeight) PROVE DagInv'
    BY <2>1, AddNodeInv
  <2>2. ASSUME NEW h \in Hash, NEW k \in Height \cup {NoHeight}, AddNode(h, TRUE, k) PROVE DagInv'
    BY <2>2, AddNodeInv
  <2>3. CASE RebuildTips
    BY <2>3, RebuildTipsInv
  <2>4. ASSUME NEW H \in SUBSET Hash, NEW k \in Height, MarkFinalized(H, k) PROVE DagInv'
    BY <2>4, MarkFinalizedInv
  <2>5. ASSUME NEW h \in Hash, NEW k \in Height, MarkFinalizedDeferredCleanup(h, k) PROVE DagInv'
    BY <2>5, MarkDeferredInv
  <2>6. CASE CleanupSenderUnfinalizedBatch
    <3>1. sender_unfinalized' \in [Sender -> SUBSET DOMAIN node]
      BY <2>6 DEF CleanupSenderUnfinalizedBatch, DropFromSets, DagInv, TypeOK
    <3>2. QED
      BY <2>6, <3>1 DEF CleanupSenderUnfinalizedBatch, DagInv, TypeOK, IndexesMatchNodes
  <2>7. CASE AbandonCleanup
    BY <2>7 DEF AbandonCleanup, DagInv, TypeOK, IndexesMatchNodes
  <2>8. ASSUME NEW H \in SUBSET Hash, UnmarkFinalizedBatch(H) PROVE DagInv'
    BY <2>8, UnmarkedInv DEF UnmarkFinalizedBatch
  <2>9. ASSUME NEW H \in SUBSET Hash, RemoveNodesBatch(H) PROVE DagInv'
    BY <2>9, EvictedInv DEF RemoveNodesBatch
  <2>10. ASSUME NEW h \in Hash, Unfinalize(h) PROVE DagInv'
    BY <2>10, UnmarkedInv DEF Unfinalize
  <2>11. ASSUME NEW h \in Hash, RemoveNode(h) PROVE DagInv'
    BY <2>11, RemoveEachInv DEF RemoveNode
  <2>12. ASSUME NEW h \in Hash, PruneBranch(h) PROVE DagInv'
    BY <2>12, RemoveEachInv DEF PruneBranch
  <2>13. ASSUME NEW k \in Boundary, PruneFinalizedBefore(k) PROVE DagInv'
    BY <2>13, PruneFinalizedInv
  <2>14. ASSUME NEW k \in Boundary, EvictFinalizedBefore(k) PROVE DagInv'
    BY <2>14, EvictedInv DEF EvictFinalizedBefore
  <2>15. CASE UNCHANGED vars
    BY <2>15 DEF vars, DagInv, TypeOK, IndexesMatchNodes
  <2>16. QED
    BY <2>1, <2>2, <2>3, <2>4, <2>5, <2>6, <2>7, <2>8, <2>9, <2>10, <2>11, <2>12, <2>13, <2>14,
       <2>15 DEF Next
<1>2. QED
  BY <1>1, InitInv, PTL DEF Spec, DagInv

-----------------------------------------------------------------------------
(* The links.                                                              *)

\* What makes ChildLinksHaveParents inductive: prune_oldest leaves the removed
\* hash in its parents' child lists, and a later add_node of that hash brings
\* back the parents its transaction names.  So also a child that is absent
\* names the parent that lists it.
LinkInv ==
  /\ \A c \in DOMAIN node : node[c].parents \subseteq Parents[c]
  /\ \A p \in DOMAIN node : \A c \in node[p].children :
       IF c \in DOMAIN node THEN p \in node[c].parents ELSE p \in Parents[c]

\* Nodes that keep their links, or lose only nodes and links to absent ones.
LEMMA SameLinks ==
  ASSUME LinkInv, DOMAIN node' \subseteq DOMAIN node,
         \A x \in DOMAIN node' : /\ node'[x].parents = node[x].parents
                                 /\ node'[x].children \subseteq node[x].children
  PROVE  LinkInv'
  BY DEF LinkInv

LEMMA AddNodeLinks ==
  ASSUME DagInv, LinkInv, NEW h \in Hash, NEW fin \in BOOLEAN, NEW k \in Height \cup {NoHeight},
         AddNode(h, fin, k)
  PROVE  LinkInv'
<1> DEFINE n == Linked(h, fin, k)
<1>1. h \notin DOMAIN node /\ DOMAIN n = DOMAIN node \cup {h}
  BY DEF AddNode, Linked
<1>2. n[h].parents = Parents[h] /\ n[h].children = {}
  BY DEF Linked
<1>3. \A x \in DOMAIN node :
        /\ n[x].parents = node[x].parents
        /\ n[x].children = node[x].children \cup (IF x \in Parents[h] THEN {h} ELSE {})
  BY <1>1 DEF Linked, WithChildren, WithLinks, DagInv, TypeOK, IsMap, DagNode
<1>4. DOMAIN node' \subseteq DOMAIN n /\ \A x \in DOMAIN node' : node'[x] = n[x]
  BY DEF AddNode, Without, Restrict
<1>5. \A c \in DOMAIN n : n[c].parents \subseteq Parents[c]
  BY <1>1, <1>2, <1>3 DEF LinkInv
<1>6. ASSUME NEW p \in DOMAIN n, NEW c \in n[p].children
      PROVE  IF c \in DOMAIN n THEN p \in n[c].parents ELSE p \in Parents[c]
  <2>1. p \in DOMAIN node
    BY <1>1, <1>2, <1>6
  <2>2. CASE c = h
    <3>1. c \in node[p].children => p \in Parents[h]
      BY <1>1, <2>1, <2>2 DEF LinkInv
    <3>2. QED BY <1>1, <1>2, <1>3, <1>6, <2>1, <2>2, <3>1
  <2>3. CASE c # h
    BY <1>1, <1>3, <1>6, <2>1, <2>3 DEF LinkInv
  <2>4. QED BY <2>2, <2>3
<1>7. QED
  BY <1>4, <1>5, <1>6 DEF LinkInv

LEMMA UnlinkedLinks ==
  ASSUME DagInv, LinkInv, NEW R, node' = Unlinked(R)
  PROVE  LinkInv'
  BY SameLinks DEF Unlinked, WithChildren, WithLinks

LEMMA EvictedLinks ==
  ASSUME DagInv, LinkInv, NEW R, NEW b \in BOOLEAN, node' = Evicted(R, b)
  PROVE  LinkInv'
<1>1. DOMAIN node' = DOMAIN node \ R
  BY DEF Evicted
<1>2. \A x \in DOMAIN node' : /\ node'[x].parents = node[x].parents \ R
                              /\ node'[x].children = node[x].children \ R
  BY <1>1 DEF Evicted, WithLinks
<1>3. QED
  BY <1>1, <1>2 DEF LinkInv

LEMMA RebuildTipsLinks ==
  ASSUME DagInv, LinkInv, RebuildTips
  PROVE  LinkInv'
<1>1. DOMAIN node' = DOMAIN node
  BY DEF RebuildTips
<1>2. \A x \in DOMAIN node :
        /\ node'[x].parents = node[x].parents
        /\ node'[x].children = {c \in DOMAIN node : x \in node[c].parents /\ c # x}
  BY DEF RebuildTips, WithChildren, WithLinks
<1>3. QED
  BY <1>1, <1>2 DEF LinkInv

LEMMA MarkLinks ==
  ASSUME LinkInv, NEW H, NEW k,
         \/ node' = MarkedAt(H, k)
         \/ node' = [h \in DOMAIN node |->
                      IF h \in H THEN WithFinality(node[h], FALSE, NoHeight) ELSE node[h]]
  PROVE  LinkInv'
<1>1. DOMAIN node' = DOMAIN node
  BY DEF MarkedAt
<1>2. \A x \in DOMAIN node : node'[x].parents = node[x].parents /\ node'[x].children = node[x].children
  BY DEF MarkedAt, WithFinality
<1>3. QED
  BY <1>1, <1>2, SameLinks

\* Whatever is inserted, pruned by capacity, evicted, removed and inserted again,
\* a present child names every parent that lists it, so remove_node and
\* prune_finalized_before, which follow parent links, leave no dangling child.
THEOREM LinkInvariance == Spec => []ChildLinksHaveParents
<1>1. Init => LinkInv
  BY DEF Init, LinkInv
<1>2. DagInv /\ LinkInv /\ [Next]_vars => LinkInv'
  <2> SUFFICES ASSUME DagInv, LinkInv, [Next]_vars PROVE LinkInv'
    OBVIOUS
  <2>1. ASSUME NEW h \in Hash, NEW fin \in BOOLEAN, NEW k \in Height \cup {NoHeight}, AddNode(h, fin, k)
        PROVE  LinkInv'
    BY <2>1, AddNodeLinks
  <2>2. CASE RebuildTips
    BY <2>2, RebuildTipsLinks
  <2>3. ASSUME NEW H, NEW k,
               MarkFinalized(H, k) \/ MarkFinalizedDeferredCleanup(H, k)
        PROVE  LinkInv'
    BY <2>3, MarkLinks DEF MarkFinalized, MarkFinalizedDeferredCleanup
  <2>4. ASSUME NEW H, UnmarkFinalizedBatch(H) \/ Unfinalize(H) PROVE LinkInv'
    BY <2>4, MarkLinks DEF UnmarkFinalizedBatch, Unfinalize, Unmarked
  <2>5. ASSUME NEW H, RemoveNodesBatch(H) PROVE LinkInv'
    BY <2>5, EvictedLinks DEF RemoveNodesBatch
  <2>6. ASSUME NEW h, RemoveNode(h) \/ PruneBranch(h) PROVE LinkInv'
    BY <2>6, UnlinkedLinks DEF RemoveNode, PruneBranch, RemoveEach
  <2>7. ASSUME NEW k, PruneFinalizedBefore(k) PROVE LinkInv'
    BY <2>7, UnlinkedLinks DEF PruneFinalizedBefore
  <2>8. ASSUME NEW k, EvictFinalizedBefore(k) PROVE LinkInv'
    BY <2>8, EvictedLinks DEF EvictFinalizedBefore
  <2>9. CASE CleanupSenderUnfinalizedBatch \/ AbandonCleanup \/ UNCHANGED vars
    BY <2>9 DEF CleanupSenderUnfinalizedBatch, AbandonCleanup, vars, LinkInv
  <2>10. QED
    BY <2>1, <2>2, <2>3, <2>4, <2>5, <2>6, <2>7, <2>8, <2>9 DEF Next
<1>3. LinkInv => ChildLinksHaveParents
  BY DEF LinkInv, ChildLinksHaveParents
<1>4. Spec => []DagInv
  BY IndexInvariance, PTL DEF DagInv
<1>5. QED
  BY <1>1, <1>2, <1>3, <1>4, PTL DEF Spec

-----------------------------------------------------------------------------
(* The per-sender index.                                                   *)

\* SenderIndexOutsideWindow is inductive once it also says that an unfinalized
\* hash is missing under its sender only if the window was disturbed for it: an
\* abandoned clean-up ends the window and adds no such hash to the exceptions.
SenderInv ==
  /\ SenderIndexOutsideWindow
  /\ \A h \in unfinalized \ disturbed : h \in sender_unfinalized[From[h]]

\* rebuild_index repairs the index for every hash.
LEMMA RebuildSenders ==
  ASSUME IsMap(node', Hash, DagNode), RebuildIndex(node')
  PROVE  SenderInv'
  BY DagAssumption DEF RebuildIndex, SenderInv, SenderIndexOutsideWindow, BySender, UnfinalizedOf, IsMap

LEMMA AddNodeSenders ==
  ASSUME DagInv, DagInv', SenderInv, NEW h \in Hash, NEW fin \in BOOLEAN,
         NEW k \in Height \cup {NoHeight}, AddNode(h, fin, k)
  PROVE  SenderInv'
<1>1. CASE RebuildIndex(node')
  BY <1>1, RebuildSenders DEF DagInv, TypeOK
<1>2. CASE IndexAdded(h, fin, k) /\ UNCHANGED disturbed
  <2>1. h \notin DOMAIN node /\ cleanup' = cleanup
    BY DEF AddNode
  <2>2. /\ unfinalized' = IF fin THEN unfinalized ELSE unfinalized \cup {h}
        /\ \A s \in Sender : sender_unfinalized'[s] =
             sender_unfinalized[s] \cup (IF ~fin /\ From[h] = s THEN {h} ELSE {})
    BY <1>2 DEF IndexAdded
  <2>3. h \notin unfinalized /\ \A s \in Sender : h \notin sender_unfinalized[s]
    BY <2>1 DEF DagInv, TypeOK
  <2>4. \A x \in Hash : From[x] \in Sender
    BY DagAssumption
  <2>5. unfinalized \subseteq Hash
    BY DEF DagInv, TypeOK, IsMap
  <2>6. QED
    BY <1>2, <2>1, <2>2, <2>3, <2>4, <2>5 DEF SenderInv, SenderIndexOutsideWindow
<1>3. QED
  BY <1>1, <1>2 DEF AddNode

\* Hashes that leave the unfinalized set leave the index with it.
LEMMA DroppedSenders ==
  ASSUME DagInv, SenderInv, NEW K, NEW H, H \cap DOMAIN node \subseteq K,
         K \cap unfinalized' = {},
         unfinalized' = unfinalized \ H, sender_unfinalized' = DropFromSets(sender_unfinalized, K),
         cleanup' = cleanup, disturbed' = disturbed
  PROVE  SenderInv'
<1>1. \A s \in Sender : sender_unfinalized'[s] = sender_unfinalized[s] \ K
  BY DEF DropFromSets, DagInv, TypeOK
<1>2. \A x \in Hash : From[x] \in Sender
  BY DagAssumption
<1>3. unfinalized \subseteq Hash /\ unfinalized \subseteq DOMAIN node
  BY DEF DagInv, TypeOK, IsMap
<1>4. \A s \in Sender : sender_unfinalized[s] \subseteq DOMAIN node
  BY DEF DagInv, TypeOK
<1>5. QED
  BY <1>1, <1>2, <1>3, <1>4 DEF SenderInv, SenderIndexOutsideWindow

LEMMA UnmarkedSenders ==
  ASSUME DagInv, SenderInv, NEW H \in SUBSET DOMAIN node, Unmarked(H)
  PROVE  SenderInv'
<1>1. \A s \in Sender : sender_unfinalized'[s] = sender_unfinalized[s] \cup {h \in H : From[h] = s}
  BY DEF Unmarked
<1>2. unfinalized' = unfinalized \cup H /\ cleanup' = cleanup /\ disturbed' = disturbed
  BY DEF Unmarked
<1>3. \A x \in Hash : From[x] \in Sender
  BY DagAssumption
<1>4. unfinalized \subseteq Hash /\ H \subseteq Hash
  BY DEF DagInv, TypeOK, IsMap
<1>5. QED
  BY <1>1, <1>2, <1>3, <1>4 DEF SenderInv, SenderIndexOutsideWindow

\* The batch clean-up ends the window: what it finds unfinalized again (a
\* rollback in between) it drops from the index, and only that.
LEMMA CleanupSenders ==
  ASSUME DagInv, SenderInv, CleanupSenderUnfinalizedBatch
  PROVE  SenderInv'
<1>1. \A s \in Sender : sender_unfinalized'[s] = sender_unfinalized[s] \ (cleanup \cap DOMAIN node)
  BY DEF CleanupSenderUnfinalizedBatch, DropFromSets, DagInv, TypeOK
<1>2. cleanup' = {} /\ disturbed' = disturbed \cup (cleanup \cap unfinalized) /\ unfinalized' = unfinalized
  BY DEF CleanupSenderUnfinalizedBatch
<1>3. \A x \in Hash : From[x] \in Sender
  BY DagAssumption
<1>4. unfinalized \subseteq Hash /\ \A s \in Sender : sender_unfinalized[s] \subseteq DOMAIN node
  BY DEF DagInv, TypeOK, IsMap
<1>5. QED
  BY <1>1, <1>2, <1>3, <1>4 DEF SenderInv, SenderIndexOutsideWindow

\* The index that get_pending_balance_and_nonce reads is the unfinalized set of
\* each sender, for every history, outside the window that
\* mark_finalized_deferred_cleanup opens and what went wrong in it.
THEOREM SenderIndexInvariance == Spec => []SenderIndexOutsideWindow
<1>1. Init => SenderInv
  BY DagAssumption DEF Init, SenderInv, SenderIndexOutsideWindow
<1>2. DagInv /\ DagInv' /\ SenderInv /\ [Next]_vars => SenderInv'
  <2> SUFFICES ASSUME DagInv, DagInv', SenderInv, [Next]_vars PROVE SenderInv'
    OBVIOUS
  <2>0. IsMap(node', Hash, DagNode)
    BY DEF DagInv, TypeOK
  <2>1. ASSUME NEW h \in Hash, NEW fin \in BOOLEAN, NEW k \in Height \cup {NoHeight}, AddNode(h, fin, k)
        PROVE  SenderInv'
    BY <2>1, AddNodeSenders
  <2>2. ASSUME NEW H \in SUBSET Hash, NEW k \in Height, MarkFinalized(H, k) PROVE SenderInv'
    BY <2>2, DroppedSenders DEF MarkFinalized
  <2>3. ASSUME NEW h \in Hash, NEW k \in Height, MarkFinalizedDeferredCleanup(h, k) PROVE SenderInv'
    BY <2>3, DagAssumption DEF MarkFinalizedDeferredCleanup, SenderInv, SenderIndexOutsideWindow, DagInv, TypeOK, IsMap
  <2>4. CASE CleanupSenderUnfinalizedBatch
    BY <2>4, CleanupSenders
  <2>5. CASE AbandonCleanup
    BY <2>5, DagAssumption DEF AbandonCleanup, SenderInv, SenderIndexOutsideWindow, DagInv, TypeOK, IsMap
  <2>6. ASSUME NEW H, UnmarkFinalizedBatch(H) \/ Unfinalize(H) PROVE SenderInv'
    BY <2>6, UnmarkedSenders DEF UnmarkFinalizedBatch, Unfinalize
  <2>7. ASSUME NEW H, RemoveNodesBatch(H) \/ RemoveNode(H) \/ PruneBranch(H) \/ EvictFinalizedBefore(H)
        PROVE  SenderInv'
    BY <2>0, <2>7, RebuildSenders DEF RemoveNodesBatch, RemoveNode, PruneBranch, RemoveEach, EvictFinalizedBefore
  <2>8. ASSUME NEW m, PruneFinalizedBefore(m) PROVE SenderInv'
    <3>1. Prunable(m) \cap unfinalized = {}
      BY DEF Prunable, DagInv, IndexesMatchNodes, ByHeight, UnfinalizedOf
    <3>2. QED
      BY <2>8, <3>1, DroppedSenders DEF PruneFinalizedBefore
  <2>9. CASE RebuildTips \/ UNCHANGED vars
    BY <2>9 DEF RebuildTips, vars, SenderInv, SenderIndexOutsideWindow
  <2>10. QED
    BY <2>1, <2>2, <2>3, <2>4, <2>5, <2>6, <2>7, <2>8, <2>9 DEF Next
<1>3. SenderInv => SenderIndexOutsideWindow
  BY DEF SenderInv
<1>4. Spec => []DagInv
  BY IndexInvariance, PTL DEF DagInv
<1>5. QED
  BY <1>1, <1>2, <1>3, <1>4, PTL DEF Spec

-----------------------------------------------------------------------------
(* What pruning and eviction may remove.                                   *)

FiniteNodes == IsFiniteSet(DOMAIN node)

\* Only add_node adds a node, and only one.
LEMMA NodesGrow ==
  ASSUME DagInv, [Next]_vars
  PROVE  \/ DOMAIN node' \subseteq DOMAIN node
         \/ \E h \in Hash : DOMAIN node' \subseteq DOMAIN node \cup {h}
<1>1. ASSUME NEW h \in Hash, NEW fin \in BOOLEAN, NEW k \in Height \cup {NoHeight}, AddNode(h, fin, k)
      PROVE  DOMAIN node' \subseteq DOMAIN node \cup {h}
  BY <1>1 DEF AddNode, Linked, Without, Restrict
<1>2. ASSUME NEW H, NEW k,
             \/ RebuildTips \/ MarkFinalized(H, k) \/ MarkFinalizedDeferredCleanup(H, k)
             \/ CleanupSenderUnfinalizedBatch \/ AbandonCleanup
             \/ UnmarkFinalizedBatch(H) \/ Unfinalize(H) \/ UNCHANGED vars
      PROVE  DOMAIN node' \subseteq DOMAIN node
  BY <1>2 DEF RebuildTips, MarkFinalized, MarkFinalizedDeferredCleanup, MarkedAt, Unmarked,
     CleanupSenderUnfinalizedBatch, AbandonCleanup, UnmarkFinalizedBatch, Unfinalize, vars
<1>3. ASSUME NEW H, \/ RemoveNodesBatch(H) \/ RemoveNode(H) \/ PruneBranch(H)
                    \/ PruneFinalizedBefore(H) \/ EvictFinalizedBefore(H)
      PROVE  DOMAIN node' \subseteq DOMAIN node
  BY <1>3 DEF RemoveNodesBatch, RemoveNode, PruneBranch, RemoveEach, PruneFinalizedBefore,
     EvictFinalizedBefore, Evicted, Unlinked
<1>4. QED
  BY <1>1, <1>2, <1>3 DEF Next

LEMMA FiniteNodesStep == DagInv /\ FiniteNodes /\ [Next]_vars => FiniteNodes'
<1> SUFFICES ASSUME DagInv, FiniteNodes, [Next]_vars PROVE IsFiniteSet(DOMAIN node')
  BY DEF FiniteNodes
<1>1. \A h : IsFiniteSet(DOMAIN node \cup {h})
  BY FS_AddElement DEF FiniteNodes
<1>2. QED
  BY <1>1, NodesGrow, FS_Subset DEF FiniteNodes

\* The new node is a tip, so prune_oldest keeps it; unless the DAG is beyond twice
\* its capacity it selects finalized nodes only.
LEMMA PruneOldestKeeps ==
  ASSUME NEW n, NEW t, NEW R \in PruneOldest(n, t)
  PROVE  /\ R \cap t = {}
         /\ \/ \A x \in R : n[x].finalized
            \/ Cardinality(DOMAIN n) > MaxNodes * 2
<1> DEFINE excess == Cardinality(DOMAIN n) - (MaxNodes * 3) \div 4
           fin == {h \in DOMAIN n \ t : n[h].finalized}
           severe == Cardinality(DOMAIN n) > MaxNodes * 2
           aged(c) == {h \in DOMAIN n \ t : ~n[h].finalized /\ Timestamp[h] < c}
           Aged(S) == IF severe /\ Cardinality(S) < excess
                      THEN UNION {Oldest(aged(c), excess - Cardinality(S)) :
                                    c \in {Timestamp[h] : h \in Hash} \cup {0}}
                      ELSE {{}}
<1>1. PICK T \in PruneSelections(n, t) : R \subseteq T
  BY DEF PruneOldest
<1>2. PruneSelections(n, t) = UNION {{S \cup U : U \in Aged(S)} : S \in Oldest(fin, excess)}
  BY DEF PruneSelections
<1>3. PICK S \in Oldest(fin, excess) : T \in {S \cup U : U \in Aged(S)}
  BY <1>1, <1>2
<1>4. PICK U \in Aged(S) : T = S \cup U
  BY <1>3
<1>5. S \subseteq fin
  BY <1>3 DEF Oldest
<1>6. U = {} \/ (severe /\ U \cap t = {})
  <2>1. CASE severe /\ Cardinality(S) < excess
    <3>1. PICK c : U \in Oldest(aged(c), excess - Cardinality(S))
      BY <1>4, <2>1
    <3>2. U \subseteq aged(c)
      BY <3>1 DEF Oldest
    <3>3. QED
      BY <2>1, <3>2
  <2>2. CASE ~(severe /\ Cardinality(S) < excess)
    BY <1>4, <2>2
  <2>3. QED
    BY <2>1, <2>2
<1>7. QED
  BY <1>1, <1>4, <1>5, <1>6

\* add_node loses an unfinalized transaction only beyond twice the capacity.
LEMMA AddNodeKeeps ==
  ASSUME DagInv, FiniteNodes, NEW h \in Hash, NEW fin \in BOOLEAN, NEW k \in Height \cup {NoHeight},
         AddNode(h, fin, k)
  PROVE  \/ unfinalized \subseteq DOMAIN node'
         \/ Cardinality(DOMAIN node) >= 2 * MaxNodes /\ DOMAIN node' \ DOMAIN node # {}
<1> DEFINE n == Linked(h, fin, k)
           t == (tips \ Parents[h]) \cup {h}
<1>1. h \notin DOMAIN node /\ DOMAIN n = DOMAIN node \cup {h} /\ unfinalized \subseteq DOMAIN node
  BY DEF AddNode, Linked, DagInv, TypeOK
<1>2. CASE node' = n
  BY <1>1, <1>2
<1>3. CASE \E R \in PruneOldest(n, t) : node' = Without(n, R)
  <2>1. PICK R \in PruneOldest(n, t) : node' = Without(n, R)
    BY <1>3
  <2>2. DOMAIN node' = DOMAIN n \ R
    BY <2>1 DEF Without, Restrict
  <2>3. R \cap t = {} /\ ((\A x \in R : n[x].finalized) \/ Cardinality(DOMAIN n) > MaxNodes * 2)
    BY <2>1, PruneOldestKeeps
  <2>4. CASE \A x \in R : n[x].finalized
    <3>1. \A x \in DOMAIN node : n[x].finalized = node[x].finalized
      BY <1>1 DEF Linked, WithChildren, WithLinks, DagInv, TypeOK, IsMap, DagNode
    <3>2. \A x \in unfinalized : x \in DOMAIN node /\ ~node[x].finalized
      BY DEF DagInv, IndexesMatchNodes, UnfinalizedOf
    <3>3. QED
      BY <1>1, <2>2, <2>4, <3>1, <3>2
  <2>5. CASE Cardinality(DOMAIN n) > MaxNodes * 2
    <3>1. Cardinality(DOMAIN n) = Cardinality(DOMAIN node) + 1 /\ Cardinality(DOMAIN node) \in Nat
      BY <1>1, FS_AddElement, FS_CardinalityType DEF FiniteNodes
    <3>2. Cardinality(DOMAIN node) >= 2 * MaxNodes
      BY <2>5, <3>1, DagAssumption
    <3>3. h \in DOMAIN node' \ DOMAIN node
      BY <1>1, <2>2, <2>3
    <3>4. QED
      BY <3>2, <3>3
  <2>6. QED
    BY <2>3, <2>4, <2>5
<1>4. QED
  BY <1>2, <1>3 DEF AddNode

\* In every DAG, whatever its capacity, transactions, links and timestamps, the
\* pruners by height and by capacity lose no unfinalized transaction: it leaves by
\* remove_nodes_batch, remove_node or prune_losing_branch naming it, or in an
\* add_node that finds more than twice max_nodes.
THEOREM UnfinalizedKept == Spec => UnfinalizedNeverEvicted
<1> DEFINE Kept == \/ unfinalized \subseteq DOMAIN node'
                   \/ Cardinality(DOMAIN node) >= 2 * MaxNodes /\ DOMAIN node' \ DOMAIN node # {}
                   \/ \E H \in SUBSET Hash : DOMAIN node \ H = DOMAIN node' /\ RemoveNodesBatch(H)
                   \/ \E x \in unfinalized \ DOMAIN node' : RemoveNode(x) \/ PruneBranch(x)
<1>1. DagInv /\ FiniteNodes /\ [Next]_vars => [Kept]_vars
  <2> SUFFICES ASSUME DagInv, FiniteNodes, Next PROVE Kept
    OBVIOUS
  <2>0. unfinalized \subseteq DOMAIN node /\ \A x \in unfinalized : ~node[x].finalized
    BY DEF DagInv, TypeOK, IndexesMatchNodes, UnfinalizedOf
  <2>1. ASSUME NEW h \in Hash, NEW fin \in BOOLEAN, NEW k \in Height \cup {NoHeight}, AddNode(h, fin, k)
        PROVE  Kept
    BY <2>1, AddNodeKeeps
  <2>2. ASSUME NEW H, NEW k,
               \/ RebuildTips \/ MarkFinalized(H, k) \/ MarkFinalizedDeferredCleanup(H, k)
               \/ CleanupSenderUnfinalizedBatch \/ AbandonCleanup
               \/ UnmarkFinalizedBatch(H) \/ Unfinalize(H)
        PROVE  Kept
    <3>1. DOMAIN node' = DOMAIN node
      BY <2>2 DEF RebuildTips, MarkFinalized, MarkFinalizedDeferredCleanup, MarkedAt, Unmarked,
         CleanupSenderUnfinalizedBatch, AbandonCleanup, UnmarkFinalizedBatch, Unfinalize
    <3>2. QED
      BY <2>0, <3>1
  <2>3. ASSUME NEW H \in SUBSET Hash, RemoveNodesBatch(H) PROVE Kept
    <3>1. DOMAIN node \ H = DOMAIN node'
      BY <2>3 DEF RemoveNodesBatch, Evicted
    <3>2. QED
      BY <2>3, <3>1
  <2>4. ASSUME NEW h \in Hash, RemoveNode(h) PROVE Kept
    <3>1. DOMAIN node' = DOMAIN node \ {h}
      BY <2>4 DEF RemoveNode, RemoveEach, Unlinked
    <3>2. CASE h \in unfinalized
      BY <2>4, <3>1, <3>2
    <3>3. CASE h \notin unfinalized
      BY <2>0, <3>1, <3>3
    <3>4. QED
      BY <3>2, <3>3
  <2>5. ASSUME NEW h \in Hash, PruneBranch(h) PROVE Kept
    <3>1. h \in unfinalized
      BY <2>5 DEF PruneBranch, DagInv, IndexesMatchNodes, UnfinalizedOf
    <3>2. h \in Branch(h)
      BY <2>5 DEF PruneBranch, Branch
    <3>3. h \notin DOMAIN node'
      BY <2>5, <3>2 DEF PruneBranch, RemoveEach, Unlinked
    <3>4. QED
      BY <2>5, <3>1, <3>3
  <2>6. ASSUME NEW m, PruneFinalizedBefore(m) PROVE Kept
    <3>1. Prunable(m) \cap unfinalized = {}
      BY DEF Prunable, DagInv, IndexesMatchNodes, ByHeight, UnfinalizedOf
    <3>2. DOMAIN node' = DOMAIN node \ Prunable(m)
      BY <2>6 DEF PruneFinalizedBefore, Unlinked
    <3>3. QED
      BY <2>0, <3>1, <3>2
  <2>7. ASSUME NEW m, EvictFinalizedBefore(m) PROVE Kept
    <3>1. DOMAIN node' = DOMAIN node \ Evictable(m)
      BY <2>7 DEF EvictFinalizedBefore, Evicted
    <3>2. QED
      BY <2>0, <3>1 DEF Evictable
  <2>8. QED
    BY <2>1, <2>2, <2>3, <2>4, <2>5, <2>6, <2>7 DEF Next
<1>2. Init => FiniteNodes
  BY FS_EmptySet DEF Init, FiniteNodes
<1>3. Spec => []DagInv
  BY IndexInvariance, PTL DEF DagInv
<1>4. QED
  BY <1>1, <1>2, <1>3, FiniteNodesStep, PTL DEF Spec, UnfinalizedNeverEvicted
=============================================================================
