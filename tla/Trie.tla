-------------------------------- MODULE Trie --------------------------------
(***************************************************************************)
(* The sparse Merkle trie (rinku-node/src/sparse_merkle_trie.rs) that      *)
(* commits to account and contract state, with the key/value interface of  *)
(* contract_storage.rs.  Hashing is injective and a hash is a sequence:    *)
(* <<>> for an absent leaf, <<v>> for a leaf with value v, <<l, r>> for a  *)
(* node.  A stored node is then known by its hash alone, and the caches    *)
(* are sets of hashes.  A key is its path, a sequence of Depth bits.       *)
(***************************************************************************)
EXTENDS Integers, Sequences, FiniteSets, SequencesExt, FiniteSetsExt, Maps

CONSTANTS
  Depth,   \* TREE_DEPTH
  Key,     \* the keys used
  Value,
  MaxOps   \* bound: operations

VARIABLES
  root,    \* root_hash
  dirty,   \* dirty_nodes
  cache,   \* cache
  nodes,   \* the trie table of the storage
  content, \* what was written and not deleted: key -> value
  failed,  \* a flush has failed
  ops

trieVars == <<root, dirty, cache, nodes, content, failed, ops>>

RECURSIVE DefaultHash(_)
DefaultHash(d) == IF d = Depth THEN <<>> ELSE <<DefaultHash(d + 1), DefaultHash(d + 1)>>

(* get_node finds a node in the dirty nodes, the cache or the storage; one *)
(* that is nowhere counts as empty.                                        *)
Present(h) == h \in dirty \union cache \union nodes

Children(h, d) ==
  IF h # DefaultHash(d) /\ Present(h) THEN h ELSE <<DefaultHash(d + 1), DefaultHash(d + 1)>>

Side(key, d) == IF key[d + 1] = 1 THEN 2 ELSE 1

RECURSIVE GetFrom(_, _, _)
GetFrom(h, key, d) ==
  IF h = DefaultHash(d) \/ ~Present(h) THEN <<>>
  ELSE IF d = Depth THEN h ELSE GetFrom(h[Side(key, d)], key, d + 1)

Get(key) == GetFrom(root, key, 0)

(* set_recursive: the nodes of the new path, the root first. *)
RECURSIVE SetPath(_, _, _, _)
SetPath(h, key, d, leaf) ==
  IF d = Depth THEN <<leaf>>
  ELSE LET old == Children(h, d)
           below == SetPath(old[Side(key, d)], key, d + 1, leaf)
           new == [old EXCEPT ![Side(key, d)] = below[1]]
       IN <<new>> \o below

(* Mutant: a node with one default child counts as empty. *)
EmptiedEither(new, d) == IF DefaultHash(d + 1) \in {new[1], new[2]} THEN DefaultHash(d) ELSE new

(* A node with two default children is the default node. *)
Emptied(new, d) == IF new = <<DefaultHash(d + 1), DefaultHash(d + 1)>> THEN DefaultHash(d) ELSE new

RECURSIVE DeletePath(_, _, _)
DeletePath(h, key, d) ==
  IF h = DefaultHash(d) \/ d = Depth THEN <<DefaultHash(d)>>
  ELSE LET old == Children(h, d)
           below == DeletePath(old[Side(key, d)], key, d + 1)
       IN <<Emptied([old EXCEPT ![Side(key, d)] = below[1]], d)>> \o below

-----------------------------------------------------------------------------
(* Proofs: the siblings along the path, and for several keys the hashes of *)
(* the subtrees that hold none of them, in the order of the walk.          *)

RECURSIVE SiblingsFrom(_, _, _)
SiblingsFrom(h, key, d) ==
  IF d = Depth THEN <<>>
  ELSE LET c == Children(h, d)
       IN <<c[3 - Side(key, d)]>> \o SiblingsFrom(c[Side(key, d)], key, d + 1)

Prove(key) == [key |-> key, leaf |-> Get(key), siblings |-> SiblingsFrom(root, key, 0), root |-> root]

Verify(p) ==
  LET join(d, h) == IF Side(p.key, d) = 2 THEN <<p.siblings[d + 1], h>> ELSE <<h, p.siblings[d + 1]>>
  IN FoldRight(join, [k \in 1..Depth |-> k - 1], p.leaf) = p.root

OnSide(K, d, side) == {k \in K : Side(k, d) = side}

Helper(c, side) == c[3 - side]

RECURSIVE HelpersFrom(_, _, _)
HelpersFrom(h, K, d) ==
  IF d = Depth THEN <<>>
  ELSE LET c == Children(h, d)
           left == OnSide(K, d, 1)
           right == OnSide(K, d, 2)
       IN IF left = {} THEN <<[hash |-> Helper(c, 2), depth |-> d]>> \o HelpersFrom(c[2], right, d + 1)
          ELSE IF right = {} THEN <<[hash |-> Helper(c, 1), depth |-> d]>> \o HelpersFrom(c[1], left, d + 1)
          ELSE HelpersFrom(c[1], left, d + 1) \o HelpersFrom(c[2], right, d + 1)

ProveMulti(K) == [leafOf |-> [k \in K |-> Get(k)], helpers |-> HelpersFrom(root, K, 0), root |-> root]

(* verify_recursive consumes the helpers in order and returns how many are left over. *)
RECURSIVE Rebuild(_, _, _, _)
Rebuild(p, K, d, used) ==
  IF d = Depth THEN [hash |-> p.leafOf[CHOOSE k \in K : TRUE], used |-> used]
  ELSE LET left == OnSide(K, d, 1)
           right == OnSide(K, d, 2)
           given == used < Len(p.helpers) /\ p.helpers[used + 1].depth = d
           l == Rebuild(p, left, d + 1, used)
           r == Rebuild(p, right, d + 1, l.used)
           one == Rebuild(p, K, d + 1, used + 1)
       IN IF left # {} /\ right # {} THEN [hash |-> <<l.hash, r.hash>>, used |-> r.used]
          ELSE IF ~given THEN [hash |-> <<>>, used |-> used]
          ELSE [hash |-> IF left = {} THEN <<p.helpers[used + 1].hash, one.hash>>
                         ELSE <<one.hash, p.helpers[used + 1].hash>>,
                used |-> one.used]

VerifyMulti(p) ==
  LET r == Rebuild(p, DOMAIN p.leafOf, 0, 0) IN r.used = Len(p.helpers) /\ r.hash = p.root

-----------------------------------------------------------------------------
TrieInit ==
  /\ root = DefaultHash(0) /\ dirty = {} /\ cache = {} /\ nodes = {}
  /\ content = <<>> /\ failed = FALSE /\ ops = 0

Op == ops < MaxOps /\ ops' = ops + 1

Stored(path) == ToSet(path)

WriteKey(k, v) ==
  LET path == SetPath(root, k, 0, <<v>>)
  IN /\ Op /\ root' = path[1] /\ dirty' = dirty \union Stored(path)
     /\ content' = Insert(content, k, v)
     /\ UNCHANGED <<cache, nodes, failed>>

(* Default hashes are not stored. *)
DeleteKey(k) ==
  LET path == DeletePath(root, k, 0)
  IN /\ Op /\ root' = path[1]
     /\ dirty' = dirty \union {path[d + 1] : d \in {d \in 0..(Len(path) - 1) : path[d + 1] # DefaultHash(d)}}
     /\ content' = Without(content, {k})
     /\ UNCHANGED <<cache, nodes, failed>>

(* flush_to_storage drains the dirty nodes one by one; a write that fails  *)
(* ends it and the nodes that were still to come are gone.                 *)
Flush(written) ==
  /\ dirty # {} /\ Op
  /\ nodes' = nodes \union written /\ cache' = cache \union written /\ dirty' = {}
  /\ failed' = (failed \/ written # dirty)
  /\ UNCHANGED <<root, content>>

(* flush_async fills the cache only when all were written. *)
FlushAsync(written) ==
  /\ dirty # {} /\ Op
  /\ nodes' = nodes \union written /\ dirty' = {}
  /\ cache' = IF written = dirty THEN cache \union written ELSE cache
  /\ failed' = (failed \/ written # dirty)
  /\ UNCHANGED <<root, content>>

(* fork: a copy that has the dirty nodes in its cache.  with_root: a trie  *)
(* that has only the storage.                                              *)
Fork == Op /\ dirty # {} /\ cache' = cache \union dirty /\ dirty' = {} /\ UNCHANGED <<root, nodes, content, failed>>

WithRoot == Op /\ dirty = {} /\ cache \subseteq nodes /\ cache' = {} /\ UNCHANGED <<root, dirty, nodes, content, failed>>

TrieNext ==
  \/ \E k \in Key : DeleteKey(k) \/ \E v \in Value : WriteKey(k, v)
  \/ \E written \in {dirty} \union {dirty \ {h} : h \in dirty} : Flush(written) \/ FlushAsync(written)
  \/ Fork \/ WithRoot

-----------------------------------------------------------------------------
RECURSIVE RootOf(_, _)
RootOf(c, prefix) ==
  LET d == Len(prefix)
  IN IF \A k \in DOMAIN c : SubSeq(k, 1, d) # prefix THEN DefaultHash(d)
     ELSE IF d = Depth THEN <<c[prefix]>>
     ELSE <<RootOf(c, Append(prefix, 0)), RootOf(c, Append(prefix, 1))>>

(* The root depends on what is in the trie and not on how it came there:   *)
(* two nodes with the same accounts have the same state root, whatever     *)
(* they wrote, deleted, flushed, forked or reopened, as long as no write   *)
(* to the storage failed.                                                  *)
RootIsContent == ~failed => root = RootOf(content, <<>>)

(* Every key reads as last written, from memory or from the storage.       *)
ReadsContent == ~failed => \A k \in Key : Get(k) = IF k \in DOMAIN content THEN <<content[k]>> ELSE <<>>

(* Proofs of membership and of absence verify, for one key and for every   *)
(* set of keys, and do not for another value.                              *)
TrieProofsVerify ==
  ~failed =>
    /\ \A k \in Key : Verify(Prove(k)) /\ ~Verify([Prove(k) EXCEPT !.leaf = <<0>>])
    /\ \A K \in SUBSET Key \ {{}} :
         LET p == ProveMulti(K)
         IN VerifyMulti(p) /\ \A k \in K : ~VerifyMulti([p EXCEPT !.leafOf[k] = <<0>>])

(* Root, reads and proofs all show the content that was written.           *)
TrieShowsContent == RootIsContent /\ ReadsContent /\ TrieProofsVerify
=============================================================================
