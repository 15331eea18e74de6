------------------------ MODULE CheckpointChainProofs -----------------------
(***************************************************************************)
(* Whatever is delivered late, buffered, fetched or restored after a       *)
(* restart, a node's chain holds certified checkpoints only, and a fork    *)
(* decision taken on a stale chain never removes one below the tip.        *)
(***************************************************************************)
EXTENDS CheckpointConsensusProofs

-----------------------------------------------------------------------------
(* What enters a chain.                                                    *)

(* A chain of certified checkpoints, each at its own height. *)
GoodChain(c, heights, certs) ==
  /\ c \in Seq(Hash)
  /\ \A i \in 1..Len(c) : heights[c[i]] = Base + i /\ certs[c[i]] # {}

GoodBuffer(b, heights, certs) ==
  /\ b \in [Height -> Hash \union {0}]
  /\ \A h \in Height : b[h] # 0 => heights[b[h]] = h /\ certs[b[h]] # {}

(* Chains, the table on disk, buffers and pushed messages hold certified   *)
(* checkpoints only, and fork resolution works on a pushed one.            *)
ChainInv ==
  /\ chain \in [Node -> Seq(Hash)] /\ saved \in [Node -> Seq(Hash)]
  /\ buffer \in [Node -> [Height -> Hash \union {0}]]
  /\ fork_stage \in [Node -> {"none", "decided", "rolled_back"}] /\ fork \in [Node -> Hash \union {0}]
  /\ \A n \in Node : /\ GoodChain(chain[n], height_of, cert) /\ GoodChain(saved[n], height_of, cert)
                     /\ GoodBuffer(buffer[n], height_of, cert)
                     /\ fork_stage[n] # "none" => fork[n] \in pushed
  /\ \A x \in pushed : x \in Hash /\ cert[x] # {}

(* Once certified, always certified, at the same height. *)
Stays(heights, certs, heights2, certs2) ==
  \A x \in Hash : certs[x] # {} => certs2[x] # {} /\ heights2[x] = heights[x]

LEMMA EmptyNoQuorum == ~HasQuorum({})
<1>1. StakeOf[{}] = StakeOf[{}] + StakeOf[{}] /\ StakeOf[{}] \in Nat
  <2>1. \A S \in SUBSET Node : StakeOf[S] \in Nat
    BY ConsensusAssumption
  <2>2. \A S, T \in SUBSET Node :
          S \intersect T = {} => StakeOf[S \union T] = StakeOf[S] + StakeOf[T]
    BY ConsensusAssumption
  <2>3. {} \in SUBSET Node /\ {} \intersect {} = {} /\ {} \union {} = {}
    OBVIOUS
  <2> QED BY <2>1, <2>2, <2>3
<1>2. StakeOf[{}] = 0
  <2>1. \A k \in Nat : k = k + k => k = 0
    OBVIOUS
  <2> QED BY <1>1, <2>1
<1>3. StakeOf[Node] \in Nat /\ StakeOf[Node] > 0
  BY ConsensusAssumption
<1> QED BY <1>2, <1>3 DEF HasQuorum

LEMMA CertifiedStays ==
  ASSUME LockInv, [Next]_vars
  PROVE  Stays(height_of, cert, height_of', cert')
<1>0. \A x \in Hash : cert[x] # {} => height_of[x] \in Height /\ height_of[x] # 0
  BY EmptyNoQuorum, ConsensusAssumption DEF LockInv, SignTypes, LockCovers, VotesSigned, Height
<1>1. ASSUME NEW n \in Node, Certified(n) PROVE Stays(height_of, cert, height_of', cert')
  <2>1. signers[n] # {} /\ pending[n] \in Hash
    BY <1>1, EmptyNoQuorum DEF Certified, LockInv, VotesSigned
  <2> QED BY <1>1, <2>1 DEF Certified, Stays, proposals, LockInv, SignTypes
<1>2. ASSUME NEW n \in Node, NEW x \in Hash, Produce(n, x) PROVE Stays(height_of, cert, height_of', cert')
  BY <1>2, <1>0 DEF Produce, Stays, proposals, LockInv, SignTypes
<1>3. CASE UNCHANGED <<height_of, cert>>
  BY <1>3 DEF Stays
<1>4. ASSUME NEW n \in Node, Step(n) \/ SaveSnapshot(n) \/ Restart(n)
      PROVE  \/ UNCHANGED <<height_of, cert>>
             \/ Certified(n)
             \/ \E x \in Hash : Produce(n, x)
  <2>1. CASE \/ AbandonRetry(n) \/ LeaderTimeout(n) \/ YieldBehindPeers(n) \/ FastPathYield(n)
             \/ YieldExpires(n) \/ CollectionEnds(n) \/ NoQuorum(n) \/ AbortStuckTask(n)
    BY <2>1 DEF AbandonRetry, LeaderTimeout, YieldBehindPeers, FastPathYield, YieldExpires,
       CollectionEnds, NoQuorum, AbortStuckTask, QccFailure, proposals
  <2>2. CASE \/ \E x \in Hash, p \in Node : Vote(n, x, p)
             \/ \E v \in Node : CollectVote(n, v) \/ ReceiveLeaderTimeout(n, v) \/ ReceiveViewChange(n, v)
    BY <2>2 DEF Vote, CollectVote, ReceiveLeaderTimeout, ReceiveViewChange, proposals
  <2>3. CASE \/ \E x \in Hash : ReceiveCheckpoint(n, x) \/ DecideFork(n, x)
             \/ DrainCheckpointBuffer(n) \/ RollbackLastCheckpoint(n) \/ AcceptWinner(n)
             \/ SaveSnapshot(n) \/ Restart(n)
    BY <2>3 DEF ReceiveCheckpoint, DecideFork, DrainCheckpointBuffer, RollbackLastCheckpoint,
       AcceptWinner, SaveSnapshot, Restart, proposals
  <2>4. CASE Certified(n) \/ \E x \in Hash : Propose(n, x) \/ ProposeAsBackup(n, x)
    BY <2>4 DEF Propose, ProposeAsBackup
  <2> QED BY <1>4, <2>1, <2>2, <2>3, <2>4 DEF Step
<1>5. CASE UNCHANGED vars
  BY <1>5, <1>3 DEF vars, proposals
<1>6. CASE Next
  BY <1>6, <1>1, <1>2, <1>3, <1>4 DEF Next
<1> QED BY <1>5, <1>6

LEMMA GoodStays ==
  ASSUME NEW hs, NEW cs, NEW hs2, NEW cs2, Stays(hs, cs, hs2, cs2)
  PROVE  /\ \A c : GoodChain(c, hs, cs) => GoodChain(c, hs2, cs2)
         /\ \A b : GoodBuffer(b, hs, cs) => GoodBuffer(b, hs2, cs2)
<1>1. ASSUME NEW c, GoodChain(c, hs, cs) PROVE GoodChain(c, hs2, cs2)
  BY <1>1 DEF GoodChain, Stays
<1>2. ASSUME NEW b, GoodBuffer(b, hs, cs) PROVE GoodBuffer(b, hs2, cs2)
  BY <1>2 DEF GoodBuffer, Stays
<1> QED BY <1>1, <1>2

LEMMA GoodAppend ==
  ASSUME NEW c, NEW hs, NEW cs, GoodChain(c, hs, cs), NEW x \in Hash,
         hs[x] = Base + Len(c) + 1, cs[x] # {}
  PROVE  GoodChain(Append(c, x), hs, cs)
<1>1. /\ c \in Seq(Hash) /\ Len(c) \in Nat /\ Append(c, x) \in Seq(Hash)
      /\ Len(Append(c, x)) = Len(c) + 1 /\ Append(c, x)[Len(c) + 1] = x
      /\ \A i \in 1..Len(c) : Append(c, x)[i] = c[i]
  BY DEF GoodChain
<1>2. \A i \in 1..Len(Append(c, x)) : i \in 1..Len(c) \/ i = Len(c) + 1
  BY <1>1
<1>3. Base + Len(c) + 1 = Base + (Len(c) + 1)
  BY <1>1, ConsensusAssumption
<1> QED BY <1>1, <1>2, <1>3 DEF GoodChain

(* The run of buffered heights that follows a chain has no hole: if it had *)
(* one, it would be smaller than the interval it is cut from.              *)
LEMMA RunIsInterval ==
  ASSUME NEW top \in Nat, NEW b,
         NEW i \in 1..Cardinality({h \in top + 1 .. MaxHeight : \A k \in top + 1 .. h : b[k] # 0})
  PROVE  top + i \in Height /\ b[top + i] # 0
<1> DEFINE run == {h \in top + 1 .. MaxHeight : \A k \in top + 1 .. h : b[k] # 0}
<1>1. MaxHeight \in Nat /\ IsFiniteSet(run) /\ Cardinality(run) \in Nat /\ i \in Nat /\ i >= 1
  <2>1. MaxHeight \in Nat /\ IsFiniteSet(top + 1 .. MaxHeight)
    BY ConsensusAssumption, FS_Interval
  <2>2. IsFiniteSet(run)
    BY <2>1, FS_Subset
  <2> QED BY <2>1, <2>2, FS_CardinalityType
<1>2. ASSUME top + i \notin run PROVE FALSE
  <2>1. run \subseteq top + 1 .. top + i - 1
    <3> SUFFICES ASSUME NEW h \in run, h >= top + i PROVE FALSE
      BY <1>1
    <3>1. top + i \in top + 1 .. MaxHeight /\ \A k \in top + 1 .. top + i : k \in top + 1 .. h
      BY <1>1
    <3> QED BY <3>1, <1>2
  <2>2. IsFiniteSet(top + 1 .. top + i - 1) /\ Cardinality(top + 1 .. top + i - 1) = i - 1
    <3>1. top + 1 \in Int /\ top + i - 1 \in Int
      BY <1>1
    <3>2. /\ IsFiniteSet(top + 1 .. top + i - 1)
          /\ Cardinality(top + 1 .. top + i - 1)
               = IF top + 1 > top + i - 1 THEN 0 ELSE (top + i - 1) - (top + 1) + 1
      BY <3>1, FS_Interval
    <3> QED BY <1>1, <3>2
  <2>3. Cardinality(run) <= i - 1
    BY <2>1, <2>2, FS_Subset
  <2> QED BY <1>1, <2>3
<1>3. top + i \in top + 1 .. top + i
  BY <1>1
<1> QED BY <1>1, <1>2, <1>3 DEF Height

LEMMA GoodDrained ==
  ASSUME NEW c, NEW b, NEW hs, NEW cs, GoodChain(c, hs, cs), GoodBuffer(b, hs, cs)
  PROVE  GoodChain(Drained(c, b), hs, cs)
<1> DEFINE top == Base + Len(c)
           N == Cardinality({h \in top + 1 .. MaxHeight : \A k \in top + 1 .. h : b[k] # 0})
           f == [i \in 1..N |-> b[top + i]]
<1>1. top \in Nat /\ Len(c) \in Nat /\ c \in Seq(Hash)
  BY ConsensusAssumption DEF GoodChain
<1>2. Drained(c, b) = c \o f
  BY DEF Drained
<1>3. N \in Nat
  <2>1. IsFiniteSet(top + 1 .. MaxHeight)
    BY <1>1, ConsensusAssumption, FS_Interval
  <2>2. IsFiniteSet({h \in top + 1 .. MaxHeight : \A k \in top + 1 .. h : b[k] # 0})
    BY <2>1, FS_Subset
  <2> QED BY <2>2, FS_CardinalityType
<1>4. \A i \in 1..N : top + i \in Height /\ b[top + i] # 0
  BY <1>1, RunIsInterval
<1> HIDE DEF N, top
<1>5. \A i \in 1..N : f[i] \in Hash /\ hs[f[i]] = top + i /\ cs[f[i]] # {}
  BY <1>4 DEF GoodBuffer
<1>6. f \in Seq(Hash) /\ Len(f) = N
  BY <1>3, <1>5
<1> HIDE DEF f
<1>7. c \o f \in Seq(Hash) /\ Len(c \o f) = Len(c) + N
  BY <1>1, <1>6
<1>8. ASSUME NEW i \in 1..Len(c \o f) PROVE hs[(c \o f)[i]] = Base + i /\ cs[(c \o f)[i]] # {}
  <2>1. CASE i <= Len(c)
    BY <2>1, <1>1, <1>6, <1>7 DEF GoodChain
  <2>2. CASE i > Len(c)
    <3>1. i - Len(c) \in 1..N /\ (c \o f)[i] = f[i - Len(c)]
      BY <2>2, <1>1, <1>3, <1>6, <1>7
    <3>2. top + (i - Len(c)) = Base + i
      BY <1>1, <1>7, <1>3, ConsensusAssumption DEF top
    <3> QED BY <3>1, <3>2, <1>5
  <2> QED BY <2>1, <2>2, <1>1, <1>7
<1> QED BY <1>2, <1>7, <1>8 DEF GoodChain

(* The rows of a saved table above the chain stay where they are. *)
LEMMA GoodOverlay ==
  ASSUME NEW c, NEW d, NEW hs, NEW cs, GoodChain(c, hs, cs), GoodChain(d, hs, cs)
  PROVE  GoodChain(c \o SubSeq(d, Len(c) + 1, Len(d)), hs, cs)
<1> DEFINE r == SubSeq(d, Len(c) + 1, Len(d))
           m == IF Len(d) > Len(c) THEN Len(d) - Len(c) ELSE 0
<1>1. c \in Seq(Hash) /\ d \in Seq(Hash) /\ Len(c) \in Nat /\ Len(d) \in Nat
  BY DEF GoodChain
<1>2. r \in Seq(Hash) /\ Len(r) = m /\ \A i \in 1..m : r[i] = d[Len(c) + i]
  BY <1>1
<1> HIDE DEF r
<1>3. c \o r \in Seq(Hash) /\ Len(c \o r) = Len(c) + m
  <2>1. r \in Seq(Hash) /\ Len(r) = m
    BY <1>2
  <2>2. c \o r \in Seq(Hash) /\ Len(c \o r) = Len(c) + Len(r)
    <3>1. c \in Seq(Hash) /\ r \in Seq(Hash)
      BY <1>1, <2>1
    <3> HIDE DEF m
    <3> QED BY <3>1
  <2> HIDE DEF m
  <2> QED BY <2>1, <2>2
<1>4. ASSUME NEW i \in 1..Len(c \o r)
      PROVE  \/ i <= Len(c) /\ (c \o r)[i] = c[i]
             \/ i \in 1..Len(d) /\ (c \o r)[i] = d[i]
  <2>1. CASE i <= Len(c)
    BY <2>1, <1>1, <1>2, <1>3
  <2>2. CASE i > Len(c)
    <3>1. i - Len(c) \in 1..m /\ (c \o r)[i] = r[i - Len(c)] /\ Len(c) + (i - Len(c)) = i
      BY <2>2, <1>1, <1>2, <1>3
    <3>2. i \in 1..Len(d)
      BY <2>2, <1>1, <1>3
    <3> QED BY <3>1, <3>2, <1>2
  <2> QED BY <2>1, <2>2, <1>1, <1>3
<1>5. \A i \in 1..Len(c \o r) : i <= Len(c) => i \in 1..Len(c)
  BY <1>1, <1>3
<1>6. GoodChain(c \o r, hs, cs)
  BY <1>3, <1>4, <1>5 DEF GoodChain
<1> QED BY <1>6 DEF r

LEMMA GoodPrefix ==
  ASSUME NEW c, NEW hs, NEW cs, GoodChain(c, hs, cs), c # <<>>
  PROVE  /\ GoodChain(SubSeq(c, 1, Len(c) - 1), hs, cs)
         /\ Len(SubSeq(c, 1, Len(c) - 1)) = Len(c) - 1
<1>1. c \in Seq(Hash) /\ Len(c) \in Nat /\ Len(c) > 0
  BY DEF GoodChain
<1>2. PICK k \in Nat : k = Len(c) - 1
  BY <1>1
<1>3. /\ SubSeq(c, 1, k) \in Seq(Hash) /\ Len(SubSeq(c, 1, k)) = k
      /\ \A i \in 1..k : SubSeq(c, 1, k)[i] = c[i] /\ i \in 1..Len(c)
  BY <1>1, <1>2
<1> QED BY <1>2, <1>3 DEF GoodChain

LEMMA ChainInvInit == Init => ChainInv
BY DEF Init, ChainInv, GoodChain, GoodBuffer

(* Steps that add no checkpoint to a chain, buffer, table or message. *)
LEMMA ChainInvFrame ==
  ASSUME ChainInv, Stays(height_of, cert, height_of', cert'),
         UNCHANGED <<chain, saved, buffer, pushed, fork, fork_stage>>
  PROVE  ChainInv'
BY GoodStays DEF ChainInv, Stays

(* drain_checkpoint_buffer and the application of a received checkpoint. *)
LEMMA SetChainGood ==
  ASSUME ChainInv, NEW n \in Node, NEW c, GoodChain(c, height_of, cert),
         SetChain(n, c, buffer[n]), UNCHANGED <<height_of, cert>>
  PROVE  /\ chain' \in [Node -> Seq(Hash)] /\ buffer' \in [Node -> [Height -> Hash \union {0}]]
         /\ \A m \in Node : GoodChain(chain'[m], height_of, cert) /\ GoodBuffer(buffer'[m], height_of, cert)
<1> DEFINE b == [h \in Height |-> IF h > Base + Len(c) THEN buffer[n][h] ELSE 0]
<1>1. chain' = [chain EXCEPT ![n] = c]
  BY DEF SetChain, Apply, ChainInv
<1>2. buffer' = [buffer EXCEPT ![n] = b]
  BY DEF SetChain
<1>3. GoodBuffer(b, height_of, cert)
  BY DEF ChainInv, GoodBuffer
<1>4. c \in Seq(Hash) /\ b \in [Height -> Hash \union {0}]
  BY <1>3 DEF GoodChain, GoodBuffer
<1> HIDE DEF b
<1> QED BY <1>1, <1>2, <1>3, <1>4 DEF ChainInv

(* Accept applies or buffers a certified checkpoint. *)
LEMMA AcceptGood ==
  ASSUME LockInv, ChainInv, NEW n \in Node, NEW x \in Hash, cert[x] # {}, Accept(n, x),
         UNCHANGED <<height_of, cert>>
  PROVE  /\ chain' \in [Node -> Seq(Hash)] /\ buffer' \in [Node -> [Height -> Hash \union {0}]]
         /\ \A m \in Node : GoodChain(chain'[m], height_of, cert) /\ GoodBuffer(buffer'[m], height_of, cert)
<1>1. CASE height_of[x] = NextHeight(n)
  <2>1. GoodChain(chain[n], height_of, cert) /\ GoodBuffer(buffer[n], height_of, cert)
    BY DEF ChainInv
  <2>2. GoodChain(Append(chain[n], x), height_of, cert)
    BY <1>1, <2>1, GoodAppend DEF NextHeight, Local
  <2>3. GoodChain(Drained(Append(chain[n], x), buffer[n]), height_of, cert)
    BY <2>1, <2>2, GoodDrained
  <2> QED BY <1>1, <2>3, SetChainGood DEF Accept
<1>2. CASE height_of[x] # NextHeight(n)
  <2>1. height_of[x] \in Height /\ x # 0
    BY ConsensusAssumption, EmptyNoQuorum DEF LockInv, SignTypes, LockCovers, VotesSigned
  <2>2. /\ buffer' = [buffer EXCEPT ![n][height_of[x]] = IF @ = 0 THEN x ELSE @]
        /\ UNCHANGED chain
    BY <1>2 DEF Accept
  <2>3. buffer' \in [Node -> [Height -> Hash \union {0}]]
    BY <2>1, <2>2 DEF ChainInv
  <2>4. \A m \in Node, h \in Height :
          buffer'[m][h] = buffer[m][h] \/ (h = height_of[x] /\ buffer'[m][h] = x)
    BY <2>1, <2>2 DEF ChainInv
  <2>5. ASSUME NEW m \in Node PROVE GoodBuffer(buffer'[m], height_of, cert)
    <3>1. buffer'[m] \in [Height -> Hash \union {0}]
      BY <2>3
    <3>2. GoodBuffer(buffer[m], height_of, cert)
      BY DEF ChainInv
    <3>3. ASSUME NEW h \in Height, buffer'[m][h] # 0
          PROVE  height_of[buffer'[m][h]] = h /\ cert[buffer'[m][h]] # {}
      <4>1. CASE buffer'[m][h] = buffer[m][h]
        BY <3>2, <3>3, <4>1 DEF GoodBuffer
      <4>2. CASE h = height_of[x] /\ buffer'[m][h] = x
        BY <4>2
      <4> QED BY <2>4, <4>1, <4>2
    <3> QED BY <3>1, <3>3 DEF GoodBuffer
  <2> QED BY <2>2, <2>3, <2>5 DEF ChainInv
<1> QED BY <1>1, <1>2

LEMMA ChainInvStep == LockInv /\ LockInv' /\ ChainInv /\ [Next]_vars => ChainInv'
<1> SUFFICES ASSUME LockInv, LockInv', ChainInv, [Next]_vars PROVE ChainInv'
  OBVIOUS
<1>0. Stays(height_of, cert, height_of', cert')
  BY CertifiedStays
<1>f. CASE UNCHANGED <<chain, saved, buffer, pushed, fork, fork_stage>>
  BY <1>f, <1>0, ChainInvFrame
<1>1. ASSUME NEW n \in Node,
             \/ \E x \in Hash : Propose(n, x) \/ ProposeAsBackup(n, x)
             \/ AbandonRetry(n) \/ LeaderTimeout(n) \/ YieldBehindPeers(n) \/ FastPathYield(n)
             \/ YieldExpires(n) \/ CollectionEnds(n) \/ NoQuorum(n) \/ AbortStuckTask(n)
             \/ \E x \in Hash, p \in Node : Vote(n, x, p)
             \/ \E v \in Node : CollectVote(n, v) \/ ReceiveLeaderTimeout(n, v) \/ ReceiveViewChange(n, v)
      PROVE  UNCHANGED <<chain, saved, buffer, pushed, fork, fork_stage>>
  BY <1>1 DEF Propose, ProposeAsBackup, Produce, AbandonRetry, LeaderTimeout, YieldBehindPeers,
     FastPathYield, YieldExpires, CollectionEnds, NoQuorum, AbortStuckTask, QccFailure, Vote,
     CollectVote, ReceiveLeaderTimeout, ReceiveViewChange, ledger, forks
<1>2. ASSUME NEW n \in Node, Certified(n) PROVE ChainInv'
  <2> DEFINE x == pending[n]
  <2>1. x \in Hash /\ signers[n] # {}
    BY <1>2, EmptyNoQuorum DEF Certified, LockInv, VotesSigned
  <2>2. cert' = [cert EXCEPT ![x] = signers[n]] /\ UNCHANGED <<height_of, saved, buffer, fork, fork_stage>>
    BY <1>2 DEF Certified, proposals, forks
  <2>3. cert'[x] # {}
    BY <2>1, <2>2 DEF LockInv, SignTypes
  <2>4. \A c : GoodChain(c, height_of, cert) => GoodChain(c, height_of', cert')
    BY <1>0, GoodStays
  <2>5. \A b : GoodBuffer(b, height_of, cert) => GoodBuffer(b, height_of', cert')
    BY <1>0, GoodStays
  <2>6. CASE height_of[x] = NextHeight(n)
    <3>1. chain' = [chain EXCEPT ![n] = Append(chain[n], x)] /\ pushed' = pushed \union {x}
      BY <1>2, <2>6 DEF Certified, Apply
    <3>2. GoodChain(Append(chain[n], x), height_of', cert')
      <4>1. GoodChain(chain[n], height_of', cert')
        BY <2>4 DEF ChainInv
      <4>2. height_of'[x] = Base + Len(chain[n]) + 1
        BY <2>2, <2>6 DEF NextHeight, Local
      <4> QED BY <4>1, <4>2, <2>1, <2>3, GoodAppend
    <3>3. Append(chain[n], x) \in Seq(Hash)
      BY <3>2 DEF GoodChain
    <3>4. \A m \in Node : GoodChain(chain'[m], height_of', cert')
      BY <2>4, <3>1, <3>2 DEF ChainInv
    <3>5. \A y \in pushed' : y \in Hash /\ cert'[y] # {}
      BY <1>0, <2>1, <2>3, <3>1 DEF ChainInv, Stays
    <3> HIDE DEF x
    <3> QED BY <2>2, <2>4, <2>5, <3>1, <3>3, <3>4, <3>5 DEF ChainInv
  <2>7. CASE height_of[x] # NextHeight(n)
    BY <1>2, <2>2, <2>7, <1>f DEF Certified
  <2> QED BY <2>6, <2>7
<1>3. ASSUME NEW n \in Node, NEW x \in Hash, ReceiveCheckpoint(n, x) PROVE ChainInv'
  <2>1. x \in pushed /\ Accept(n, x) /\ UNCHANGED <<height_of, cert, saved, pushed, fork, fork_stage>>
    BY <1>3 DEF ReceiveCheckpoint, proposals, forks
  <2>2. cert[x] # {}
    BY <2>1 DEF ChainInv
  <2> QED BY <2>1, <2>2, AcceptGood DEF ChainInv
<1>4. ASSUME NEW n \in Node, AcceptWinner(n) PROVE ChainInv'
  <2>1. /\ fork[n] \in pushed /\ Accept(n, fork[n]) /\ UNCHANGED <<height_of, cert, saved, pushed>>
        /\ fork_stage' = [fork_stage EXCEPT ![n] = "none"] /\ fork' = [fork EXCEPT ![n] = 0]
    BY <1>4 DEF AcceptWinner, proposals, ChainInv
  <2>2. fork[n] \in Hash /\ cert[fork[n]] # {}
    BY <2>1 DEF ChainInv
  <2> QED BY <2>1, <2>2, AcceptGood DEF ChainInv
<1>5. ASSUME NEW n \in Node, NEW x \in Hash, DecideFork(n, x) PROVE ChainInv'
  BY <1>5 DEF DecideFork, ChainInv, proposals, ledger
<1>6. ASSUME NEW n \in Node, DrainCheckpointBuffer(n) PROVE ChainInv'
  <2>1. /\ SetChain(n, Drained(chain[n], buffer[n]), buffer[n])
        /\ UNCHANGED <<height_of, cert, saved, pushed, fork, fork_stage>>
    BY <1>6 DEF DrainCheckpointBuffer, proposals, forks
  <2>2. GoodChain(Drained(chain[n], buffer[n]), height_of, cert)
    BY GoodDrained DEF ChainInv
  <2> QED BY <2>1, <2>2, SetChainGood DEF ChainInv
<1>7. ASSUME NEW n \in Node, RollbackLastCheckpoint(n) PROVE ChainInv'
  <2>1. UNCHANGED <<height_of, cert, saved, buffer, pushed>>
    BY <1>7 DEF RollbackLastCheckpoint, proposals
  <2>2. CASE chain[n] # <<>> /\ snapshot[n] = Local(n)
    <3>1. /\ chain' = [chain EXCEPT ![n] = SubSeq(chain[n], 1, Len(chain[n]) - 1)]
          /\ fork_stage[n] = "decided" /\ fork_stage' = [fork_stage EXCEPT ![n] = "rolled_back"]
          /\ UNCHANGED fork
      BY <1>7, <2>2 DEF RollbackLastCheckpoint
    <3>2. GoodChain(SubSeq(chain[n], 1, Len(chain[n]) - 1), height_of, cert)
      BY <2>2, GoodPrefix DEF ChainInv
    <3>3. SubSeq(chain[n], 1, Len(chain[n]) - 1) \in Seq(Hash)
      BY <3>2 DEF GoodChain
    <3> QED BY <2>1, <3>1, <3>2, <3>3 DEF ChainInv
  <2>3. CASE ~(chain[n] # <<>> /\ snapshot[n] = Local(n))
    BY <1>7, <2>1, <2>3 DEF RollbackLastCheckpoint, ChainInv
  <2> QED BY <2>2, <2>3
<1>8. ASSUME NEW n \in Node, SaveSnapshot(n) PROVE ChainInv'
  <2>1. /\ saved' = [saved EXCEPT ![n] = chain[n] \o SubSeq(saved[n], Len(chain[n]) + 1, Len(saved[n]))]
        /\ UNCHANGED <<height_of, cert, chain, buffer, pushed, fork, fork_stage>>
    BY <1>8 DEF SaveSnapshot, proposals, forks, ChainInv
  <2> DEFINE d == chain[n] \o SubSeq(saved[n], Len(chain[n]) + 1, Len(saved[n]))
  <2>2. GoodChain(d, height_of, cert)
    BY GoodOverlay DEF ChainInv
  <2>3. d \in Seq(Hash)
    BY <2>2 DEF GoodChain
  <2>4. saved' = [saved EXCEPT ![n] = d]
    BY <2>1
  <2> HIDE DEF d
  <2> QED BY <2>1, <2>2, <2>3, <2>4 DEF ChainInv
<1>9. ASSUME NEW n \in Node, Restart(n) PROVE ChainInv'
  <2>1. /\ chain' = [chain EXCEPT ![n] = saved[n]]
        /\ buffer' = [buffer EXCEPT ![n] = [h \in Height |-> 0]]
        /\ fork' = [fork EXCEPT ![n] = 0] /\ fork_stage' = [fork_stage EXCEPT ![n] = "none"]
        /\ UNCHANGED <<height_of, cert, saved, pushed>>
    BY <1>9 DEF Restart, proposals
  <2>2. GoodBuffer([h \in Height |-> 0], height_of, cert)
    BY DEF GoodBuffer
  <2> QED BY <2>1, <2>2 DEF ChainInv
<1>10. CASE UNCHANGED vars
  BY <1>10, <1>f DEF vars, ledger, forks
<1>11. CASE Next
  <2>1. PICK n \in Node : Step(n) \/ SaveSnapshot(n) \/ Restart(n)
    BY <1>11 DEF Next
  <2> QED BY <2>1, <1>f, <1>1, <1>2, <1>3, <1>4, <1>5, <1>6, <1>7, <1>8, <1>9 DEF Step
<1> QED BY <1>10, <1>11

(* Stake grows with the set. *)
LEMMA QuorumUpward ==
  ASSUME NEW A \in SUBSET Node, NEW B \in SUBSET Node, A \subseteq B, HasQuorum(A)
  PROVE  HasQuorum(B)
<1>1. B = A \union (B \ A) /\ A \intersect (B \ A) = {} /\ (B \ A) \in SUBSET Node
  OBVIOUS
<1>2. StakeOf[A \union (B \ A)] = StakeOf[A] + StakeOf[B \ A]
  BY <1>1, ConsensusAssumption
<1>3. StakeOf[B] = StakeOf[A] + StakeOf[B \ A]
  BY <1>1, <1>2
<1>4. StakeOf[A] \in Nat /\ StakeOf[B] \in Nat /\ StakeOf[B \ A] \in Nat /\ StakeOf[Node] \in Nat
  BY <1>1, ConsensusAssumption
<1>5. StakeOf[B] >= StakeOf[A]
  BY <1>3, <1>4
<1> QED BY <1>4, <1>5 DEF HasQuorum

(* For every validator set, stake distribution, number of heights, order   *)
(* of messages, timeouts, fork decisions, snapshots and restarts: every    *)
(* checkpoint in a chain (apply_certified_checkpoint,                      *)
(* apply_received_checkpoint, drain_checkpoint_buffer, a restored table)   *)
(* stands at its own height and a quorum of the stake signed it.           *)
THEOREM OnlyCertifiedApplied == Spec => []AppliedIsCertified
<1>1. LockInv /\ ChainInv => AppliedIsCertified
  <2> SUFFICES ASSUME LockInv, ChainInv, NEW n \in Node, NEW i \in 1..Len(chain[n])
               PROVE  /\ height_of[chain[n][i]] = Base + i
                      /\ HasQuorum({v \in Node : chain[n][i] \in signed[v]})
    BY DEF AppliedIsCertified
  <2> DEFINE x == chain[n][i]
  <2>1. x \in Hash /\ height_of[x] = Base + i /\ cert[x] # {}
    BY DEF ChainInv, GoodChain
  <2>2. /\ HasQuorum(cert[x]) /\ cert[x] \in SUBSET Node
        /\ cert[x] \subseteq {v \in Node : x \in signed[v]}
    BY <2>1 DEF LockInv, SignTypes, VotesSigned
  <2> QED BY <2>1, <2>2, QuorumUpward
<1> QED BY <1>1, LockInvInit, LockInvStep, ChainInvInit, ChainInvStep, PTL DEF Spec

-----------------------------------------------------------------------------
(* What fork resolution may take back.                                     *)

(* b is the beginning of c. *)
Begins(b, c) ==
  /\ b \in Seq(Hash) /\ Len(b) <= Len(c)
  /\ \A i \in 1..Len(b) : b[i] = c[i]

(* The snapshot that a rollback needs is that of the last checkpoint, and  *)
(* then the last checkpoint is not a buried one.                           *)
BuriedInv ==
  /\ buried \in [Node -> Seq(Hash)] /\ snapshot \in [Node -> Nat]
  /\ \A n \in Node :
       /\ Begins(buried[n], chain[n])
       /\ chain[n] # <<>> /\ snapshot[n] = Local(n) => Len(buried[n]) < Len(chain[n])

LEMMA BeginsFacts ==
  /\ \A c \in Seq(Hash) : Begins(c, c)
  /\ \A c \in Seq(Hash) : /\ Begins(SubSeq(c, 1, Len(c) - 1), c)
                          /\ c # <<>> => Len(SubSeq(c, 1, Len(c) - 1)) = Len(c) - 1
<1>1. ASSUME NEW c \in Seq(Hash) PROVE Begins(c, c)
  BY DEF Begins
<1>2. ASSUME NEW c \in Seq(Hash)
      PROVE  /\ Begins(SubSeq(c, 1, Len(c) - 1), c)
             /\ c # <<>> => Len(SubSeq(c, 1, Len(c) - 1)) = Len(c) - 1
  <2>1. CASE c = <<>>
    <3>1. SubSeq(c, 1, Len(c) - 1) \in Seq(Hash) /\ Len(SubSeq(c, 1, Len(c) - 1)) = 0 /\ Len(c) = 0
      BY <2>1
    <3> QED BY <2>1, <3>1 DEF Begins
  <2>2. CASE c # <<>>
    <3>1. PICK k \in Nat : k = Len(c) - 1
      BY <2>2
    <3>2. /\ SubSeq(c, 1, k) \in Seq(Hash) /\ Len(SubSeq(c, 1, k)) = k /\ k <= Len(c)
          /\ \A i \in 1..k : SubSeq(c, 1, k)[i] = c[i]
      BY <3>1
    <3> QED BY <3>1, <3>2 DEF Begins
  <2> QED BY <2>1, <2>2
<1> QED BY <1>1, <1>2

LEMMA ApplyBuries ==
  ASSUME ChainInv, BuriedInv, NEW n \in Node, NEW c \in Seq(Hash), Apply(n, c)
  PROVE  BuriedInv'
<1> DEFINE b == SubSeq(c, 1, Len(c) - 1)
<1>1. /\ chain' = [chain EXCEPT ![n] = c] /\ buried' = [buried EXCEPT ![n] = b]
      /\ snapshot' = [snapshot EXCEPT ![n] = Base + Len(c)]
  BY DEF Apply
<1>2. Begins(b, c) /\ (c # <<>> => Len(b) = Len(c) - 1) /\ Len(c) \in Nat /\ Base \in Nat
  BY BeginsFacts, ConsensusAssumption
<1>3. b \in Seq(Hash) /\ Base + Len(c) \in Nat
  BY <1>2 DEF Begins
<1> HIDE DEF b
<1>4. buried' \in [Node -> Seq(Hash)] /\ snapshot' \in [Node -> Nat]
  BY <1>1, <1>3 DEF BuriedInv
<1>5. ASSUME NEW m \in Node
      PROVE  /\ Begins(buried'[m], chain'[m])
             /\ chain'[m] # <<>> /\ snapshot'[m] = Base + Len(chain'[m]) => Len(buried'[m]) < Len(chain'[m])
  <2>1. CASE m = n
    <3>1. chain'[m] = c /\ buried'[m] = b
      BY <1>1, <2>1 DEF ChainInv, BuriedInv
    <3> QED BY <3>1, <1>2
  <2>2. CASE m # n
    BY <1>1, <2>2 DEF ChainInv, BuriedInv, Local
  <2> QED BY <2>1, <2>2
<1> QED BY <1>4, <1>5 DEF BuriedInv, Local

LEMMA BuriedInvFrame ==
  ASSUME BuriedInv, UNCHANGED <<chain, snapshot, buried>>
  PROVE  BuriedInv'
BY DEF BuriedInv, Local

LEMMA SetChainBuries ==
  ASSUME ChainInv, ChainInv', BuriedInv, NEW n \in Node, NEW c, NEW b, SetChain(n, c, b)
  PROVE  BuriedInv'
<1>1. CASE c = chain[n]
  BY <1>1, BuriedInvFrame DEF SetChain
<1>2. CASE c # chain[n]
  <2>1. Apply(n, c)
    BY <1>2 DEF SetChain
  <2>2. c \in Seq(Hash)
    BY <2>1 DEF Apply, ChainInv
  <2> QED BY <2>1, <2>2, ApplyBuries
<1> QED BY <1>1, <1>2

LEMMA BuriedInvStep ==
  LockInv /\ ChainInv /\ ChainInv' /\ BuriedInv /\ [Next]_vars => BuriedInv'
<1> SUFFICES ASSUME LockInv, ChainInv, ChainInv', BuriedInv, [Next]_vars PROVE BuriedInv'
  OBVIOUS
<1>f. CASE UNCHANGED <<chain, snapshot, buried>>
  BY <1>f, BuriedInvFrame
<1>1. ASSUME NEW n \in Node,
             \/ \E x \in Hash : Propose(n, x) \/ ProposeAsBackup(n, x) \/ DecideFork(n, x)
             \/ AbandonRetry(n) \/ LeaderTimeout(n) \/ YieldBehindPeers(n) \/ FastPathYield(n)
             \/ YieldExpires(n) \/ CollectionEnds(n) \/ NoQuorum(n) \/ AbortStuckTask(n)
             \/ \E x \in Hash, p \in Node : Vote(n, x, p)
             \/ \E v \in Node : CollectVote(n, v) \/ ReceiveLeaderTimeout(n, v) \/ ReceiveViewChange(n, v)
             \/ SaveSnapshot(n)
      PROVE  UNCHANGED <<chain, snapshot, buried>>
  BY <1>1 DEF Propose, ProposeAsBackup, Produce, AbandonRetry, LeaderTimeout, YieldBehindPeers,
     FastPathYield, YieldExpires, CollectionEnds, NoQuorum, AbortStuckTask, QccFailure, Vote,
     CollectVote, ReceiveLeaderTimeout, ReceiveViewChange, DecideFork, SaveSnapshot, ledger
<1>2. ASSUME NEW n \in Node, Certified(n) PROVE BuriedInv'
  <2>1. CASE height_of[pending[n]] = NextHeight(n)
    <3>1. Apply(n, Append(chain[n], pending[n]))
      BY <1>2, <2>1 DEF Certified
    <3>2. Append(chain[n], pending[n]) \in Seq(Hash)
      <4>1. pending[n] \in Hash
        BY <1>2 DEF Certified, LockInv, VotesSigned
      <4>2. chain[n] \in Seq(Hash)
        BY DEF ChainInv
      <4> QED BY <4>1, <4>2
    <3> QED BY <3>1, <3>2, ApplyBuries
  <2>2. CASE height_of[pending[n]] # NextHeight(n)
    BY <1>2, <2>2, <1>f DEF Certified
  <2> QED BY <2>1, <2>2
<1>3. ASSUME NEW n \in Node, NEW x, Accept(n, x) PROVE BuriedInv'
  <2>1. CASE height_of[x] = NextHeight(n)
    BY <1>3, <2>1, SetChainBuries DEF Accept
  <2>2. CASE height_of[x] # NextHeight(n)
    BY <1>3, <2>2, <1>f DEF Accept
  <2> QED BY <2>1, <2>2
<1>4. ASSUME NEW n \in Node, DrainCheckpointBuffer(n) PROVE BuriedInv'
  BY <1>4, SetChainBuries DEF DrainCheckpointBuffer
<1>5. ASSUME NEW n \in Node, RollbackLastCheckpoint(n) PROVE BuriedInv'
  <2>1. CASE chain[n] # <<>> /\ snapshot[n] = Local(n)
    <3> DEFINE c == SubSeq(chain[n], 1, Len(chain[n]) - 1)
    <3>1. /\ chain' = [chain EXCEPT ![n] = c] /\ snapshot' = [snapshot EXCEPT ![n] = 0]
          /\ UNCHANGED buried
      BY <1>5, <2>1 DEF RollbackLastCheckpoint
    <3>2. chain[n] \in Seq(Hash) /\ Begins(c, chain[n]) /\ Len(c) = Len(chain[n]) - 1
      BY <2>1, BeginsFacts DEF ChainInv
    <3>3. Begins(buried[n], chain[n]) /\ Len(buried[n]) < Len(chain[n]) /\ buried[n] \in Seq(Hash)
      BY <2>1 DEF BuriedInv
    <3> HIDE DEF c
    <3>4. Begins(buried[n], c)
      BY <3>2, <3>3 DEF Begins
    <3>5. c # <<>> => Base + Len(c) # 0
      BY <3>2, ConsensusAssumption DEF Begins
    <3>6. ASSUME NEW m \in Node
          PROVE  /\ Begins(buried'[m], chain'[m])
                 /\ chain'[m] # <<>> /\ snapshot'[m] = Base + Len(chain'[m]) => Len(buried'[m]) < Len(chain'[m])
      <4>1. CASE m = n
        <5>1. chain'[m] = c /\ snapshot'[m] = 0 /\ buried'[m] = buried[n]
          BY <3>1, <4>1 DEF ChainInv, BuriedInv
        <5> QED BY <5>1, <3>4, <3>5
      <4>2. CASE m # n
        BY <3>1, <4>2 DEF ChainInv, BuriedInv, Local
      <4> QED BY <4>1, <4>2
    <3>7. buried' \in [Node -> Seq(Hash)] /\ snapshot' \in [Node -> Nat]
      BY <3>1 DEF BuriedInv
    <3> QED BY <3>6, <3>7 DEF BuriedInv, Local
  <2>2. CASE ~(chain[n] # <<>> /\ snapshot[n] = Local(n))
    BY <1>5, <2>2, <1>f DEF RollbackLastCheckpoint
  <2> QED BY <2>1, <2>2
<1>6. ASSUME NEW n \in Node, Restart(n) PROVE BuriedInv'
  <2>1. /\ chain' = [chain EXCEPT ![n] = saved[n]] /\ buried' = [buried EXCEPT ![n] = saved[n]]
        /\ snapshot' = [snapshot EXCEPT ![n] = 0]
    BY <1>6 DEF Restart
  <2>2. saved[n] \in Seq(Hash) /\ Begins(saved[n], saved[n])
    BY BeginsFacts DEF ChainInv
  <2>3. saved[n] # <<>> => Base + Len(saved[n]) # 0
    BY <2>2, ConsensusAssumption
  <2>4. ASSUME NEW m \in Node
        PROVE  /\ Begins(buried'[m], chain'[m])
               /\ chain'[m] # <<>> /\ snapshot'[m] = Base + Len(chain'[m]) => Len(buried'[m]) < Len(chain'[m])
    <3>1. CASE m = n
      <4>1. chain'[m] = saved[n] /\ snapshot'[m] = 0 /\ buried'[m] = saved[n]
        BY <2>1, <3>1 DEF ChainInv, BuriedInv
      <4> QED BY <4>1, <2>2, <2>3
    <3>2. CASE m # n
      BY <2>1, <3>2 DEF ChainInv, BuriedInv, Local
    <3> QED BY <3>1, <3>2
  <2>5. buried' \in [Node -> Seq(Hash)] /\ snapshot' \in [Node -> Nat]
    BY <2>1, <2>2 DEF BuriedInv
  <2> QED BY <2>4, <2>5 DEF BuriedInv, Local
<1>7. CASE UNCHANGED vars
  BY <1>7, <1>f DEF vars, ledger
<1>8. CASE Next
  <2>1. PICK n \in Node : Step(n) \/ SaveSnapshot(n) \/ Restart(n)
    BY <1>8 DEF Next
  <2>2. CASE \/ \E x \in Hash : ReceiveCheckpoint(n, x)
             \/ AcceptWinner(n)
    BY <2>2, <1>3 DEF ReceiveCheckpoint, AcceptWinner
  <2> QED BY <2>1, <2>2, <1>f, <1>1, <1>2, <1>4, <1>5, <1>6 DEF Step
<1> QED BY <1>7, <1>8

(* For every validator set, heights, messages, fork decisions and          *)
(* restarts: rollback_last_checkpoint, which runs after a decision taken   *)
(* on an older chain, never removes a checkpoint that another one was      *)
(* applied on since the node started.                                      *)
THEOREM BuriedStays == Spec => []BuriedIsFinal
<1>1. Init => BuriedInv
  BY ConsensusAssumption DEF Init, BuriedInv, Begins
<1>2. ChainInv /\ BuriedInv => BuriedIsFinal
  <2> SUFFICES ASSUME ChainInv, BuriedInv, NEW n \in Node
               PROVE  /\ Len(buried[n]) <= Len(chain[n])
                      /\ SubSeq(chain[n], 1, Len(buried[n])) = buried[n]
    BY DEF BuriedIsFinal
  <2>1. /\ chain[n] \in Seq(Hash) /\ buried[n] \in Seq(Hash) /\ Len(buried[n]) <= Len(chain[n])
        /\ \A i \in 1..Len(buried[n]) : buried[n][i] = chain[n][i]
    BY DEF ChainInv, BuriedInv, Begins
  <2>2. /\ SubSeq(chain[n], 1, Len(buried[n])) \in Seq(Hash)
        /\ Len(SubSeq(chain[n], 1, Len(buried[n]))) = Len(buried[n])
        /\ \A i \in 1..Len(buried[n]) : SubSeq(chain[n], 1, Len(buried[n]))[i] = chain[n][i]
    BY <2>1
  <2> QED BY <2>1, <2>2, SeqEqual
<1> QED
  BY <1>1, <1>2, LockInvInit, LockInvStep, ChainInvInit, ChainInvStep, BuriedInvStep, PTL DEF Spec
=============================================================================
