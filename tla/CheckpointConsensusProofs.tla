--------------------- MODULE CheckpointConsensusProofs ---------------------
(***************************************************************************)
(* The vote lock does what it can: a validator signs two checkpoints of    *)
(* one height only after giving that height's lock up, and so two          *)
(* certificates at one height take a third of the stake that did.          *)
(***************************************************************************)
EXTENDS CheckpointConsensus, FiniteSetTheorems, SequenceTheorems, TLAPS

(* The types of what signing depends on. *)
SignTypes ==
  /\ height_of \in [Hash -> 0..MaxHeight]
  /\ lock_height \in [Node -> 0..MaxHeight] /\ lock_hash \in [Node -> Hash \union {0}]
  /\ pending \in [Node -> Hash \union {0}] /\ signers \in [Node -> SUBSET Node]
  /\ status \in [Node -> {"none", "collecting", "certified", "failed"}]
  /\ requests \subseteq Hash \X Node /\ votes \subseteq Hash \X Node
  /\ cert \in [Hash -> SUBSET Node]
  /\ signed \in [Node -> SUBSET Hash] /\ dropped \in [Node -> SUBSET Height]

(* A hash signed at a height whose lock was never given up is the locked   *)
(* one, or the lock has moved above it.                                    *)
LockCovers ==
  \A n \in Node : \A x \in signed[n] :
    /\ height_of[x] \in Height
    /\ \/ height_of[x] \in dropped[n]
       \/ height_of[x] < lock_height[n]
       \/ height_of[x] = lock_height[n] /\ lock_hash[n] = x

(* Votes, the signers of a collection and those of a certificate signed. *)
VotesSigned ==
  /\ \A r \in requests : height_of[r[1]] \in Height
  /\ \A v \in votes : v[1] \in signed[v[2]]
  /\ \A n \in Node :
       status[n] # "none" =>
         /\ pending[n] \in Hash /\ height_of[pending[n]] \in Height
         /\ \A v \in signers[n] : pending[n] \in signed[v]
         /\ status[n] = "certified" => HasQuorum(signers[n])
  /\ \A x \in Hash : cert[x] # {} =>
       HasQuorum(cert[x]) /\ \A v \in cert[x] : x \in signed[v]

LockInv == SignTypes /\ LockCovers /\ VotesSigned

-----------------------------------------------------------------------------
LEMMA HeightsAreIntegers ==
  /\ MaxHeight \in Nat /\ Height \subseteq Int /\ Height \subseteq 0..MaxHeight
  /\ \A h \in 0..MaxHeight : h \in Int
  /\ \A h \in 0..MaxHeight : 1..h \subseteq Height
BY ConsensusAssumption DEF Height

(* The part of the state that LockInv is about. *)
signing == <<height_of, lock, pending, signers, status, requests, votes, cert, signed, dropped>>

LEMMA LockInvInit == Init => LockInv
BY ConsensusAssumption DEF Init, LockInv, SignTypes, LockCovers, VotesSigned

(* Steps that leave signing alone keep the invariant. *)
LEMMA LockInvUnchanged == LockInv /\ UNCHANGED signing => LockInv'
BY DEF signing, lock, LockInv, SignTypes, LockCovers, VotesSigned, HasQuorum

(* Giving up the lock at its height covers everything signed up to there. *)
LEMMA GiveUpLock ==
  ASSUME LockInv, NEW n \in Node,
         lock_height' = [lock_height EXCEPT ![n] = 0],
         lock_hash' = [lock_hash EXCEPT ![n] = 0],
         dropped' = [dropped EXCEPT ![n] = @ \union 1..lock_height[n]],
         UNCHANGED <<height_of, signed>>
  PROVE  /\ lock_height' \in [Node -> 0..MaxHeight] /\ lock_hash' \in [Node -> Hash \union {0}]
         /\ dropped' \in [Node -> SUBSET Height]
         /\ LockCovers'
<1>1. lock_height[n] \in 0..MaxHeight /\ MaxHeight \in Nat
  BY ConsensusAssumption DEF LockInv, SignTypes
<1>2. 1..lock_height[n] \subseteq Height
  BY <1>1 DEF Height
<1>3. /\ lock_height' \in [Node -> 0..MaxHeight] /\ lock_hash' \in [Node -> Hash \union {0}]
      /\ dropped' \in [Node -> SUBSET Height]
  BY <1>1, <1>2 DEF LockInv, SignTypes
<1>4. ASSUME NEW m \in Node, NEW x \in signed[m]
      PROVE  /\ height_of[x] \in Height
             /\ \/ height_of[x] \in dropped'[m]
                \/ height_of[x] < lock_height'[m]
                \/ height_of[x] = lock_height'[m] /\ lock_hash'[m] = x
  <2>1. CASE m # n
    BY <2>1 DEF LockInv, SignTypes, LockCovers
  <2>2. CASE m = n
    <3>1. height_of[x] \in Height
      BY DEF LockInv, LockCovers
    <3>2. height_of[x] \in dropped[n] \/ height_of[x] <= lock_height[n]
      BY <2>2, <3>1, <1>1 DEF LockInv, LockCovers, Height
    <3>3. dropped'[n] = dropped[n] \union 1..lock_height[n]
      BY DEF LockInv, SignTypes
    <3> QED BY <2>2, <3>1, <3>2, <3>3, <1>1 DEF Height
  <2> QED BY <2>1, <2>2
<1> QED BY <1>3, <1>4 DEF LockCovers

(* Locking h for x after the lock allowed it, and signing x. *)
LEMMA VoteKeepsInv ==
  ASSUME LockInv, NEW n \in Node, NEW x \in Hash, NEW p \in Node, Vote(n, x, p)
  PROVE  LockInv'
<1> DEFINE h == height_of[x]
<1>1. h \in Height /\ h \in 0..MaxHeight
  BY DEF Vote, LockInv, VotesSigned, SignTypes
<1>2. /\ lock_height' = [lock_height EXCEPT ![n] = h] /\ lock_hash' = [lock_hash EXCEPT ![n] = x]
      /\ signed' = [signed EXCEPT ![n] = @ \union {x}]
      /\ votes' = votes \union {<<x, n>>}
      /\ UNCHANGED <<height_of, pending, signers, status, requests, cert, dropped>>
      /\ LockAllows(n, h, x)
  BY DEF Vote, SetLock, Sign, proposals, task
<1> HIDE DEF h
<1>3. SignTypes'
  BY <1>1, <1>2 DEF LockInv, SignTypes
<1>4. ASSUME NEW m \in Node, NEW y \in signed'[m]
      PROVE  /\ height_of[y] \in Height
             /\ \/ height_of[y] \in dropped[m]
                \/ height_of[y] < lock_height'[m]
                \/ height_of[y] = lock_height'[m] /\ lock_hash'[m] = y
  <2>1. CASE m # n
    BY <2>1, <1>2 DEF LockInv, SignTypes, LockCovers
  <2>2. CASE m = n /\ y = x
    BY <2>2, <1>1, <1>2 DEF LockInv, SignTypes, h
  <2>3. CASE m = n /\ y # x
    <3>1. y \in signed[n]
      BY <2>3, <1>2 DEF LockInv, SignTypes
    <3>2. lock_height'[n] = h /\ lock_hash'[n] = x /\ lock_height[n] \in 0..MaxHeight
      BY <1>2 DEF LockInv, SignTypes
    <3>3. height_of[y] \in Height /\ Height \subseteq Int
      BY <3>1 DEF LockInv, LockCovers, Height
    <3>4. \/ height_of[y] \in dropped[n]
          \/ height_of[y] < lock_height[n]
          \/ height_of[y] = lock_height[n] /\ lock_hash[n] = y
      BY <3>1 DEF LockInv, LockCovers
    <3>5. lock_height[n] < h \/ (lock_height[n] = h /\ lock_hash[n] = x)
      BY <1>1, <1>2, <3>2, <3>3 DEF LockAllows
    <3>6. h \in Int /\ lock_height[n] \in Int /\ height_of[y] \in Int
      BY <1>1, <3>2, <3>3, HeightsAreIntegers
    <3> QED BY <2>3, <3>2, <3>3, <3>4, <3>5, <3>6
  <2> QED BY <2>1, <2>2, <2>3
<1>5. LockCovers'
  BY <1>2, <1>4 DEF LockCovers
<1>6. \A m \in Node : signed[m] \subseteq signed'[m]
  BY <1>2 DEF LockInv, SignTypes
<1>7. VotesSigned'
  <2>1. \A v \in votes' : v[1] \in signed'[v[2]]
    BY <1>2, <1>6 DEF LockInv, SignTypes, VotesSigned
  <2>2. \A m \in Node : status[m] # "none" => \A v \in signers[m] : pending[m] \in signed'[v]
    BY <1>6 DEF LockInv, SignTypes, VotesSigned
  <2>3. \A y \in Hash : \A v \in cert[y] : y \in signed'[v]
    BY <1>6 DEF LockInv, SignTypes, VotesSigned
  <2> QED BY <1>2, <2>1, <2>2, <2>3 DEF LockInv, VotesSigned, HasQuorum
<1> QED BY <1>3, <1>5, <1>7 DEF LockInv

(* A proposer signs a fresh or cached checkpoint: nothing it signed at     *)
(* this height can be another one unless its lock is given up here.        *)
LEMMA ProduceKeepsInv ==
  ASSUME LockInv, NEW n \in Node, NEW x \in Hash, Idle(n), Produce(n, x)
  PROVE  LockInv'
<1> DEFINE h == NextHeight(n)
<1> DEFINE given == {k \in Height : h <= k /\ k <= lock_height[n] /\ h < lock_height[n]}
<1>1. h \in Height
  BY DEF Idle
<1>2. /\ height_of'[x] = h
      /\ height_of' \in [Hash -> 0..MaxHeight]
      /\ \A y \in Hash : height_of[y] \in Height => height_of'[y] = height_of[y]
  <2>1. CASE retry[n] # 0 /\ height_of[retry[n]] = h
    BY <2>1 DEF Produce, proposals, LockInv, SignTypes
  <2>2. CASE ~(retry[n] # 0 /\ height_of[retry[n]] = h)
    <3>1. height_of[x] = 0 /\ height_of' = [height_of EXCEPT ![x] = h]
      BY <2>2 DEF Produce
    <3>2. 0 \notin Height
      BY DEF Height
    <3> HIDE DEF h
    <3> QED BY <1>1, <3>1, <3>2, HeightsAreIntegers DEF LockInv, SignTypes
  <2> QED BY <2>1, <2>2
<1>3. /\ ProposerMayLock(n, h, x)
      /\ lock_height' = [lock_height EXCEPT ![n] = h] /\ lock_hash' = [lock_hash EXCEPT ![n] = x]
      /\ dropped' = [dropped EXCEPT ![n] = @ \union given]
      /\ signed' = [signed EXCEPT ![n] = @ \union {x}]
      /\ pending' = [pending EXCEPT ![n] = x] /\ signers' = [signers EXCEPT ![n] = {n}]
      /\ status' = [status EXCEPT ![n] = IF HasQuorum({n}) THEN "certified" ELSE "collecting"]
      /\ requests' = requests \union {<<x, n>>}
      /\ UNCHANGED <<votes, cert>>
  BY DEF Produce, TryLockProposerVote, SetLock, Drop, Sign, StartCollecting
<1> HIDE DEF h
<1>4. given \subseteq Height
  OBVIOUS
<1>5. SignTypes'
  <2>1. lock_height' \in [Node -> 0..MaxHeight] /\ lock_hash' \in [Node -> Hash \union {0}]
    BY <1>1, <1>3, HeightsAreIntegers DEF LockInv, SignTypes
  <2>2. dropped' \in [Node -> SUBSET Height]
    BY <1>3, <1>4 DEF LockInv, SignTypes
  <2>3. pending' \in [Node -> Hash \union {0}] /\ signers' \in [Node -> SUBSET Node]
    BY <1>3 DEF LockInv, SignTypes
  <2>4. status' \in [Node -> {"none", "collecting", "certified", "failed"}]
    BY <1>3 DEF LockInv, SignTypes
  <2>5. requests' \subseteq Hash \X Node /\ signed' \in [Node -> SUBSET Hash]
    BY <1>3 DEF LockInv, SignTypes
  <2> QED BY <1>2, <1>3, <2>1, <2>2, <2>3, <2>4, <2>5 DEF LockInv, SignTypes
<1>6. ASSUME NEW m \in Node, NEW y \in signed'[m]
      PROVE  /\ height_of'[y] \in Height
             /\ \/ height_of'[y] \in dropped'[m]
                \/ height_of'[y] < lock_height'[m]
                \/ height_of'[y] = lock_height'[m] /\ lock_hash'[m] = y
  <2>1. CASE m = n /\ y = x
    BY <2>1, <1>1, <1>2, <1>3 DEF LockInv, SignTypes
  <2>2. CASE ~(m = n /\ y = x)
    <3>1. y \in signed[m] /\ y \in Hash
      BY <2>2, <1>3 DEF LockInv, SignTypes
    <3>2. height_of'[y] = height_of[y] /\ height_of[y] \in Height
      BY <3>1, <1>2 DEF LockInv, LockCovers
    <3>3. \/ height_of[y] \in dropped[m]
          \/ height_of[y] < lock_height[m]
          \/ height_of[y] = lock_height[m] /\ lock_hash[m] = y
      BY <3>1 DEF LockInv, LockCovers
    <3>4. CASE m # n
      BY <3>4, <3>2, <3>3, <1>3 DEF LockInv, SignTypes
    <3>5. CASE m = n
      <4>1. /\ lock_height'[n] = h /\ lock_hash'[n] = x
            /\ dropped'[n] = dropped[n] \union given
            /\ lock_height[n] \in 0..MaxHeight
        BY <1>3 DEF LockInv, SignTypes
      <4>2. h \in Int /\ lock_height[n] \in Int /\ height_of[y] \in Int
        BY <1>1, <3>2, <4>1, HeightsAreIntegers
      <4>3. ~(lock_height[n] = h /\ lock_hash[n] # 0 /\ lock_hash[n] # x)
        BY <1>3 DEF ProposerMayLock
      <4>4. y # 0
        BY <3>1, ConsensusAssumption
      <4>5. CASE height_of[y] \in dropped[n]
        BY <4>5, <4>1, <3>2, <3>5
      <4>6. CASE height_of[y] < h
        BY <4>6, <4>1, <3>2, <3>5
      <4>7. CASE height_of[y] \notin dropped[n] /\ ~(height_of[y] < h) /\ h < lock_height[n]
        <5>1. height_of[y] \in given
          BY <4>7, <4>2, <3>2, <3>3, <3>5
        <5> QED BY <5>1, <4>1, <3>2, <3>5
      <4>8. CASE height_of[y] \notin dropped[n] /\ ~(height_of[y] < h) /\ ~(h < lock_height[n])
        <5>1. height_of[y] = h /\ lock_height[n] = h /\ lock_hash[n] = y
          BY <4>8, <4>2, <3>3, <3>5
        <5>2. y = x
          BY <5>1, <4>3, <4>4
        <5> QED BY <5>2, <2>2, <3>5
      <4> QED BY <4>5, <4>6, <4>7, <4>8
    <3> QED BY <3>4, <3>5
  <2> QED BY <2>1, <2>2
<1>7. LockCovers'
  BY <1>6 DEF LockCovers
<1>8. \A m \in Node : signed[m] \subseteq signed'[m]
  BY <1>3 DEF LockInv, SignTypes
<1>9. VotesSigned'
  <2>1. \A r \in requests' : height_of'[r[1]] \in Height
    BY <1>1, <1>2, <1>3 DEF LockInv, SignTypes, VotesSigned
  <2>2. \A v \in votes' : v[1] \in signed'[v[2]]
    BY <1>3, <1>8 DEF LockInv, SignTypes, VotesSigned
  <2>3. \A y \in Hash : cert'[y] # {} => HasQuorum(cert'[y]) /\ \A v \in cert'[y] : y \in signed'[v]
    BY <1>3, <1>8 DEF LockInv, SignTypes, VotesSigned
  <2>4. ASSUME NEW m \in Node, status'[m] # "none"
        PROVE  /\ pending'[m] \in Hash /\ height_of'[pending'[m]] \in Height
               /\ \A v \in signers'[m] : pending'[m] \in signed'[v]
               /\ status'[m] = "certified" => HasQuorum(signers'[m])
    <3>1. CASE m = n
      <4>1. /\ pending'[n] = x /\ signers'[n] = {n} /\ x \in signed'[n]
            /\ status'[n] = IF HasQuorum({n}) THEN "certified" ELSE "collecting"
        BY <1>3 DEF LockInv, SignTypes
      <4> QED BY <3>1, <4>1, <1>1, <1>2
    <3>2. CASE m # n
      <4>1. pending'[m] = pending[m] /\ signers'[m] = signers[m] /\ status'[m] = status[m]
        BY <3>2, <1>3 DEF LockInv, SignTypes
      <4>2. signers[m] \subseteq Node
        BY DEF LockInv, SignTypes
      <4> QED BY <4>1, <4>2, <2>4, <1>2, <1>8 DEF LockInv, VotesSigned
    <3> QED BY <3>1, <3>2
  <2> QED BY <2>1, <2>2, <2>3, <2>4 DEF VotesSigned, HasQuorum
<1> QED BY <1>5, <1>7, <1>9 DEF LockInv

(* Giving up the lock, or not, while the collection stays or ends. *)
LEMMA ClearKeepsInv ==
  ASSUME LockInv, NEW n \in Node, NEW h, ClearVoteLockForHeight(n, h),
         \/ UNCHANGED task
         \/ TaskDone(n),
         UNCHANGED <<height_of, requests, votes, cert, signed>>
  PROVE  LockInv'
<1>1. /\ lock_height' \in [Node -> 0..MaxHeight] /\ lock_hash' \in [Node -> Hash \union {0}]
      /\ dropped' \in [Node -> SUBSET Height]
      /\ LockCovers'
  <2>1. CASE lock_height[n] = h
    BY <2>1, GiveUpLock DEF ClearVoteLockForHeight, SetLock, Drop
  <2>2. CASE lock_height[n] # h
    BY <2>2 DEF ClearVoteLockForHeight, lock, LockInv, SignTypes, LockCovers
  <2> QED BY <2>1, <2>2
<1>2. /\ pending' \in [Node -> Hash \union {0}] /\ signers' \in [Node -> SUBSET Node]
      /\ status' \in [Node -> {"none", "collecting", "certified", "failed"}]
  BY DEF TaskDone, task, LockInv, SignTypes
<1>3. \A m \in Node : status'[m] # "none" =>
        pending'[m] = pending[m] /\ signers'[m] = signers[m] /\ status'[m] = status[m]
  BY DEF TaskDone, task, LockInv, SignTypes
<1>4. SignTypes'
  BY <1>1, <1>2 DEF LockInv, SignTypes
<1>5. VotesSigned'
  BY <1>3 DEF LockInv, VotesSigned, HasQuorum
<1> QED BY <1>1, <1>4, <1>5 DEF LockInv

LEMMA CollectVoteKeepsInv ==
  ASSUME LockInv, NEW n \in Node, NEW v \in Node, CollectVote(n, v)
  PROVE  LockInv'
<1>1. /\ status[n] = "collecting" /\ <<pending[n], v>> \in votes
      /\ signers' = [signers EXCEPT ![n] = @ \union {v}]
      /\ status' = [status EXCEPT ![n] = IF HasQuorum(signers[n] \union {v})
                                         THEN "certified" ELSE "collecting"]
      /\ UNCHANGED <<height_of, lock_height, lock_hash, pending, requests, votes, cert, signed,
                     dropped>>
  BY DEF CollectVote, proposals, lock
<1>2. SignTypes'
  <2>1. signers' \in [Node -> SUBSET Node]
    BY <1>1 DEF LockInv, SignTypes
  <2>2. status' \in [Node -> {"none", "collecting", "certified", "failed"}]
    BY <1>1 DEF LockInv, SignTypes
  <2> QED BY <1>1, <2>1, <2>2 DEF LockInv, SignTypes
<1>3. LockCovers'
  BY <1>1 DEF LockInv, LockCovers
<1>4. ASSUME NEW m \in Node, status'[m] # "none"
      PROVE  /\ pending[m] \in Hash /\ height_of[pending[m]] \in Height
             /\ \A u \in signers'[m] : pending[m] \in signed[u]
             /\ status'[m] = "certified" => HasQuorum(signers'[m])
  <2>1. CASE m = n
    <3>1. signers'[n] = signers[n] \union {v} /\ pending[n] \in signed[v]
      BY <1>1 DEF LockInv, SignTypes, VotesSigned
    <3>2. status'[n] = "certified" => HasQuorum(signers[n] \union {v})
      BY <1>1 DEF LockInv, SignTypes
    <3> QED BY <2>1, <1>1, <3>1, <3>2 DEF LockInv, VotesSigned
  <2>2. CASE m # n
    BY <2>2, <1>1, <1>4 DEF LockInv, SignTypes, VotesSigned
  <2> QED BY <2>1, <2>2
<1>5. VotesSigned'
  BY <1>1, <1>4 DEF LockInv, VotesSigned, HasQuorum
<1> QED BY <1>2, <1>3, <1>5 DEF LockInv

LEMMA CertifiedKeepsInv ==
  ASSUME LockInv, NEW n \in Node, Certified(n)
  PROVE  LockInv'
<1>1. /\ status[n] = "certified"
      /\ cert' = [cert EXCEPT ![pending[n]] = signers[n]]
      /\ TaskDone(n)
      /\ UNCHANGED <<height_of, lock_height, lock_hash, requests, votes, signed, dropped>>
  BY DEF Certified, proposals, lock
<1>2. /\ pending[n] \in Hash /\ HasQuorum(signers[n])
      /\ \A v \in signers[n] : pending[n] \in signed[v]
  BY <1>1 DEF LockInv, VotesSigned
<1>3. SignTypes'
  BY <1>1 DEF TaskDone, LockInv, SignTypes
<1>4. LockCovers'
  BY <1>1 DEF LockInv, LockCovers
<1>5. \A x \in Hash : cert'[x] # {} =>
        HasQuorum(cert'[x]) /\ \A v \in cert'[x] : x \in signed[v]
  BY <1>1, <1>2 DEF LockInv, SignTypes, VotesSigned
<1>6. \A m \in Node : status'[m] # "none" =>
        pending'[m] = pending[m] /\ signers'[m] = signers[m] /\ status'[m] = status[m]
  BY <1>1 DEF TaskDone, LockInv, SignTypes
<1>7. VotesSigned'
  BY <1>1, <1>5, <1>6 DEF LockInv, VotesSigned, HasQuorum
<1> QED BY <1>3, <1>4, <1>7 DEF LockInv

LEMMA QccFailureKeepsInv ==
  ASSUME LockInv, NEW n \in Node, QccFailure(n)
  PROVE  LockInv'
<1>1. /\ ClearVoteLockForHeight(n, height_of[pending[n]]) /\ TaskDone(n)
      /\ UNCHANGED <<height_of, requests, votes, cert, signed>>
  BY DEF QccFailure, proposals
<1> QED BY <1>1, ClearKeepsInv

(* The end of a collection that changes no lock. *)
LEMMA TaskEndKeepsInv ==
  ASSUME LockInv, NEW n \in Node,
         \/ TaskDone(n)
         \/ /\ status[n] = "collecting" /\ status' = [status EXCEPT ![n] = "failed"]
            /\ UNCHANGED <<pending, signers>>,
         UNCHANGED <<height_of, lock, requests, votes, cert, signed, dropped>>
  PROVE  LockInv'
<1>1. SignTypes'
  BY DEF TaskDone, lock, LockInv, SignTypes
<1>2. LockCovers'
  BY DEF lock, LockInv, LockCovers
<1>3. \A m \in Node : status'[m] # "none" =>
        /\ pending'[m] = pending[m] /\ signers'[m] = signers[m] /\ status[m] # "none"
        /\ status'[m] = "certified" => status[m] = "certified"
  BY DEF TaskDone, LockInv, SignTypes
<1>4. VotesSigned'
  BY <1>3 DEF LockInv, VotesSigned, HasQuorum
<1> QED BY <1>1, <1>2, <1>4 DEF LockInv

LEMMA RestartKeepsInv ==
  ASSUME LockInv, NEW n \in Node, Restart(n)
  PROVE  LockInv'
<1>1. /\ lock_height' = [lock_height EXCEPT ![n] = 0] /\ lock_hash' = [lock_hash EXCEPT ![n] = 0]
      /\ dropped' = [dropped EXCEPT ![n] = @ \union 1..lock_height[n]]
      /\ TaskDone(n)
      /\ UNCHANGED <<height_of, requests, votes, cert, signed>>
  BY DEF Restart, SetLock, Drop, proposals
<1>2. /\ lock_height' \in [Node -> 0..MaxHeight] /\ lock_hash' \in [Node -> Hash \union {0}]
      /\ dropped' \in [Node -> SUBSET Height]
      /\ LockCovers'
  BY <1>1, GiveUpLock
<1>3. SignTypes'
  BY <1>1, <1>2 DEF TaskDone, LockInv, SignTypes
<1>4. \A m \in Node : status'[m] # "none" =>
        pending'[m] = pending[m] /\ signers'[m] = signers[m] /\ status'[m] = status[m]
  BY <1>1 DEF TaskDone, LockInv, SignTypes
<1>5. VotesSigned'
  BY <1>1, <1>4 DEF LockInv, VotesSigned, HasQuorum
<1> QED BY <1>2, <1>3, <1>5 DEF LockInv

-----------------------------------------------------------------------------
LEMMA LockInvStep == LockInv /\ [Next]_vars => LockInv'
<1> SUFFICES ASSUME LockInv, [Next]_vars PROVE LockInv'
  OBVIOUS
<1>1. CASE UNCHANGED vars
  BY <1>1, LockInvUnchanged DEF vars, signing, proposals, lock, task
<1>2. CASE Next
  <2>1. PICK n \in Node :
          \/ \E x \in Hash : Propose(n, x) \/ ProposeAsBackup(n, x)
          \/ AbandonRetry(n) \/ LeaderTimeout(n)
          \/ YieldBehindPeers(n) \/ FastPathYield(n) \/ YieldExpires(n)
          \/ \E x \in Hash, p \in Node : Vote(n, x, p)
          \/ \E v \in Node : CollectVote(n, v) \/ ReceiveLeaderTimeout(n, v) \/ ReceiveViewChange(n, v)
          \/ CollectionEnds(n) \/ Certified(n) \/ NoQuorum(n) \/ AbortStuckTask(n)
          \/ \E x \in Hash : ReceiveCheckpoint(n, x) \/ DecideFork(n, x)
          \/ DrainCheckpointBuffer(n) \/ RollbackLastCheckpoint(n) \/ AcceptWinner(n)
          \/ SaveSnapshot(n) \/ Restart(n)
    BY <1>2 DEF Next, Step
  <2>2. ASSUME NEW x \in Hash, Propose(n, x) \/ ProposeAsBackup(n, x) PROVE LockInv'
    BY <2>2, ProduceKeepsInv DEF Propose, ProposeAsBackup
  <2>3. CASE LeaderTimeout(n)
    BY <2>3, ClearKeepsInv DEF LeaderTimeout, proposals
  <2>4. ASSUME NEW x \in Hash, NEW p \in Node, Vote(n, x, p) PROVE LockInv'
    BY <2>4, VoteKeepsInv
  <2>5. ASSUME NEW v \in Node, CollectVote(n, v) PROVE LockInv'
    BY <2>5, CollectVoteKeepsInv
  <2>6. CASE CollectionEnds(n)
    BY <2>6, TaskEndKeepsInv DEF CollectionEnds, proposals
  <2>7. CASE Certified(n)
    BY <2>7, CertifiedKeepsInv
  <2>8. CASE NoQuorum(n)
    <3>1. CASE QccFailure(n)
      BY <3>1, QccFailureKeepsInv
    <3>2. CASE ~QccFailure(n)
      BY <2>8, <3>2, TaskEndKeepsInv DEF NoQuorum, proposals
    <3> QED BY <3>1, <3>2
  <2>9. CASE AbortStuckTask(n)
    BY <2>9, QccFailureKeepsInv DEF AbortStuckTask
  <2>10. CASE Restart(n)
    BY <2>10, RestartKeepsInv
  <2>11. CASE AbandonRetry(n) \/ YieldBehindPeers(n) \/ FastPathYield(n) \/ YieldExpires(n)
    BY <2>11, LockInvUnchanged
       DEF AbandonRetry, YieldBehindPeers, FastPathYield, YieldExpires, signing, proposals, task
  <2>12. ASSUME NEW v \in Node, ReceiveLeaderTimeout(n, v) \/ ReceiveViewChange(n, v) PROVE LockInv'
    BY <2>12, LockInvUnchanged
       DEF ReceiveLeaderTimeout, ReceiveViewChange, signing, proposals, task
  <2>13. ASSUME NEW x \in Hash, ReceiveCheckpoint(n, x) \/ DecideFork(n, x) PROVE LockInv'
    BY <2>13, LockInvUnchanged DEF ReceiveCheckpoint, DecideFork, signing, proposals, task
  <2>14. CASE DrainCheckpointBuffer(n) \/ RollbackLastCheckpoint(n) \/ AcceptWinner(n) \/ SaveSnapshot(n)
    BY <2>14, LockInvUnchanged
       DEF DrainCheckpointBuffer, RollbackLastCheckpoint, AcceptWinner, SaveSnapshot,
           signing, proposals, task
  <2> QED BY <2>1, <2>2, <2>3, <2>4, <2>5, <2>6, <2>7, <2>8, <2>9, <2>10, <2>11, <2>12, <2>13, <2>14
<1> QED BY <1>1, <1>2

(* A step that signs x and leaves the lock on x adds no pair that the lock *)
(* does not cover.                                                         *)
LEMMA SigningStep ==
  ASSUME LockInv, LockInv', DoubleSignNeedsDroppedLock, NEW n \in Node, NEW x \in Hash,
         signed' = [signed EXCEPT ![n] = @ \union {x}],
         lock_height'[n] = height_of'[x], lock_hash'[n] = x,
         \A m \in Node : dropped[m] \subseteq dropped'[m],
         \A y \in Hash : height_of[y] \in Height => height_of'[y] = height_of[y]
  PROVE  DoubleSignNeedsDroppedLock'
<1> SUFFICES ASSUME NEW m \in Node, NEW y \in signed'[m], NEW z \in signed'[m],
                    y # z, height_of'[y] = height_of'[z]
             PROVE  height_of'[y] \in dropped'[m]
  BY DEF DoubleSignNeedsDroppedLock
<1>1. signed'[m] = IF m = n THEN signed[m] \union {x} ELSE signed[m]
  BY DEF LockInv, SignTypes
<1>2. \A w \in signed'[m] : height_of'[w] \in Int
  BY HeightsAreIntegers DEF LockInv, LockCovers
<1>3. CASE m = n /\ x \in {y, z}
  <2>1. PICK w \in {y, z} : w # x
    OBVIOUS
  <2>2. height_of'[w] = lock_height'[n]
    BY <1>3, <2>1
  <2>3. height_of'[w] \in dropped'[n]
    BY <1>2, <1>3, <2>1, <2>2 DEF LockInv, LockCovers
  <2> QED BY <1>3, <2>1, <2>3
<1>4. CASE ~(m = n /\ x \in {y, z})
  <2>1. y \in signed[m] /\ z \in signed[m]
    BY <1>1, <1>4
  <2>2. height_of'[y] = height_of[y] /\ height_of'[z] = height_of[z]
    BY <2>1 DEF LockInv, LockCovers, SignTypes
  <2> QED BY <2>1, <2>2 DEF DoubleSignNeedsDroppedLock
<1> QED BY <1>3, <1>4

LEMMA QuietStep ==
  ASSUME DoubleSignNeedsDroppedLock, UNCHANGED <<height_of, signed>>,
         \A m \in Node : dropped[m] \subseteq dropped'[m]
  PROVE  DoubleSignNeedsDroppedLock'
BY DEF DoubleSignNeedsDroppedLock

LEMMA DoubleSignStep ==
  LockInv /\ LockInv' /\ DoubleSignNeedsDroppedLock /\ [Next]_vars => DoubleSignNeedsDroppedLock'
<1> SUFFICES ASSUME LockInv, LockInv', DoubleSignNeedsDroppedLock, [Next]_vars
             PROVE  DoubleSignNeedsDroppedLock'
  OBVIOUS
<1>1. CASE UNCHANGED vars
  BY <1>1, QuietStep DEF vars, proposals
<1>2. ASSUME NEW n \in Node, NEW x \in Hash, Propose(n, x) \/ ProposeAsBackup(n, x)
      PROVE  DoubleSignNeedsDroppedLock'
  <2>1. Idle(n) /\ Produce(n, x)
    BY <1>2 DEF Propose, ProposeAsBackup
  <2>2. /\ signed' = [signed EXCEPT ![n] = @ \union {x}]
        /\ lock_height' = [lock_height EXCEPT ![n] = NextHeight(n)]
        /\ lock_hash' = [lock_hash EXCEPT ![n] = x]
        /\ \E H : dropped' = [dropped EXCEPT ![n] = @ \union H]
    BY <2>1 DEF Produce, TryLockProposerVote, SetLock, Sign, Drop
  <2>3. /\ height_of'[x] = NextHeight(n)
        /\ \A y \in Hash : height_of[y] \in Height => height_of'[y] = height_of[y]
    <3>1. CASE retry[n] # 0 /\ height_of[retry[n]] = NextHeight(n)
      BY <3>1, <2>1 DEF Produce, proposals
    <3>2. CASE ~(retry[n] # 0 /\ height_of[retry[n]] = NextHeight(n))
      <4>1. height_of[x] = 0 /\ height_of' = [height_of EXCEPT ![x] = NextHeight(n)] /\ 0 \notin Height
        BY <3>2, <2>1 DEF Produce, Height
      <4> QED BY <4>1 DEF LockInv, SignTypes
    <3> QED BY <3>1, <3>2
  <2>4. lock_height'[n] = height_of'[x] /\ lock_hash'[n] = x
    BY <2>2, <2>3 DEF LockInv, SignTypes
  <2>5. \A m \in Node : dropped[m] \subseteq dropped'[m]
    BY <2>2 DEF LockInv, SignTypes
  <2> QED BY <2>2, <2>3, <2>4, <2>5, SigningStep
<1>3. ASSUME NEW n \in Node, NEW x \in Hash, NEW p \in Node, Vote(n, x, p)
      PROVE  DoubleSignNeedsDroppedLock'
  <2>1. /\ signed' = [signed EXCEPT ![n] = @ \union {x}]
        /\ lock_height' = [lock_height EXCEPT ![n] = height_of[x]]
        /\ lock_hash' = [lock_hash EXCEPT ![n] = x]
        /\ UNCHANGED <<height_of, dropped>>
    BY <1>3 DEF Vote, SetLock, Sign, proposals
  <2>2. lock_height'[n] = height_of'[x] /\ lock_hash'[n] = x
    BY <2>1 DEF LockInv, SignTypes
  <2> QED BY <2>1, <2>2, SigningStep
<1>4. ASSUME NEW n \in Node, LeaderTimeout(n) \/ QccFailure(n) \/ Restart(n)
      PROVE  DoubleSignNeedsDroppedLock'
  <2>1. UNCHANGED <<height_of, signed>>
    BY <1>4 DEF LeaderTimeout, QccFailure, Restart, proposals
  <2>2. UNCHANGED dropped \/ \E H : dropped' = [dropped EXCEPT ![n] = @ \union H]
    BY <1>4 DEF LeaderTimeout, QccFailure, Restart, ClearVoteLockForHeight, Drop
  <2>3. \A m \in Node : dropped[m] \subseteq dropped'[m]
    BY <2>2 DEF LockInv, SignTypes
  <2> QED BY <2>1, <2>3, QuietStep
<1>5. CASE UNCHANGED <<height_of, signed, dropped>>
  BY <1>5, QuietStep
<1>6. CASE Next
  <2>1. PICK n \in Node :
          \/ \E x \in Hash : Propose(n, x) \/ ProposeAsBackup(n, x)
          \/ AbandonRetry(n) \/ LeaderTimeout(n)
          \/ YieldBehindPeers(n) \/ FastPathYield(n) \/ YieldExpires(n)
          \/ \E x \in Hash, p \in Node : Vote(n, x, p)
          \/ \E v \in Node : CollectVote(n, v) \/ ReceiveLeaderTimeout(n, v) \/ ReceiveViewChange(n, v)
          \/ CollectionEnds(n) \/ Certified(n) \/ NoQuorum(n) \/ AbortStuckTask(n)
          \/ \E x \in Hash : ReceiveCheckpoint(n, x) \/ DecideFork(n, x)
          \/ DrainCheckpointBuffer(n) \/ RollbackLastCheckpoint(n) \/ AcceptWinner(n)
          \/ SaveSnapshot(n) \/ Restart(n)
    BY <1>6 DEF Next, Step
  <2>2. CASE \E x \in Hash : ReceiveCheckpoint(n, x) \/ DecideFork(n, x)
    BY <2>2, <1>5 DEF ReceiveCheckpoint, DecideFork, proposals
  <2>3. CASE \E v \in Node : CollectVote(n, v) \/ ReceiveLeaderTimeout(n, v) \/ ReceiveViewChange(n, v)
    BY <2>3, <1>5 DEF CollectVote, ReceiveLeaderTimeout, ReceiveViewChange, proposals
  <2>4. CASE AbandonRetry(n) \/ YieldBehindPeers(n) \/ FastPathYield(n) \/ YieldExpires(n)
    BY <2>4, <1>5 DEF AbandonRetry, YieldBehindPeers, FastPathYield, YieldExpires, proposals
  <2>5. CASE CollectionEnds(n) \/ Certified(n)
    BY <2>5, <1>5 DEF CollectionEnds, Certified, proposals
  <2>6. CASE NoQuorum(n) \/ AbortStuckTask(n)
    BY <2>6, <1>4, <1>5 DEF NoQuorum, AbortStuckTask, proposals
  <2>7. CASE DrainCheckpointBuffer(n) \/ RollbackLastCheckpoint(n) \/ AcceptWinner(n) \/ SaveSnapshot(n)
    BY <2>7, <1>5
       DEF DrainCheckpointBuffer, RollbackLastCheckpoint, AcceptWinner, SaveSnapshot, proposals
  <2> QED BY <2>1, <2>2, <2>3, <2>4, <2>5, <2>6, <2>7, <1>2, <1>3, <1>4
<1> QED BY <1>1, <1>6

(* Whatever the validators, leaders, messages, timeouts, failed            *)
(* collections and restarts: the vote lock of the request handlers and of  *)
(* try_lock_proposer_vote keeps a validator from signing two checkpoints   *)
(* of one height, except at heights whose lock it gave up.                 *)
THEOREM LockSafety == Spec => []DoubleSignNeedsDroppedLock
<1>1. Init => DoubleSignNeedsDroppedLock
  BY DEF Init, DoubleSignNeedsDroppedLock
<1> QED BY <1>1, LockInvInit, LockInvStep, DoubleSignStep, PTL DEF Spec

-----------------------------------------------------------------------------
(* Two quorums share a third of the stake. *)
LEMMA QuorumIntersection ==
  ASSUME NEW A \in SUBSET Node, NEW B \in SUBSET Node, HasQuorum(A), HasQuorum(B)
  PROVE  3 * StakeOf[A \intersect B] >= StakeOf[Node]
<1> DEFINE Only == B \ A
<1> DEFINE Rest == Node \ (A \union B)
<1>1. /\ \A S \in SUBSET Node : StakeOf[S] \in Nat
      /\ \A S, T \in SUBSET Node :
           S \intersect T = {} => StakeOf[S \union T] = StakeOf[S] + StakeOf[T]
  BY ConsensusAssumption
<1>2. StakeOf[B] = StakeOf[A \intersect B] + StakeOf[Only]
  <2>1. B = (A \intersect B) \union Only /\ (A \intersect B) \intersect Only = {}
    OBVIOUS
  <2> QED BY <1>1, <2>1
<1>3. StakeOf[A \union B] = StakeOf[A] + StakeOf[Only]
  <2>1. A \union B = A \union Only /\ A \intersect Only = {}
    OBVIOUS
  <2> QED BY <1>1, <2>1
<1>4. StakeOf[Node] = StakeOf[A \union B] + StakeOf[Rest]
  <2>1. Node = (A \union B) \union Rest /\ (A \union B) \intersect Rest = {}
    OBVIOUS
  <2> QED BY <1>1, <2>1
<1>5. /\ StakeOf[A] \in Nat /\ StakeOf[B] \in Nat /\ StakeOf[A \intersect B] \in Nat
      /\ StakeOf[Only] \in Nat /\ StakeOf[A \union B] \in Nat /\ StakeOf[Rest] \in Nat
      /\ StakeOf[Node] \in Nat
  BY <1>1
<1>6. \A t \in Nat : 3 * ((t * 2 + 2) \div 3) >= 2 * t
  OBVIOUS
<1>7. 3 * StakeOf[A] >= 2 * StakeOf[Node] /\ 3 * StakeOf[B] >= 2 * StakeOf[Node]
  BY <1>5, <1>6 DEF HasQuorum
<1> QED BY <1>2, <1>3, <1>4, <1>5, <1>7

(* Two checkpoints certified at one height share signers with a third of   *)
(* the stake, every one of which signed both and gave its lock up.         *)
THEOREM ForkAccountability == Spec => []ForkNeedsThirdOfStake
<1>1. LockInv /\ DoubleSignNeedsDroppedLock => ForkNeedsThirdOfStake
  <2> SUFFICES ASSUME LockInv, DoubleSignNeedsDroppedLock,
                      NEW x \in Certificates, NEW y \in Certificates,
                      x # y, height_of[x] = height_of[y]
               PROVE  3 * StakeOf[{v \in Node : {x, y} \subseteq signed[v] /\ height_of[x] \in dropped[v]}]
                        >= StakeOf[Node]
    BY DEF ForkNeedsThirdOfStake
  <2> DEFINE Both == cert[x] \intersect cert[y]
  <2> DEFINE Guilty == {v \in Node : {x, y} \subseteq signed[v] /\ height_of[x] \in dropped[v]}
  <2>1. /\ cert[x] \in SUBSET Node /\ cert[y] \in SUBSET Node
        /\ HasQuorum(cert[x]) /\ HasQuorum(cert[y])
        /\ \A v \in Both : v \in Node /\ x \in signed[v] /\ y \in signed[v]
    BY DEF Certificates, LockInv, SignTypes, VotesSigned
  <2>2. 3 * StakeOf[Both] >= StakeOf[Node]
    BY <2>1, QuorumIntersection
  <2>3. Both \subseteq Guilty
    BY <2>1 DEF DoubleSignNeedsDroppedLock
  <2>4. Guilty = Both \union (Guilty \ Both) /\ Both \intersect (Guilty \ Both) = {}
    BY <2>3
  <2>5. Guilty \in SUBSET Node /\ Both \in SUBSET Node /\ (Guilty \ Both) \in SUBSET Node
    BY <2>1
  <2> HIDE DEF Both, Guilty
  <2>6. /\ StakeOf[Guilty] = StakeOf[Both] + StakeOf[Guilty \ Both]
        /\ StakeOf[Guilty] \in Nat /\ StakeOf[Both] \in Nat /\ StakeOf[Guilty \ Both] \in Nat
        /\ StakeOf[Node] \in Nat
    BY <2>4, <2>5, ConsensusAssumption
  <2>7. 3 * StakeOf[Guilty] >= StakeOf[Node]
    BY <2>2, <2>6
  <2> QED BY <2>7 DEF Guilty
<1>2. Init => DoubleSignNeedsDroppedLock
  BY DEF Init, DoubleSignNeedsDroppedLock
<1> QED BY <1>1, <1>2, LockInvInit, LockInvStep, DoubleSignStep, PTL DEF Spec
=============================================================================
