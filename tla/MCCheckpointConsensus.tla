----------------------- MODULE MCCheckpointConsensus -----------------------
(* Validators of equal stake, or with n2 holding twice as much.  One        *)
(* leader is elected at every height.                                      *)
EXTENDS CheckpointConsensus, TLC

CONSTANTS n1, n2

MCStakeOfSkewed ==
  [S \in SUBSET Node |-> Cardinality(S) + IF n2 \in S THEN 1 ELSE 0]
MCStakeOf == [S \in SUBSET Node |-> Cardinality(S)]
MCLeader == [x \in Hash \union {0} |-> n1]
=============================================================================
