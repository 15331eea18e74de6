---------------------------- MODULE MCServices ----------------------------
(* The services of one node, in lanes that `scenario` fixes in the initial *)
(* state: checkpoints of two validators, one of which restarts; contracts  *)
(* as the contract service and as the node executes them; the hash trees;  *)
(* and the state trie under failing writes.                                *)
EXTENDS MCCheckpointConsensus

CONSTANT Scenarios

VARIABLES scenario,
  contract, history, receipts, client, calls, minted, deployed, table, todo, exec, balances,
  leaves, committed, bundle, faults,
  root, dirty, cache, nodes, content, failed, ops

serviceVars == <<contract, history, receipts, client, calls, minted>>
nodeVars == <<deployed, table, todo, exec, balances>>
contractVars == <<serviceVars, nodeVars>>
merkleVars == <<leaves, committed, bundle, faults>>
trieVars == <<root, dirty, cache, nodes, content, failed, ops>>
laneVars == <<scenario, vars, contractVars, merkleVars, trieVars>>

-----------------------------------------------------------------------------
Call(entrypoint, from, to, n, limit) ==
  [entrypoint |-> entrypoint, from |-> from, to |-> to, amount |-> n, limit |-> limit]
TokenCalls ==
  "pay" :> Call("transfer", "a", "b", 1, 20000) @@ "self" :> Call("transfer", "a", "a", 1, 20000)
  @@ "poor" :> Call("burn", "b", "b", 2, 20000) @@ "mint" :> Call("mint", "a", "a", 1, 20000)
  @@ "cheap" :> Call("mint", "a", "a", 1, 1500)

Write(k, v) == [name |-> "storage_write", key |-> k, value |-> v]
Delete(k) == [name |-> "storage_delete", key |-> k]
Pay(n) == [name |-> "transfer", from |-> "a", to |-> "b", amount |-> n]
Run(os, ends) == [ops |-> os, ends |-> ends]
Progs ==
  "init" :> Run(<<Write("x", 0), Write("y", 0)>>, "ok") @@ "one" :> Run(<<Write("x", 1), Write("y", 1)>>, "ok")
  @@ "two" :> Run(<<Write("x", 2), Write("y", 1)>>, "ok") @@ "drop" :> Run(<<Delete("x"), Delete("y")>>, "ok")
  @@ "twice" :> Run(<<Pay(2), Pay(2)>>, "ok") @@ "trap" :> Run(<<Write("x", 3), Pay(1)>>, "trap")
WasmCalls == [p \in {"one", "two", "drop", "twice", "trap", "none"} |-> Call(p, "a", "b", 1, 20000)]
Deploys == <<"init", "one", "two", "drop", "trap">>
Balances == "a" :> 3 @@ "b" :> 0

Token == INSTANCE Contracts WITH
  disk <- table, accounts <- balances, Caller <- {"a", "b"}, Calls <- TokenCalls, Programs <- Progs,
  Seen <- Balances, Holders <- "a" :> 2, MaxHistory <- 2, MaxReceipts <- 2, MaxTransfers <- 2,
  MaxCalls <- 2, Finalized <- <<>>, Executor <- {"l", "c"}, GasPrice <- 21

Wasm == INSTANCE Contracts WITH
  disk <- table, accounts <- balances, Caller <- {"a", "b"}, Calls <- WasmCalls, Programs <- Progs,
  Seen <- Balances, Holders <- "x" :> 0, MaxHistory <- 2, MaxReceipts <- 2, MaxTransfers <- 2,
  MaxCalls <- 2, Executor <- {"l", "c"}, GasPrice <- 21,
  Finalized <- [t \in 1..5 |-> [from |-> IF t < 3 THEN "a" ELSE "b", contract |-> "c", program |-> Deploys[t]]]

Outcomes == Wasm!Explained

-----------------------------------------------------------------------------
K == INSTANCE Merkle WITH delta <- bundle, Leaf <- {1, 2}, MaxLeaves <- 6, Tx <- 1..4, MaxFaults <- 2

T == INSTANCE Trie WITH
  Depth <- 3, Key <- {<<0, 0, 0>>, <<0, 0, 1>>, <<0, 1, 0>>, <<1, 1, 0>>}, Value <- {1, 2}, MaxOps <- 4

-----------------------------------------------------------------------------
ServicesInit ==
  /\ scenario \in Scenarios /\ Init
  /\ IF scenario = "token" THEN Token!ServiceInit ELSE Wasm!ServiceInit
  /\ Wasm!NodeInit
  /\ IF scenario = "delta" THEN K!DeltaInit ELSE K!TreeInit
  /\ T!TrieInit

ContractLane ==
  \/ scenario = "token" /\ Token!ServiceNext /\ UNCHANGED nodeVars
  \/ scenario = "wasm" /\ Wasm!ServiceNext /\ UNCHANGED nodeVars
  \/ scenario = "executors" /\ Wasm!NodeNext /\ UNCHANGED serviceVars

TreeLane ==
  \/ scenario = "tree" /\ K!TreeNext
  \/ scenario = "delta" /\ K!DeltaFault

ServicesNext ==
  /\ UNCHANGED scenario
  /\ \/ scenario = "restart" /\ Next /\ UNCHANGED <<contractVars, merkleVars, trieVars>>
     \/ ContractLane /\ UNCHANGED <<vars, merkleVars, trieVars>>
     \/ TreeLane /\ UNCHANGED <<vars, contractVars, trieVars>>
     \/ scenario = "trie" /\ T!TrieNext /\ UNCHANGED <<vars, contractVars, merkleVars>>

ServicesSpec == ServicesInit /\ [][ServicesNext]_laneVars

-----------------------------------------------------------------------------
(* See the properties of Contracts, Merkle and Trie.  Tokens are           *)
(* counted where the contract is a token (token_transfer, token_mint and   *)
(* token_burn), proofs where the trees change.                             *)
ContractBooks ==
  /\ scenario = "token" => Token!TokensAccounted /\ Token!AcceptedAsSimulated
  /\ scenario = "wasm" => Wasm!ContractBooks
TrieShowsContent == scenario = "trie" => T!TrieShowsContent
ContractsExplained == scenario = "executors" => Wasm!ExplainedBy(Outcomes)
ProofsHold ==
  /\ scenario = "tree" => K!ProofsHold
  /\ scenario = "delta" => K!AcceptedDeltaIsWhole
=============================================================================
