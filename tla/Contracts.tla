----------------------------- MODULE Contracts ------------------------------
(***************************************************************************)
(* Smart contracts.  The runtime (rinku-node/src/contracts.rs and          *)
(* wasm_runtime.rs) is a function from a state and a call to a result; the *)
(* ContractService runs calls that name the state before and after them;   *)
(* NodeState (state/transactions.rs, state/contracts.rs) runs finalized    *)
(* contract transactions in steps between which it holds no lock.          *)
(*                                                                         *)
(* A contract's state is a map from keys to numbers; a token contract has  *)
(* no WASM code and its keys are the holders in its "balances" object.     *)
(* compute_state_hash is injective here: the hash of a state is the state. *)
(***************************************************************************)
EXTENDS Integers, Sequences, FiniteSets, SequencesExt, FiniteSetsExt, Maps

CONSTANTS
  Caller,       \* accounts that call contracts
  Calls,        \* calls of the service: id -> [entrypoint, from, to, amount, limit]
  Programs,     \* WASM exports: id -> [ops, ends]
  Seen,         \* accounts a call with effects may see: caller -> balance
  Holders,      \* the initial state of the service's contract
  MaxHistory,   \* MAX_HISTORY_PER_CONTRACT
  MaxReceipts,  \* MAX_RECEIPTS
  MaxTransfers, \* MAX_TRANSFERS
  MaxCalls,     \* bound: calls of each caller
  Finalized,    \* contract transactions: id -> [from, contract, program]; program "init" deploys
  Executor,     \* tasks that execute finalized transactions
  GasPrice

VARIABLES
  contract,    \* the service's contract: [state, hash, height]
  history,     \* execution_history: state diffs
  receipts,    \* receipts: id -> [pre, post, effects]
  client,      \* what a caller simulated and has yet to submit
  calls,       \* calls made by each caller
  minted,      \* tokens minted minus tokens burned by successful calls
  deployed,    \* NodeState.contracts
  disk,        \* the contracts table
  todo,        \* finalized transactions that are still to be executed
  exec,        \* executor -> its position
  accounts     \* balances of the node's accounts

serviceVars == <<contract, history, receipts, client, calls, minted>>
nodeVars == <<deployed, disk, todo, exec, accounts>>

-----------------------------------------------------------------------------
(* The gas schedule and the results of a run.  charge never stops a run by *)
(* itself: only the places that ask is_out_of_gas do.                      *)

Cost == [base_execution |-> 1000, storage_read |-> 200, storage_write |-> 5000,
         storage_delete |-> 5000, log |-> 100, emit |-> 500, balance_check |-> 100,
         transfer |-> 8000, mint |-> 6000, burn |-> 6000]

Result(ok, gas, diff, effects) == [success |-> ok, gas |-> gas, diff |-> diff, effects |-> effects]
Failed(gas) == Result(FALSE, gas, <<>>, <<>>)

(* compute_state_diff, and the loop that applies a diff to a state. *)
Diff(old, new) ==
  {[key |-> k, new |-> IF k \in DOMAIN new THEN <<new[k]>> ELSE <<>>] :
     k \in {k \in DOMAIN old \union DOMAIN new :
              ~(k \in DOMAIN old /\ k \in DOMAIN new /\ old[k] = new[k])}}

(* A successful run; the diff is a sequence of one element or none. *)
Success(gas, old, new) == Result(TRUE, gas, <<[pre |-> old, post |-> new, changes |-> Diff(old, new)]>>, <<>>)

(* Mutant: a key that was removed stays. *)
AppliedKeeping(state, diff) ==
  LET set == {c \in diff : c.new # <<>>}
  IN [k \in DOMAIN state \union {c.key : c \in set} |->
        IF \E c \in set : c.key = k THEN (CHOOSE c \in set : c.key = k).new[1] ELSE state[k]]

Applied(state, diff) ==
  LET gone == {c.key : c \in {c \in diff : c.new = <<>>}}
      set == {c \in diff : c.new # <<>>}
  IN [k \in (DOMAIN state \ gone) \union {c.key : c \in set} |->
        IF \E c \in set : c.key = k THEN (CHOOSE c \in set : c.key = k).new[1] ELSE state[k]]

-----------------------------------------------------------------------------
(* execute_mock: the token contract, for a contract without WASM code.     *)

Entered == Cost.base_execution + Cost.storage_read

Moved(state, from, to, amount) ==
  LET debited == Insert(state, from, GetOr(state, from, 0) - amount)
  IN Insert(debited, to, GetOr(debited, to, 0) + amount)

TokenTransfer(state, c) ==
  LET gas == Entered + Cost.balance_check
      spent == gas + Cost.transfer + 2 * Cost.storage_write
  IN IF GetOr(state, c.from, 0) < c.amount THEN Failed(gas + Cost.emit)
     ELSE IF spent > c.limit THEN Failed(spent)
     ELSE Success(spent + Cost.log + Cost.emit, state, Moved(state, c.from, c.to, c.amount))

TokenMint(state, c) ==
  LET spent == Entered + Cost.mint + Cost.storage_write
  IN IF spent > c.limit THEN Failed(spent)
     ELSE Success(spent + Cost.log + Cost.emit, state,
                  Insert(state, c.to, GetOr(state, c.to, 0) + c.amount))

TokenBurn(state, c) ==
  LET gas == Entered + Cost.balance_check
      spent == gas + Cost.burn + Cost.storage_write
  IN IF GetOr(state, c.from, 0) < c.amount THEN Failed(gas + Cost.emit)
     ELSE IF spent > c.limit THEN Failed(spent)
     ELSE Success(spent + Cost.log + Cost.emit, state,
                  Insert(state, c.from, GetOr(state, c.from, 0) - c.amount))

TokenRead == Result(TRUE, Entered + Cost.storage_read + Cost.log, <<>>, <<>>)

ExecuteMock(state, c) ==
  IF Cost.base_execution > c.limit THEN Failed(Cost.base_execution)
  ELSE CASE c.entrypoint = "init" -> Success(Entered + Cost.emit, state, state)
         [] c.entrypoint = "transfer" -> TokenTransfer(state, c)
         [] c.entrypoint = "mint" -> TokenMint(state, c)
         [] c.entrypoint = "burn" -> TokenBurn(state, c)
         [] c.entrypoint = "get_balance" -> TokenRead
         [] OTHER -> Failed(Entered)

-----------------------------------------------------------------------------
(* WASM code is the sequence of host calls an export makes and how it      *)
(* ends: status 0, an error status, a trap (out of fuel included), or no   *)
(* such export.  Results of the host calls are ignored by the code.        *)

BaseGas(entrypoint) == IF entrypoint = "init" THEN 50000 ELSE 21000

HostTransfer(h, op, caller) ==
  IF op.amount <= 0 \/ op.from # caller THEN h
  ELSE IF GetOr(h.accounts, op.from, 0) < op.amount \/ Len(h.transfers) >= MaxTransfers
  THEN [h EXCEPT !.gas = @ + Cost.transfer]
  ELSE [h EXCEPT !.gas = @ + Cost.transfer,
                 !.accounts = Moved(@, op.from, op.to, op.amount),
                 !.transfers = Append(@, [from |-> op.from, to |-> op.to, amount |-> op.amount])]

HostCall(h, op, caller) ==
  CASE op.name = "storage_read" -> [h EXCEPT !.gas = @ + Cost.storage_read]
    [] op.name = "storage_write" ->
         [h EXCEPT !.storage = Insert(@, op.key, op.value), !.gas = @ + Cost.storage_write]
    [] op.name = "storage_delete" ->
         [h EXCEPT !.storage = Without(@, {op.key}), !.gas = @ + Cost.storage_delete]
    [] op.name = "transfer" -> HostTransfer(h, op, caller)

(* A new HostState. *)
Host(state, accs) == [storage |-> state, accounts |-> accs, transfers |-> <<>>, gas |-> 0]

(* build_success_output.  A run that changes nothing has no diff. *)
SuccessOutput(state, h, gas) ==
  LET ran == Success(gas, state, h.storage)
  IN [ran EXCEPT !.effects = h.transfers, !.diff = IF h.storage = state THEN <<>> ELSE @]

(* An error status or a trap drops everything but the gas. *)
HandleResult(state, ends, h, gas) == IF ends = "ok" THEN SuccessOutput(state, h, gas) ELSE Failed(gas)

ExecuteWasm(state, entrypoint, caller, accs) ==
  IF entrypoint \notin DOMAIN Programs THEN Failed(0)
  ELSE LET p == Programs[entrypoint]
           h == FoldLeft(LAMBDA a, op : HostCall(a, op, caller), Host(state, accs), p.ops)
       IN HandleResult(state, p.ends, h, BaseGas(entrypoint) + h.gas)

(* ContractRuntime: WASM code if there is any, else the token contract. *)
Execute(state, c, caller, accs) ==
  IF c.entrypoint \in DOMAIN Programs THEN ExecuteWasm(state, c.entrypoint, caller, accs)
  ELSE ExecuteMock(state, c)

(* apply_contract_transfer_effects, which stops at the first effect that   *)
(* the sender cannot pay.                                                  *)
ApplyEffects(accs, effects) ==
  FoldLeft(LAMBDA a, e : IF ~a.ok \/ GetOr(a.accounts, e.from, 0) < e.amount
                         THEN [a EXCEPT !.ok = FALSE]
                         ELSE [a EXCEPT !.accounts = Moved(@, e.from, e.to, e.amount)],
           [ok |-> TRUE, accounts |-> accs], effects)

-----------------------------------------------------------------------------
(* ContractService.  A caller simulates a call (call_contract of api.rs)   *)
(* and submits it later with the state hashes it saw.                      *)

ServiceInit ==
  /\ contract = [state |-> Holders, hash |-> Holders, height |-> 0]
  /\ history = <<>> /\ receipts = <<>>
  /\ client = <<>> /\ calls = [a \in Caller |-> 0] /\ minted = 0

Simulate(a, c) ==
  LET r == Execute(contract.state, Calls[c], "", <<>>)
  IN /\ a \notin DOMAIN client /\ calls[a] < MaxCalls
     /\ client' = Insert(client, a, [call |-> c, pre |-> contract.hash,
                                     post |-> IF r.diff = <<>> THEN contract.hash
                                              ELSE Applied(contract.state, r.diff[1].changes)])
     /\ calls' = [calls EXCEPT ![a] = @ + 1]
     /\ UNCHANGED <<contract, history, receipts, minted, nodeVars>>

(* The receipts are cut to half of the limit, whichever the map yields first. *)
Kept(all) ==
  IF Cardinality(DOMAIN all) <= MaxReceipts THEN {all}
  ELSE {Without(all, K) : K \in {K \in SUBSET DOMAIN all : Cardinality(K) = MaxReceipts \div 2}}

Issued(c) == CASE c.entrypoint = "mint" -> c.amount
               [] c.entrypoint = "burn" -> -c.amount
               [] OTHER -> 0

Accepts(p) == p.pre = contract.hash

(* The diff is applied and recorded; the history is trimmed from the front. *)
Recorded(d) ==
  LET all == Append(history, d)
  IN SubSeq(all, Max({1, Len(all) - MaxHistory + 1}), Len(all))

Commit(a, r, effects) ==
  LET d == r.diff[1]
      post == IF r.diff = <<>> THEN contract.hash ELSE d.post
  IN /\ contract' = IF r.diff = <<>> THEN contract
                    ELSE [state |-> Applied(contract.state, d.changes), hash |-> d.post,
                          height |-> contract.height + 1]
     /\ history' = IF r.diff = <<>> THEN history ELSE Recorded(d)
     /\ receipts' \in Kept(Insert(receipts, <<a, calls[a]>>,
                                  [pre |-> contract.hash, post |-> post,
                                   predicted |-> client[a].post, effects |-> effects]))
     /\ minted' = minted + Issued(Calls[client[a].call])

Dropped == UNCHANGED <<contract, history, receipts, minted>>

(* A run that does not end where the caller said it would is refused. *)
AsPredicted(p, r) == r.diff = <<>> \/ r.diff[1].post = p.post

ExecuteCall(a) ==
  LET p == client[a]
      r == Execute(contract.state, Calls[p.call], "", <<>>)
  IN /\ a \in DOMAIN client /\ client' = Without(client, {a})
     /\ IF Accepts(p) /\ r.success /\ AsPredicted(p, r) THEN Commit(a, r, <<>>) ELSE Dropped
     /\ UNCHANGED <<calls, nodeVars>>

ExecuteCallWithEffects(a) ==
  LET p == client[a]
      r == Execute(contract.state, Calls[p.call], a, Seen)
  IN /\ a \in DOMAIN client /\ client' = Without(client, {a})
     /\ IF Accepts(p) /\ r.success /\ AsPredicted(p, r) THEN Commit(a, r, r.effects) ELSE Dropped
     /\ UNCHANGED <<calls, nodeVars>>

(* A stateful call names only the state before it. *)
ExecuteStatefulCall(a) ==
  LET p == client[a]
      r == Execute(contract.state, Calls[p.call], "", <<>>)
  IN /\ a \in DOMAIN client /\ client' = Without(client, {a})
     /\ IF Accepts(p) /\ r.success THEN Commit(a, r, <<>>) ELSE Dropped
     /\ UNCHANGED <<calls, nodeVars>>

ServiceNext ==
  \E a \in Caller :
    \/ \E c \in DOMAIN Calls : Simulate(a, c)
    \/ ExecuteCall(a) \/ ExecuteCallWithEffects(a) \/ ExecuteStatefulCall(a)

-----------------------------------------------------------------------------
(* NodeState executes finalized contract transactions: a fast-path batch   *)
(* and a checkpoint may do so at the same time.  The contract is read,     *)
(* executed, the fee charged and the result written under separate locks,  *)
(* and then the whole table is saved without one.                          *)

Idle == [at |-> "idle"]

NodeInit ==
  /\ deployed = <<>> /\ disk = <<>> /\ todo = DOMAIN Finalized
  /\ exec = [e \in Executor |-> Idle]
  /\ accounts = Seen

Goto(e, position) == exec' = [exec EXCEPT ![e] = position]

(* A call needs its contract; a deployment starts from the given state. *)
ReadContract(e, t) ==
  LET tx == Finalized[t]
      deploy == tx.program = "init"
  IN /\ exec[e] = Idle /\ t \in todo /\ todo' = todo \ {t}
     /\ IF deploy \/ tx.contract \in DOMAIN deployed
        THEN Goto(e, [at |-> "charge", tx |-> tx,
                      read |-> IF deploy THEN [state |-> <<>>, height |-> -1]
                               ELSE deployed[tx.contract]])
        ELSE UNCHANGED exec
     /\ UNCHANGED <<deployed, disk, accounts, serviceVars>>

(* charge_contract_execution_fee, for the gas beyond a transfer's. *)
ExecutionFee(gas) == (Max({0, gas - 21000}) * GasPrice) \div 21000

Charge(e) ==
  LET tx == exec[e].tx
      r == ExecuteWasm(exec[e].read.state, tx.program, tx.from, <<>>)
      fee == ExecutionFee(r.gas)
  IN /\ exec[e].at = "charge"
     /\ accounts' = IF tx.from \in DOMAIN accounts
                    THEN [accounts EXCEPT ![tx.from] = Max({0, @ - fee})] ELSE accounts
     /\ Goto(e, IF r.success \/ tx.program = "init"
                THEN [at |-> "write", tx |-> tx, read |-> exec[e].read, result |-> r]
                ELSE Idle)
     /\ UNCHANGED <<deployed, disk, todo, serviceVars>>

(* What the execution leaves behind; init may fail and the contract is     *)
(* deployed with the given state.                                          *)
Outcome(x) ==
  LET new == IF x.result.diff = <<>> THEN x.read.state
             ELSE Applied(x.read.state, x.result.diff[1].changes)
  IN [state |-> new, hash |-> new, height |-> x.read.height + 1]

(* Mutant: the changes are applied to the contract as it is now. *)
WrittenOver(id, x) ==
  LET now == IF id \in DOMAIN deployed THEN deployed[id] ELSE Outcome(x)
      new == IF x.result.diff = <<>> THEN now.state ELSE Applied(now.state, x.result.diff[1].changes)
  IN Insert(deployed, id, [state |-> new, hash |-> new, height |-> x.read.height + 1])

Written(id, x) == Insert(deployed, id, Outcome(x))

(* store_contract and update_contract_state; contracts are never removed. *)
WriteContract(e) ==
  /\ exec[e].at = "write"
  /\ deployed' = Written(exec[e].tx.contract, exec[e])
  /\ Goto(e, [at |-> "save", table |-> deployed'])
  /\ UNCHANGED <<disk, todo, accounts, serviceVars>>

SaveContracts(e) ==
  /\ exec[e].at = "save"
  /\ disk' = exec[e].table
  /\ Goto(e, Idle)
  /\ UNCHANGED <<deployed, todo, accounts, serviceVars>>

NodeNext ==
  \E e \in Executor :
    \/ \E t \in todo : ReadContract(e, t)
    \/ Charge(e) \/ WriteContract(e) \/ SaveContracts(e)

-----------------------------------------------------------------------------
(* The recorded diffs lead, one from the other's end, to the state the     *)
(* contract has and to the hash that calls are checked against: nothing    *)
(* that failed, was refused or was trimmed leaves a gap.                   *)
HistoryLeadsToState ==
  LET n == Len(history)
  IN /\ contract.hash = contract.state
     /\ n = Min({contract.height, MaxHistory})
     /\ \A i \in 1..(n - 1) : history[i].post = history[i + 1].pre
     /\ n > 0 => history[n].post = contract.hash

(* A call that was accepted did what its caller's simulation said, even    *)
(* though other calls ran between the simulation and the submission.       *)
AcceptedAsSimulated == \A id \in DOMAIN receipts : receipts[id].post = receipts[id].predicted

(* Transfers, failed calls and calls without gas neither make nor lose     *)
(* tokens: the holders have what was minted and not burned.                *)
TokensAccounted == SumFunction(contract.state) = SumFunction(Holders) + minted

(* The transfers a receipt reports can be applied to the accounts the run  *)
(* saw: together they spend nothing the sender did not have.               *)
EffectsPayable == \A id \in DOMAIN receipts : ApplyEffects(Seen, receipts[id].effects).ok

(* The contract that results when finalized transactions run one after the *)
(* other, each on what the one before it left.                             *)
RunInOrder(order) ==
  FoldLeft(LAMBDA c, t :
             LET tx == Finalized[t]
                 r == ExecuteWasm(c.state, tx.program, tx.from, <<>>)
             IN IF r.success \/ tx.program = "init"
                THEN Outcome([read |-> c, result |-> r]) ELSE c,
           [state |-> <<>>, hash |-> <<>>, height |-> -1], order)

Orders(id) ==
  LET T == {t \in DOMAIN Finalized : Finalized[t].contract = id}
  IN UNION {SetToSeqs(S) : S \in SUBSET T}

Explained == [id \in {Finalized[t].contract : t \in DOMAIN Finalized} |->
                {RunInOrder(order) : order \in Orders(id)}]

(* In memory and on disk a contract is what some of its transactions leave *)
(* when run one after the other: two executors that overlap may lose one   *)
(* whole call, but never mix the writes of two.                            *)
ExplainedBy(outcomes) ==
  \A contracts \in {deployed, disk} : \A id \in DOMAIN contracts : contracts[id] \in outcomes[id]

ContractsExplained == ExplainedBy(Explained)

(* State, history and receipts of a contract tell the same story.          *)
ContractBooks == HistoryLeadsToState /\ AcceptedAsSimulated /\ EffectsPayable
=============================================================================
