# Achain: a TLA+ model of the chain node

Achain is a delegated-proof-of-stake blockchain node with contracts, derived
from BitShares. This directory models the part of it that decides which blocks
and transactions count, who signs them, what they do to balances, votes and
contracts, and how blocks reach a node from its peers; all of it lies under
`src/src/Chain/libraries/`. `PROJECT.json` gives, for every definition, the
lines it stands for; this file explains the whole.

In short:

| module | stands for |
|---|---|
| `BlockTree` | the blocks, as a tree rooted at genesis (constants and assumptions) |
| `ChainDatabase` | fork database and fork choice: `push_block` and what it calls |
| `ChainDatabaseProps` | its properties, its inductive invariant, the refinement mapping |
| `MainChain` | abstract specification: what other components see of the head |
| `PendingChainState` | the overlay of changes and its undo state (operators only) |
| `BlockLedger` | extension, pop, crash, open and repair, one disk write at a time |
| `TransactionPool` | pool, fee index, pending state, duplicate cache, block production |
| `Delegates` | rounds, slot signees, pay, fees and votes over blocks and pops |
| `ContractTables` | contract operations and the tables whose undo follows other rules |
| `NodeSync` | download of the chain from peers, with the calls to the client |
| `ChainDatabaseProofs`, `BlockLedgerProofs`, `TransactionPoolProofs`, `DelegatesProofs`, `ContractTablesProofs`, `NodeSyncProofs` | theorems about each |
| `SumTheorems`, `FoldTheorems` | lemmas about sums over sets and loops over sequences |
| `MCChainDatabase`, `MCBlockLedger`, `MCTransactionPool`, `MCDelegates`, `MCContractTables`, `MCNodeSync` | small instances for TLC |

`BlockLedger`, `TransactionPool` and `ContractTables` share the overlay of
`PendingChainState`; `TransactionPool` relies on what `MainChain` promises of the
head; `ChainDatabase` implements `MainChain`.

## 1. Inventory

Paths are relative to `src/src/Chain/libraries/`.

**Fork database and fork choice** (`blockchain/ChainDatabase.cpp`).
State: every block ever stored, for each one `BlockForkData` (known, linked,
valid or invalid with a reason, included, next blocks), blocks by number in
order of arrival, the list of blocks refused for a timestamp ahead of the
clock, the head, the number index, undo states of the last
`ALP_BLOCKCHAIN_MAX_UNDO_HISTORY` blocks. Operations: `push_block`,
`store_and_index`, `switch_to_fork`, `pop_block`, `extend_chain`, `mark_*`,
`open`. Hard: blocks arrive in any order and their marks must reach blocks that
came before them; a fork switch can fail after any number of pops and
extensions and the next candidate starts from there; time makes refused blocks
acceptable, and the clock (NTP with an adjustment) may step back; a block numbered
1 is compared with no parent; the undo window is finite.
Correct when the head is the tip of the longest acceptable stored branch and
every index says the same about the main chain.

**Ledger writes, undo and repair** (same file, `PendingChainState.cpp`).
State: the tables in LevelDB, undo states, include flags, number index, one
status record. Operations: `save_undo_state`, `apply_changes`,
`store_extend_status`, `pop_block`, `repair_database`, `repair_block`. Hard:
there is no transaction across tables, so a process that dies leaves any prefix
of the writes; the network starts before the repair. Correct when a restarted node has exactly the state of one block.

**Pending transactions and block production** (`ChainDatabase.cpp`,
`client/Client.cpp`). State: `_pending_transaction_db`, `_pending_fee_index`,
`_pending_trx_state`, `_unique_transactions`, the scheduled
`revalidate_pending` fiber. Operations: `store_pending_transaction`,
`clear_pending`, `revalidate_pending`, `generate_block`, and the parts of
extension, pop and open that touch them. Hard: revalidation runs later, in a
fiber of its own; pops take confirmed transactions back; time may go back in a
fork switch. Correct when no transaction counts twice or is lost from view.

**Delegates** (`ChainDatabase.cpp`, `AccountEntry.cpp`, the fees and votes of
`TransactionEvaluationState.cpp`, `*Operations.cpp`). State: account entries with
votes, pay and production counts, balances with a slate each, collected fees,
the supply, required confirmations, the active list of the round and the sorted
set `_delegate_votes`, which exists in the database only. Operations: the parts of
`extend_chain` (`update_delegate_production_info`, `pay_delegate`,
`update_active_delegate_list`), `pop_block`, and the transactions that move money
or change an account. Hard: integer division of pay and fees; money that votes
moves in the middle of a block; the vote set is derived state that has to follow
entries forwards and backwards. Correct when no unit is lost or votes twice, every
slot is counted once and the best voted sign the next round.

**Transaction evaluation** (`TransactionEvaluationState.cpp`, `*Operations.cpp`):
deposits, withdrawals, accounts, slates, fees (in `Delegates`), contract balances
(in `ContractTables`), the order and the limits of a block (in `TransactionPool`).

**Contracts** (`ContractOperations.cpp`, `ContractEntry.cpp`,
`StorageOperations.cpp`, `glua/`). State: entries, contract storage, index by name,
index by registering transaction, margin and contract balances. Operations:
register, call, transfer, upgrade, destroy; each runs code whose result travels as
a list of operations in a result transaction. Hard: three of the tables do not
follow the common pattern of overlays and undo. Correct when names are unique and
found, money is conserved, and a popped block leaves no trace.

**Peer-to-peer node** (`net/Node.cpp`, `net/PeerConnection.cpp`). State: for each
connection the ids it listed, what was requested from it and what it advertised;
for the node the active requests, received blocks, the backlog and the inventory.
Operations: the message handlers, the loops that request and advertise, the
termination of inactive connections. Hard: handlers wait for the client, on another
thread, while handlers of other peers run; connections end between request and
answer. Correct when nothing is requested twice at once, the backlog is bounded
and the node ends in sync.

**Client** (`client/Client.cpp`): answers to the node, the delegate loop, start-up.
**Wallet**, **RPC/CLI**, **database wrappers** (`db/`).

How they interact: the node and the delegate loop hand blocks to `push_block`
and transactions to `store_pending_transaction`; both evaluate through
`TransactionEvaluationState` on a `PendingChainState`; the chain database calls
its observers (wallet) in fibers that run later. Fibers are cooperative:
`push_block` takes a mutex and asserts that it is not preempted, so calls do not
overlap and no fiber sees a half-done fork switch. Failures come from the
disk (the process dies), from the contents of blocks (an exception at any check)
and from the order of arrival.

## 2. The models

### Fork choice (`ChainDatabase`)

One call of `push_block` is split at its loops: `push_block(b)` (early returns,
`store_and_index`, linking and marking), `next_number` and `switch_to_fork` (one
candidate of the two nested loops), `pop_block`, `extend_chain`, `mark_invalid`
(the exception path of an extension). `pc` is the place in the call. Between any
two steps the clock may jump to any other value, forwards or backwards (`tick`:
`now()` follows NTP and `adjusted_time_sec`), and `open` is a clean stop and start.
A block numbered 1 may have any parent, since `verify_header` compares numbers,
times and parents only above 1; `pop_genesis` is the `pop_block` that returns at once
because the head is genesis, in a loop that then turns for ever.
`applied` records whose changes are in the tables; block contents are reduced to
`Good`, because the checks other than the header's depend on the branch alone.
A block enters `next_blocks` of its parent when it is stored, so the walks of
the code over `next_blocks` are the set `Descendants`. Where the order of an
`unordered_set` decides (`longest_fork`) the model chooses. `retained_future_blocks`
is the two-day cut-off of `clear_invalidation_of_future_blocks`.

The reads before the mutex and the mutex itself are one step. Replay of a whole
chain, checkpoints, the block signature and the production schedule are not
modelled (they are part of `Good`).

`MainChain` is what the rest of the node may rely on: the head moves only to the
tip of an acceptable branch that is not shorter. `PublicHead` states that
`ChainDatabase` implements it with `tip <- IF pc = "idle" THEN head ELSE start`.

### The ledger on disk (`PendingChainState`, `BlockLedger`)

A key stands for a table with a key of it. `Overlay` is the pair of stored
entries and removed keys with `lookup`, `insert`, `erase`, `apply_changes`,
`get_undo_state` as in the code; contract storage and the indexes by name, symbol
and address follow other rules and are left out. `BlockLedger` performs each durable write as
a step: undo state, status 1, every entry, include flag, number index, status 2;
likewise for a pop and for a repair. `crash` can happen before any of them and
loses memory; LevelDB hands a write to the operating system before it returns,
so writes survive the death of the process (not a power failure, which is not
modelled). Entries of an overlay have distinct keys, so the order of
`apply_changes` is free. Chain length, undo window and header checks are those of
`ChainDatabase`; that numbers grow along a branch (`OrderedAssumption`) is
`HeadBranchOrdered`, proved there for trees in which blocks numbered 1 extend genesis.

The start-up is that of `Client::configure_from_command_line`: `open` first
(`Client.cpp:1685`), then the network (1820), whose start waits for other threads so
that blocks of peers may come in, and `repair_database` last (1867). `repair_due` is
set between the two when `open` found the status of an interrupted block. Calls of
`push_block` are enabled all the while. One that begins while the repair is due and
the status still asks for it sets `overtaken`: it works on tables that hold half of
another block, and an extension replaces the status. The properties speak of a node
that is `Serving`, that is, not overtaken and with nothing left to repair; nothing is
claimed after a block has overtaken a repair, so the runs do not go on from there
(constraint `Followed`).
`CrashInSwitch` says whether the process may die between a pop and the next
extension: FALSE for what the repair covers, TRUE for what it does not.

### Transactions (`TransactionPool`)

A transaction moves one unit between two balances, so transactions can depend on
each other and compete; `Fee` ranks them, `Expiration` bounds them. Evaluation
reads through the overlay of `PendingChainState`, which holds absolute
balances, as the code does. All loops over transactions are one operator,
`EvaluateInOrder`. An operation between two yields is one step: storing, one run
of `revalidate_pending`, an extension with its `clear_pending` and purge, a pop.
`switching` is positive from the first pop until the chain is as long again;
meanwhile no other fiber runs, which is what `MainChain` and the absence of
preemption say. The chain starts above some existing block, past the last
checkpoint. `generate_block` fills a block up to `MaxBlockTrx` transactions and
`MaxBlockSize` units; `Size` is a transaction as it came in, `BlockSize` as it
lies in the block, which is larger for a contract transaction with its result.
What else a result transaction changes is not modelled here; what the delegate
leaves out of its own blocks, blacklists and transfers of assets that
`check_asset_transfer` (`ChainDatabase.cpp:2346`) refuses, is the fixed set
`Excluded`: for assets the answer could change with the chain, but it only ever
removes a transaction from the node's own block.

### Delegates (`Delegates`)

Time is counted in slots. `BeginBlock` is the header check and
`update_delegate_production_info`, then come up to `MaxOps` transactions
(`Transfer`, `RegisterAccount`, `UpdateAccount`, `WithdrawPay`), then `EndBlock`
with the pay, the next list at the end of a round and the writes; `DropBlock` is
an exception anywhere in between, `PopBlock` restores what was below the block
(that an undo state does so is proved in `BlockLedgerProofs`) and maintains
`votes` as `AccountEntry::store` and `::remove` do. One owner holds one balance
for each slate; a slate is the set of its delegates. The order of a round depends
on a hash chain of secrets and is any order. Signatures, further assets and
escrow are left out. The division by `BlocksPerTwoWeeks` and by 100 is that of the
code. Amounts are unbounded integers: the most shares there can be
(`ALP_BLOCKCHAIN_MAX_SHARES`, 10^18) are below 2^63, and overflow is not modelled.

### Contracts (`ContractTables`)

Entries, balances and the index by registering transaction are three instances
of `PendingChainState`. The storage has its own rules: it takes its removed keys
from the entries, and the undo of a first write records nothing. The name index
is written as a side effect of storing an entry and never taken back.
`Restart` reads the undo states from disk, where the index by registering
transaction is missing. One owner runs every operation; `Fee` stands for all
that a transaction costs; what a contract's code does is a choice of new storage
and of a payment it can afford, or a failure that costs the fee
(`ExecutionFails`). Events are not modelled.

`Deposit` is the ordinary `DepositOperation`. It checks the type of the withdrawal
condition and not the type of the balance, whose id is a hash over both, so it can
pay into the margin or the balance of any contract: one that is not registered yet,
a temporary one, a destroyed one. `stranded` counts what such deposits put where no
contract operation reaches it (a margin is compared with one exact amount, the
balance of a dead contract is not looked at); it follows blocks and pops, and
`MarginHeld` and `NoneStranded` are stated with it.

### Synchronisation (`NodeSync`)

One action per message handler, per loop and per way a connection ends. A handler
that calls the client is two actions: the call is put in `calls`, the client's
thread runs it (`run_call`) and puts it in `returns`, and the rest of the handler
is `list_checked`, `block_handled` or `sync_block_handled`. The node reads no further
message of a peer while its handler waits, but those of other peers. The calls
that only read the chain to write a message are part of the step that sends it:
`ask` contains `get_blockchain_synopsis`, although the fiber yields there before it
notes the request (`Node.cpp:2350`-2356), and `list_checked` contains the further
questions of `Node.cpp:2420`-2510 (`has_item` for each id, `get_block_time`,
`get_blockchain_now`, `sync_status`), of which the first, `has_item`, is the call that
is modelled.
Messages of a connection arrive in order, late or never; a connection can break
at any moment, with a request open or a block in the backlog.

All peers have prefixes of one chain of valid blocks, so neither forks between
peers nor blocks that fail are seen here (`ChainDatabase` has both). Left out:
handshake, address book, firewall check, transactions in the inventory, hard-fork
version checks, peers that refuse for a block below the undo history, the check of
implausible counts, expiry and capacity of inventory and of the recent-block
buffer, unsolicited blocks. A synopsis for a peer with a pending list is reduced to
its last id, which decides the answer of a peer on the same chain.

## 3. Runs

| run | instance | shows |
|---|---|---|
| `fork_choice` | 10 blocks, 5 forks, undo window 3 | all orders of arrival: head longest, indexes agree, `push_block` returns, `PublicHead` |
| `future_blocks` | 7 blocks, one numbered 1 on block 2, clock 0..3 in both directions, restarts | each block of the main chain passed its checks on its own parent; only branches with a bad block are refused for good |
| `crash_recovery` | 3 blocks, 2 forks, 2 keys | a crash before any write of an extension or repair costs at most that block, with calls before and after the repair |
| `pending_pool` | 4 transactions, 3 balances, 3 blocks, times 1..4 | cache, pool, fee index and pending state agree with the chain; blocks stay within their size |
| `delegates` | 3 accounts, rounds of 2, 4 blocks, 5 slots, rates 50 and 100 | supply, votes, vote set, production counts and the choice of the next round |
| `contract_tables` | 2 contracts, 1 name, 2 storages, 7 units, 2 operations in each of 2 blocks | names, money, margins, ordinary deposits; what a pop brings back |
| `node_sync` | 2 peers, one connection each, lists of 3, ids before blocks up to 2, other limits 1; heights 3 and 2, own head 1, one unasked event, or heights 4 and 3, own head 0, no event | no double request, bounded backlog, the node catches up |
| `deep_fork` | 7 blocks, undo window 2 | counterexample, see section 5 |
| `crash_in_pop` | as `crash_recovery` | counterexample |
| `duplicate` | as `pending_pool` | counterexample |
| `contract_names` | as `contract_tables` | counterexample |
| `sync_stuck` | heights 3 and 2, own head 1, lists of 2, every other limit 1, no peer lacks a block | counterexample |

Why the bounds are enough. `fork_choice` needs a main chain and a rival that
overtakes it, a rival that fails at its last block after everything was popped
(`b5`), a sibling that ties (`c3`), a block whose number does not fit (`m5`) and a
first block that fails (`x1`); the window of 3 is reached and exceeded by the
chain of 4. In `future_blocks` the clock passes every refused timestamp and the
retention of 2 and falls behind blocks of the main chain; `y1`, numbered 1 on top of
`a2`, and its children (`y2`, and `m3`, which leaves a number out) overwrite the number
index, are popped again and met by restarts. In `crash_recovery` one key has an entry at genesis and one has
none, so entries are created, removed and stored again; that values and a third
key add no new case is what the theorems say, for every set of them. In `pending_pool` transaction 1 spends what 2 deposits but
pays more, 3 competes with 2 and is excluded by the delegate, 4 becomes
acceptable only later, 2 expires while the chain grows, and both limits are
passed (`MaxQueue`, `MaxRevalidate`); transaction 2 grows by its result, so a block
that the first check of the size admits is refused by the second. In `delegates`
two rounds are completed, there are more candidates than places, a delegate can
retire, lose its place, miss slots and have odd shares rounded away. In
`contract_tables` two contracts compete for the name in one block or in two, a
storage is written first in the block of its contract, in a later one, or again,
and seven units pay for every order of operations; contracts and storages are
symmetric. `node_sync` has two starts. In one the node lacks two blocks and one
unasked event (a new block, a question or a closed connection) can fall anywhere. In
the other it lacks four, and a's list is incomplete and longer than `MinPrefetch`: the
node turns to fetching blocks (`Node.cpp:2513`-2518) and comes back for the last id
when a delivers (3305-3307), or asks at once when part of the list has come from b in
the meantime. In both the lists overlap, the limits of 1 stop the prefetch and the
backlog, and peer b may lack a block. A second connection or event adds interleavings
beyond the time of a run.
Named bounds: `MaxClock`, `MaxTime`, `MaxLen`, `MaxAmount`, `MaxOps`, `MaxBlocks`,
`MaxBlock`, `MaxConnects`, `MaxEvents`.

Fairness. `ChainDatabase!FairSpec` is weak fairness of the steps of a running
`push_block`: the fiber holds the mutex, is not preempted and waits for nothing.
`BlockLedger!FairSpec` is weak fairness of the writes of a running call, of `open` and
of the extension that follows a pop, not of new blocks or of crashes, and strong
fairness of `repair_database`: the fiber that starts the node gets its turn between two
calls of `push_block`. `Recovers` excludes a node that is killed for ever and one whose
repair was overtaken. `NodeSync!FairSpec` is weak fairness of what the
node and its client do without waiting (`Progress`: the scheduler runs every fiber
that can go on) and of `request_ignored` (`terminate_inactive_connections_loop` runs
on a timer and ends a connection with an old request). Nothing is assumed of the
peers: one that never answers is disconnected. `SyncCompletes` speaks of behaviours
in which no connection ends, no peer advertises or lacks a block, no accepted block is
received again (`Leftover`) and no peer's unfinished list is used up by others
(`Drained`); the premise is met by peers that answer, and it leaves out the cases of
section 5 in which the code does get stuck. So it says that there are no others. Deadlock is checked in every run but `node_sync` and
`sync_stuck`: a node in sync has nothing to do.

Each property is also checked against a mutated definition that breaks it; the
mutants stand right before the definition they replace.

## 4. Theorems

Every invariant, action property and refinement of the passing runs is stated by a
theorem, for every block tree, every set of keys, values, transactions, accounts,
contracts and peers and every limit, from the named `ASSUME`s only. Where a theorem
has a further hypothesis it is named below, with the reason the code needs it.

*`ChainDatabaseProofs`.* Inductive invariants, each on top of the ones before. All but
the first need `[]FirstOnGenesis`, every stored block numbered 1 is a child of genesis
(`NumbersGrow`, where it is a hypothesis, says so too). It is a condition on the blocks received, and a real one, since `verify_header` does
not check it; section 5 says what happens without it.

- `AcceptedInv` needs no condition and gives `ChainAccepted` (`HeadBranchAccepted`): on every
  tree, with blocks numbered 1 anywhere, whatever the clock does and whichever block a
  restart takes for the head, each block of the main chain passed its checks on top of
  its own parent. Its core is that the head only ever moves to a parent, to a child
  that `extend_chain` accepted on it, or to a block the number index names, and that
  those were all accepted in their place.
- `TreeInv` gives `MarksConsistent` (`ValidOnValidBranch`). Its core is that links are
  closed under `previous` (`LinkedDown`) and that no block of the main chain carries a
  refusal, so that resetting the marks of future blocks, which reaches whole subtrees,
  touches no block below the head's branch wrongly. An undo state that is missing
  stops a pop before anything here changes.
- `ChainInv` gives `ChainConsistent` (`MainChainConsistent`) under `[]UndoAvailable`: if
  a block that has to be popped has its undo state, no sequence of failed and
  successful switches, restarts or clock steps makes the indexes disagree. The
  condition is a real one: `deep_fork` shows the code does not ensure it. The number
  index can only be shown to name the head's branch with `HeadBranchOrdered` (a number
  names one block of a branch).
- `InvalidUnacceptable` gives `ReasonsKept` (`RefusedForGood`), also under
  `[]UndoAvailable`: the reason of a refusal is the one check that failed, and a branch
  that fails only because of the clock is never marked with the reason that nothing
  lifts. It needs a block at every number of the main chain (`HeadBranchDense`), because
  `save_undo_state`, which looks up the block that leaves the window, would otherwise
  fail for a block that is fine.
- `SearchInv` adds the two nested loops of `push_block`: what they still have to come
  to (`Ahead`), and that the branch the call found stays one it can return to, because
  only blocks of a candidate's own branch are marked. With it `ImplementsMainChain`
  shows that all steps of a call together are one step of `MainChain` or none. It needs
  `[]StartNotAhead` beside `[]UndoAvailable`: if the clock steps back behind the main
  chain while a call runs, the call may be unable to return to it.
- `LongestInv` gives `LongestBranchChosen` (`HeadIsLongest`) under `[]NoneAhead`, no
  stored block is ahead of the clock, and `[]NumbersGrow`, stored blocks are numbered
  above their parents. Both are needed: see section 5. `LinkInv` gives `LinksComplete`
  (`LinkedComplete`) under `[]NoneAhead`.
- `UndoInv` gives `UndoSuffices`: `UndoAvailable` holds as long as no fork is switched to
  that starts more than the window below the highest stored block (`ShallowForks`).
  `ShallowForksConsistent` combines it with the others, so that what is left to trust
  is the shape of the tree and the clock, not the state of the node.

That `open` finds a last entry of the number index, on the head's branch, comes from the well-foundedness of numbers and `IndexOnHeadBranch`.

*`BlockLedgerProofs`.* `UndoInverse`: an undo state leads back from every state in
which each key is old or new, that is from every state an interrupted
`apply_changes` can leave. On it rest `LedgerRecovered`, `ListsRecovered`,
`CommittedKept` and `ChainReverts`, under `CrashInSwitch = FALSE` and as long as no block
overtakes a repair: `InvCorrect` is `overtaken \/ LedgerInv`, and `overtaken` stays. The
inductive invariant `LedgerInv` says, for each place of the program, what is on disk, and
for an idle node whether it is the state of the head or one that the repair still to
come leads back from; its
core is `Revertible`: from `save_undo_state` to status 2 the undo state of the
open block maps the tables to those of the parent, and still does after part of
it was applied, which is why a repair may be interrupted and repeated.

*`TransactionPoolProofs`.* `UniqueCorrect` and `PoolDisjoint` from `PoolInv`, which adds
that no block of the chain is later than the latest head ever seen, needed for
`open`, which purges by the time of the head it finds. `HeldInv` gives `PendingCurrent`
and `PoolIndexed` (`PendingIsHeadPlusFees`, `NothingForgotten`): a loop over
transactions keeps each balance at the head's plus what the transactions accepted so
far moved, and accepts none twice. `OwnBlockAccepted` (`GeneratedAccepted`) runs the loop
of `generate_block` and that of `extend_chain` over the block it made side by side: at
every position the second is in the state the first was in when it took that
transaction. `OwnBlockSize` is a bound on the sizes the same loop adds up. `PoolTyped`
needs the money in the pending state to be bounded by what the ledger holds.

*`DelegatesProofs`.* `VoteSetCorrect`: `_delegate_votes`, from which the next round is
taken, is always the set of pairs that the account entries at the head give. It is
inductive as it stands, by `StoreKeepsVoteSet`: a pair that is no longer right is
found by the votes of the old entry, and those are in the set because the set
agreed with the old entries. Applying an undo state is the same operation, so pops
need no argument of their own. `DelInv` gives `IssueBacked`, `VotesAreStake`,
`EverySlotCounted` and `DelegatesTyped` (`SupplyConserved`, `VotesFollowStake`,
`SlotsCounted`, `TypeOK`): its core, `Good`, is kept by each transaction and by the pay,
and says beside the sums that slates name delegates only and that an account which is
no delegate has no votes, without which a first registration as delegate could start
from a wrong count. All of it holds of the tables below each block too, since a pop
leads there. `BestVoted` (`BestVotedSign`) takes the set apart by `VoteDel::operator<`: the
first n in that order are n different delegates and nobody behind has more votes.

*`ContractTablesProofs`.* `NamesFound`, `NamesStayUnique`, `TablesComeBack` and
`StorageComesBack` (`NameIndexed`, `NamesUnique`, `TablesRevert`, `StorageReverts`). The
inductive invariant `TablesInv` has three parts. `IndexOK`: every name in use leads to
its contract; the converse fails (`contract_names`), but a lookup that finds nothing
is still to be trusted, which is `NameIsFree`. `PendingOK`: a block names only what
the lookup did not find and touches no contract that has a name, because only
temporary contracts are upgraded or destroyed. `HistoryOK`: each undo state leads
from the tables above its block to those below it, and a name below is a name above,
so what a pop stores again is what the index has already. Storage that one pop left
behind is part of the tables the next pop starts from; `ReplaceAbove` shows that it
does no further harm. `MoneyInv` gives `MarginsLie`, `NothingStranded` and
`NothingOverdrawn` (`MarginHeld`, `NoneStranded`, no negative balance), `SupplyInv` gives
`SupplyStays`, all with ordinary deposits among the operations; both speak of the block being evaluated, of the tables and of every
state of them that a pop can lead back to.

*`NodeSyncProofs`.* `EachRequestedOnce` and `NodeTyped` (`RequestedOnce`, `TypeOK` with the
limit on the client's calls) from `NodeInv`. `RequestedOnce` is inductive beside the types
of everything under way, messages and calls included, and `ReturnsStored`: a block
handed to the client is stored when the call returns, so that
leaving it out of the requests lets nobody ask again. The plan of a round of requests
(`sync_items_to_request`, and the loop over the connections around it) is shown to
give each block to one connection. `RequestedOnce` is about the requests of
synchronisation; a block may be asked for once there and once through the inventory
(`Node.cpp:3087`-3092 expects it).

*`SumTheorems`, `FoldTheorems`.* Sums over finite sets and loops over sequences, for
the properties that add up and for the models' loops. `MapThenSumSet` and `FoldLeft`
are recursive functions on sets; that such a function exists, is unique and can be
taken apart at any element or at the last position is proved here. An induction takes
a smallest set or a first position at which the claim fails, because the induction
theorems of the library take an operator as parameter; for the same reason the step,
start and invariant of a loop are operator constants, given by
`INSTANCE FoldTheorems WITH`.

What the proofs ask of the constants, beyond what the models used before: sets of
contracts, accounts, slates, transactions, keys and peers are finite; ids of balances
are different (they are hashes of different things) and "no entry" is no number; the
values of the pool's ledger include every amount up to its total; limits are numbers;
accounts are numbers, as in the code. TLC evaluates all of them in the runs.

Only model-checked: `PushReturns`, `Recovers` and `SyncCompletes`. They are liveness
under fairness, which the prover cannot do. `HeadIsLongest` and `LinkedComplete` are
proved under the hypotheses above, `UndoAvailable` under `ShallowForks`; the runs check
them without hypotheses, on trees chosen to meet these.

## 5. Disagreements found

Each of these is a run that ends in a counterexample; `PROJECT.json` quotes the
lines.

- `deep_fork`: the test for "older than our undo history" looks at the number of
  the pushed block only; a fork that leaves the main chain below the window can
  still be switched to, and the switch ends in the assertion of `pop_block`.
- `crash_in_pop`: only extensions record a status; a crash inside `pop_block`
  leaves tables of no block and the start-up does not notice.
- `duplicate`: the purge of expired transactions is not undone by a pop, so the
  other fork may include a transaction the chain already has.
- `contract_names`: popping the block that upgraded a contract leaves the name in
  the index; the name leads to a contract that does not have it and no other
  contract can take it.
- `sync_stuck`: a block received from a peer whose connection then closes waits in
  the backlog. When another peer lists it, it is not requested (it is there) and not
  processed (a list does not start the backlog); without other traffic the node
  asks that peer for nothing more.

Smaller observations, which the properties are worded around:

- A block numbered 1 is accepted on any parent (`ChainDatabase.cpp:848`, 857). It then
  takes the place of the first block in the number index; popping it removes that
  entry, so that a restart, which takes the entry with the highest number for the head
  (1334), can find a block below the real one, one of a branch that was left, or none.
  From there `switch_to_fork` can come to pop below genesis: `pop_block` returns at
  once (1197) and the loop at 660 never ends. `future_blocks` reaches all of this; what
  it shows is that even then no block is on the main chain that was not accepted there.
- The clock may step back, so the main chain may be ahead of it although every block was
  within the tolerance when it was accepted. If that happens in the middle of a call,
  after pops, the branch the call came from can be refused for its time, and the call
  ends on a shorter chain. Nothing checks blocks again when the clock is corrected.
- The network runs before `repair_database` (`Client.cpp:1820`, 1867). A block that comes
  in between, after a crash in the middle of an extension, is evaluated on half-applied
  tables; its undo state leads back to those; and its status replaces the one of the
  interrupted block, so that `repair_database` does nothing. A block that is refused
  replaces the status as well (1132), and a pop applies an undo state to tables it was
  not made for. `repair_block` leaves the status at 1: a restart before the next block
  repairs the same block again, which is harmless.
- An ordinary deposit into the margin of a temporary contract makes the balance differ
  from the one amount that `ContractOperations.cpp:171` and 370 accept, so the contract
  can be neither upgraded nor destroyed any more and its margin stays where it is; a
  deposit before the registration does the same. Deposits into the balance of a
  destroyed contract are out of everybody's reach.
- A block that arrives before its parent, while the parent's branch is marked
  invalid for a timestamp, is not marked linked when the invalidation is cleared;
  `push_block` lists the block it was called with, not the one refused for its
  timestamp. `LinkedComplete` is checked without future blocks.
- `push_block` looks for the longest fork among the descendants of the block it was
  given (`ChainDatabase.cpp:427`) and compares numbers of a block and its parent only
  when it tries the block. If a child with too low a number arrived before its parent,
  the parent, though acceptable and longer than the head, is not switched to until
  another block arrives. Found when the proof of `HeadIsLongest` did not go through and
  then with TLC on a tree with such a child; it is the hypothesis `NumbersGrow`.
- Pending transactions are valid one after the other, not independently as the
  comment at `ChainDatabase.cpp:2196` says.
- The first write of a contract's storage, in a block after the one that
  registered it, stays after a pop (`PendingChainState.cpp:588`); `StorageReverts`
  says exactly this.
- The index by registering transaction is not in the reflected undo state
  (`PendingChainState.hpp:628`) and does not come back when a block is popped after
  a restart; `TablesRevert` says so with `fresh`.
- With fewer delegates in the vote than places in a round, some slots have no
  signee and no block can be made for them (`ChainDatabase.cpp:1562`).
- A delegate that retires in a round goes on signing and being paid until the
  round ends, and can then not withdraw (`AccountOperations.cpp:100`).
- A received sync block that was accepted before stays in
  `ids_of_items_being_processed` (`Node.cpp:3105`), and a sync request answered
  "not available" stays in the active requests (`Node.cpp:2656`).
- After an incomplete list of ids that is long enough the node turns to fetching blocks
  ("we'll switch back later to finish the job", `Node.cpp:2515`). It switches back when
  the peer itself delivers a block and is idle (3305), and the end of the list is noticed
  only if no ids are missing (2957). If other peers deliver the last blocks of the list,
  the peer is never asked for the rest, in a network where everybody answers. TLC finds
  it with small limits (`Drained`, reached in `node_sync`); with those of the code more
  than 10000 received blocks have to wait for the client at once, which nothing excludes,
  because the test that suspends fetching (3117) is not reached while all calls of the
  client are busy (3027).
- `fetch_sync_items_loop` passes over a peer that is busy with an advertised block
  and sleeps (`Node.cpp:1066`); the end of that request does not wake it, so the peer
  is asked again only when something else does.

## 6. Plan

Done: the fork database, the ledger with its repair, the transaction pool, the
delegates, the contract tables, synchronisation, and a theorem for each of their
safety properties. Next, in this order:

1. Proofs: `LongestBranchChosen` without `NoneAhead`, for blocks that were never
   refused for their time; the ledger's theorems for the write order that would make
   a pop recoverable.
2. Result transactions in `TransactionPool`: the two-state evaluation of
   `evaluate_transaction` and `clear_pending` of forwarded transactions.
3. The indexes of accounts and assets by name, symbol and address.
4. `NodeSync` handing its blocks to `ChainDatabase`, with peers on different forks.

## 7. Not modelled

- The Lua virtual machine and compiler (`glua/`): the instruction set is out of
  reach of a small model; what a run of it leaves on the chain is a choice in
  `ContractTables`.
- Wallet, RPC, CLI and generated API code: no consensus state; most of it is key
  handling, formatting and generated stubs.
- Database wrappers: a store or a remove is one durable step of the models. Power
  failures, which can lose writes the operating system has accepted, are not
  modelled.
- Vendored code (`include/`, boost, fc, leveldb and others) and word lists. They are
  by far most of the lines of the repository, so the share of all lines that the
  map covers is small whatever is modelled.
