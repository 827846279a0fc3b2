---------------------------- MODULE ContractTables ----------------------------
(***************************************************************************)
(* Contracts on the chain: ContractOperations.cpp, ContractEntry.cpp,      *)
(* StorageOperations.cpp and the contract tables of PendingChainState.cpp  *)
(* and ChainDatabase.cpp.                                                  *)
(*                                                                         *)
(* A block evaluates contract transactions in an overlay, saves the undo   *)
(* state and applies the overlay; a pop applies the undo state.  Entries,  *)
(* balances and the index by registering transaction are ordinary tables   *)
(* (PendingChainState).  Two are not: the storage of contracts shares the  *)
(* removed keys of the entries and records no removal of its own, and the  *)
(* index by name is only ever written as a side effect of storing an       *)
(* entry.  The index by registering transaction is left out when an undo   *)
(* state is written to disk, so a restart loses that part of it.           *)
(*                                                                         *)
(* One owner registers, calls, feeds, upgrades and destroys every contract *)
(* and makes ordinary deposits into its balances; a fee stands for         *)
(* transaction fee, registration fee and cost of execution.  What a        *)
(* contract's code does is a choice of a new storage and of an amount it   *)
(* pays out.                                                               *)
(***************************************************************************)
EXTENDS Integers, Sequences, FiniteSets, FiniteSetsExt, Functions

CONSTANTS
  Contract, ContractName, Storage,
  Absent,                  \* no entry
  NoName,                  \* the contract_name of a contract never upgraded
  Owner, CollectedFees,    \* the two balances that no contract has
  Margin,                  \* ALP_DEFAULT_CONTRACT_MARGIN
  Fee,                     \* what one transaction costs
  Supply,                  \* all the units there are
  MaxOps,                  \* bound: transactions in a block
  MaxBlocks                \* bound: blocks on the chain

ASSUME MarginAssumption == Margin \in Nat \ {0} /\ Fee \in Nat /\ Supply \in Nat
ASSUME FiniteAssumption == IsFiniteSet(Contract) /\ MaxOps \in Nat /\ MaxBlocks \in Nat

VARIABLES
  db,        \* the tables of ChainDatabase
  undo,      \* _block_id_to_undo_state of the blocks on the chain, in order
  pending,   \* the overlay of the block being evaluated
  ops,       \* transactions evaluated in it
  past,      \* auxiliary: the tables below each block on the chain, and whether
             \* its undo state was made since the last restart
  stranded,  \* auxiliary: what ordinary deposits put where no contract operation
             \* reaches it, as the block being evaluated has it
  stranded_at  \* auxiliary: the same below each block, and at the head
aux == <<stranded, stranded_at>>
vars == <<db, undo, pending, ops, past, aux>>

ContractEntry == [level : {"temp", "forever"}, state : {"valid", "deleted"},
                  contract_name : ContractName \union {NoName}]

ASSUME AbsentAssumption ==
  /\ Absent \notin Contract /\ Absent \notin ContractEntry /\ Absent \notin Storage
  /\ NoName \notin ContractName

margin_id(c) == <<"margin", c>>
balance_id(c) == <<"contract", c>>
BalanceId == ({"margin", "contract"} \X Contract) \union {Owner, CollectedFees}

(* A balance id is a hash of its owner and its kind; no amount means no entry *)
ASSUME BalanceAssumption ==
  /\ Absent \notin Int
  /\ Owner # CollectedFees
  /\ \A c \in Contract : {Owner, CollectedFees} \intersect {margin_id(c), balance_id(c)} = {}

E == INSTANCE PendingChainState WITH Key <- Contract, Value <- ContractEntry
M == INSTANCE PendingChainState WITH Key <- BalanceId, Value <- 0..Supply
T == INSTANCE PendingChainState WITH Key <- Contract, Value <- {"trx"}

StorageMap == [Contract -> Storage \union {Absent}]
NameMap == [ContractName -> Contract \union {Absent}]
Tables == [entry : E!Table, money : M!Table, trx : T!Table,
           storage : StorageMap, names : NameMap]
Overlay == [entry : E!Overlay, money : M!Overlay, trx : T!Overlay,
            storage : StorageMap, names : NameMap]
NoStorage == [c \in Contract |-> Absent]
NoNames == [n \in ContractName |-> Absent]
EmptyOverlay == [entry |-> E!EmptyOverlay, money |-> M!EmptyOverlay,
                 trx |-> T!EmptyOverlay, storage |-> NoStorage, names |-> NoNames]

-----------------------------------------------------------------------------
(* Lookups in the overlay of the block *)

contract_lookup_by_id(c) == E!lookup(pending.entry, db.entry, c)

(* ChainDatabase::contract_lookup_by_name *)
found_by_name(n) ==
  IF db.names[n] = Absent THEN {} ELSE {c \in {db.names[n]} : db.entry[c] # Absent}

\* mutant: the names given earlier in the same block are not seen
contract_lookup_by_name_below(n) == found_by_name(n)

(* PendingChainState::contract_lookup_by_name: the contracts found, at most one *)
contract_lookup_by_name(n) ==
  IF pending.names[n] # Absent
  THEN {c \in {pending.names[n]} : contract_lookup_by_id(c) # Absent}
  ELSE found_by_name(n) \ pending.entry.remove

balance(o, k) == LET b == M!lookup(o, db.money, k) IN IF b = Absent THEN 0 ELSE b

deposit(o, k, amount) == M!insert(o, k, balance(o, k) + amount)
withdraw(o, k, amount) == M!insert(o, k, balance(o, k) - amount)

(* BalancesWithdrawOperation pays the fee, post_evaluate collects it *)
charge(o) == deposit(withdraw(o, Owner, Fee), CollectedFees, Fee)

(* Calls and the destruction of c reach its balance *)
InReach(c) == /\ contract_lookup_by_id(c) # Absent
              /\ contract_lookup_by_id(c).state # "deleted"

-----------------------------------------------------------------------------
(* ContractEntry::store: a valid name enters the index as well *)
store_contract_entry(o, c, e) ==
  [o EXCEPT !.entry = E!insert(@, c, e),
            !.names = IF e.contract_name = NoName THEN @
                      ELSE [@ EXCEPT ![e.contract_name] = c]]

store_contractstorage_entry(o, c, s) ==
  [o EXCEPT !.storage = [@ EXCEPT ![c] = s]]

(* apply_entrys(_contract_id_to_storage, _contract_id_remove): the removed *)
(* keys are those of the contract entries *)
apply_storage(o, tables) ==
  [c \in Contract |-> IF o.storage[c] # Absent THEN o.storage[c]
                      ELSE IF c \in o.entry.remove THEN Absent
                      ELSE tables.storage[c]]

\* mutant: storing an entry leaves the index by name alone
apply_names_not(o, tables) == tables.names

(* Storing an entry stores its name; removing one removes no name *)
apply_names(o, tables) ==
  [n \in ContractName |->
     LET named == {c \in E!stored(o.entry) : o.entry.store[c].contract_name = n}
     IN IF named = {} THEN tables.names[n] ELSE CHOOSE c \in named : TRUE]

apply_changes(o, tables) ==
  [entry |-> E!apply_changes(o.entry, tables.entry),
   money |-> M!apply_changes(o.money, tables.money),
   trx |-> T!apply_changes(o.trx, tables.trx),
   storage |-> apply_storage(o, tables),
   names |-> apply_names(o, tables)]

\* mutant: what the storage held is not saved
undo_storage_none(o, tables) == NoStorage

(* populate_undo_state of the storage: where there was none, the removal of *)
(* contractstorage_erase_from_id_map leaves no trace *)
undo_storage(o, tables) ==
  [c \in Contract |-> IF o.storage[c] # Absent \/ c \in o.entry.remove
                      THEN tables.storage[c] ELSE Absent]

\* mutant: the index by registering transaction is not saved at all
get_undo_state_no_trx(o, tables) ==
  [entry |-> E!get_undo_state(o.entry, tables.entry),
   money |-> M!get_undo_state(o.money, tables.money),
   trx |-> T!EmptyOverlay,
   storage |-> undo_storage(o, tables),
   names |-> NoNames]

get_undo_state(o, tables) ==
  [entry |-> E!get_undo_state(o.entry, tables.entry),
   money |-> M!get_undo_state(o.money, tables.money),
   trx |-> T!get_undo_state(o.trx, tables.trx),
   storage |-> undo_storage(o, tables),
   names |-> NoNames]

-----------------------------------------------------------------------------
Init ==
  /\ db = [entry |-> [c \in Contract |-> Absent],
           money |-> [k \in BalanceId |-> IF k = Owner THEN Supply
                                          ELSE IF k = CollectedFees THEN 0 ELSE Absent],
           trx |-> [c \in Contract |-> Absent],
           storage |-> NoStorage, names |-> NoNames]
  /\ undo = <<>> /\ past = <<>>
  /\ pending = EmptyOverlay /\ ops = 0
  /\ stranded = [k \in BalanceId |-> 0] /\ stranded_at = <<stranded>>

(* A transaction that passes its checks; one that does not changes nothing. *)
Evaluate(o) ==
  /\ ops < MaxOps /\ Len(undo) < MaxBlocks
  /\ pending' = o /\ ops' = ops + 1
  /\ UNCHANGED <<db, undo, past, stranded_at>>

(* What the code of a contract leaves behind: StorageOperation when it writes *)
Executed(o, c, s) == IF s = Absent THEN o ELSE store_contractstorage_entry(o, c, s)

\* mutant: the margin is not taken from the owner
RegisterContract_free(c, s) ==
  /\ contract_lookup_by_id(c) = Absent
  /\ balance(pending.money, Owner) >= Margin + Fee
  /\ Evaluate(Executed(
       [store_contract_entry(pending, c, [level |-> "temp", state |-> "valid",
                                          contract_name |-> NoName])
          EXCEPT !.money = deposit(charge(@), margin_id(c), Margin),
                 !.trx = T!insert(@, c, "trx")], c, s))
  /\ stranded' = [stranded EXCEPT ![balance_id(c)] = 0]

(* RegisterContractOperation and the ContractInfoOperation, StorageOperation, *)
(* BalancesWithdrawOperation and DepositContractOperation of its result.  The *)
(* entry it stores while the code runs is removed before they are evaluated. *)
(* From now on calls and the destruction reach what was in its balance.      *)
RegisterContract(c, s) ==
  /\ contract_lookup_by_id(c) = Absent
  /\ balance(pending.money, Owner) >= Margin + Fee
  /\ Evaluate(Executed(
       [store_contract_entry(pending, c, [level |-> "temp", state |-> "valid",
                                          contract_name |-> NoName])
          EXCEPT !.money = deposit(withdraw(charge(@), Owner, Margin), margin_id(c), Margin),
                 !.trx = T!insert(@, c, "trx")], c, s))
  /\ stranded' = [stranded EXCEPT ![balance_id(c)] = 0]

(* contract_run_out_of_money and contract_error: only the cost is paid *)
ExecutionFails ==
  /\ balance(pending.money, Owner) >= Fee
  /\ Evaluate([pending EXCEPT !.money = charge(@)])
  /\ UNCHANGED stranded

(* CallContractOperation; WithdrawContractOperation and DepositOperation when *)
(* the code pays from the contract.  post_evaluate refuses a balance below 0. *)
CallContract(c, s, amount) ==
  /\ contract_lookup_by_id(c) # Absent
  /\ contract_lookup_by_id(c).state # "deleted"
  /\ balance(pending.money, Owner) >= Fee
  /\ amount <= balance(pending.money, balance_id(c))
  /\ Evaluate(Executed(
       [pending EXCEPT !.money = IF amount = 0 THEN charge(@) ELSE
          deposit(withdraw(charge(@), balance_id(c), amount), Owner, amount)], c, s))
  /\ UNCHANGED stranded

\* mutant: a destroyed contract can still be fed
TransferContract_deleted(c, amount) ==
  /\ contract_lookup_by_id(c) # Absent
  /\ balance(pending.money, Owner) >= Fee + amount
  /\ Evaluate([pending EXCEPT !.money =
       deposit(withdraw(charge(@), Owner, amount), balance_id(c), amount)])
  /\ UNCHANGED stranded

\* mutant: what the owner has is not compared with what is asked for
TransferContract_unfunded(c, amount) ==
  /\ contract_lookup_by_id(c) # Absent
  /\ contract_lookup_by_id(c).state # "deleted"
  /\ Evaluate([pending EXCEPT !.money =
       deposit(withdraw(charge(@), Owner, amount), balance_id(c), amount)])
  /\ UNCHANGED stranded

(* TransferContractOperation *)
TransferContract(c, amount) ==
  /\ contract_lookup_by_id(c) # Absent
  /\ contract_lookup_by_id(c).state # "deleted"
  /\ balance(pending.money, Owner) >= Fee + amount
  /\ Evaluate([pending EXCEPT !.money =
       deposit(withdraw(charge(@), Owner, amount), balance_id(c), amount)])
  /\ UNCHANGED stranded

(* The balances an ordinary deposit may name, besides those of owners *)
contract_balances(c) == {margin_id(c), balance_id(c)}

(* DepositOperation of an ordinary transaction: it looks at the type of the *)
(* condition, not at the type of the balance nor for a contract, so it pays *)
(* into the margin and the balance of any contract, there or not.           *)
Deposit(c, k, amount) ==
  /\ k \in contract_balances(c)
  /\ balance(pending.money, Owner) >= Fee + amount
  /\ Evaluate([pending EXCEPT !.money =
       deposit(withdraw(charge(@), Owner, amount), k, amount)])
  /\ stranded' = IF k = balance_id(c) /\ InReach(c) THEN stranded
                 ELSE [stranded EXCEPT ![k] = @ + amount]

(* What upgrading and destroying both ask for *)
TemporaryWithMargin(c) ==
  /\ contract_lookup_by_id(c) # Absent
  /\ contract_lookup_by_id(c).level = "temp"
  /\ contract_lookup_by_id(c).state # "deleted"
  /\ balance(pending.money, margin_id(c)) = Margin
  /\ balance(pending.money, Owner) >= Fee

\* mutant: the margin stays with the upgraded contract
UpgradeContract_keeps_margin(c, n) ==
  /\ TemporaryWithMargin(c)
  /\ contract_lookup_by_name(n) = {}
  /\ Evaluate([store_contract_entry(pending, c,
                 [contract_lookup_by_id(c) EXCEPT !.level = "forever", !.contract_name = n])
                 EXCEPT !.money = charge(@)])
  /\ UNCHANGED stranded

(* UpgradeContractOperation, OnUpgradeOperation: the margin becomes a fee *)
UpgradeContract(c, n) ==
  /\ TemporaryWithMargin(c)
  /\ contract_lookup_by_name(n) = {}
  /\ Evaluate([store_contract_entry(pending, c,
                 [contract_lookup_by_id(c) EXCEPT !.level = "forever", !.contract_name = n])
                 EXCEPT !.money = deposit(withdraw(charge(@), margin_id(c), Margin),
                                          CollectedFees, Margin)])
  /\ UNCHANGED stranded

(* OnDestroyOperation, once the margin is back: what the contract has left goes *)
(* to the owner; a contract without a balance entry gets none *)
destroy_balance(o, c) ==
  IF M!lookup(o, db.money, balance_id(c)) = Absent THEN o
  ELSE M!insert(deposit(o, Owner, balance(o, balance_id(c))), balance_id(c), 0)

(* DestroyContractOperation; what its code pays out first reaches the one owner *)
DestroyContract(c) ==
  /\ TemporaryWithMargin(c)
  /\ Evaluate([store_contract_entry(pending, c,
                 [contract_lookup_by_id(c) EXCEPT !.state = "deleted"])
                 EXCEPT !.money = destroy_balance(
                    deposit(withdraw(charge(@), margin_id(c), Margin), Owner, Margin), c)])
  /\ UNCHANGED stranded

-----------------------------------------------------------------------------
(* extend_chain: the undo state is saved, then the overlay applied *)
ApplyBlock ==
  /\ ops > 0
  /\ undo' = Append(undo, get_undo_state(pending, db))
  /\ past' = Append(past, [tables |-> db, fresh |-> TRUE])
  /\ db' = apply_changes(pending, db)
  /\ pending' = EmptyOverlay /\ ops' = 0
  /\ stranded_at' = Append(stranded_at, stranded)
  /\ UNCHANGED stranded

(* extend_chain throws: the overlay is dropped *)
RejectBlock ==
  /\ ops > 0
  /\ pending' = EmptyOverlay /\ ops' = 0
  /\ stranded' = stranded_at[Len(stranded_at)]
  /\ UNCHANGED <<db, undo, past, stranded_at>>

(* pop_block *)
PopBlock ==
  /\ ops = 0 /\ undo # <<>>
  /\ db' = apply_changes(undo[Len(undo)], db)
  /\ undo' = SubSeq(undo, 1, Len(undo) - 1)
  /\ past' = SubSeq(past, 1, Len(past) - 1)
  /\ stranded_at' = SubSeq(stranded_at, 1, Len(stranded_at) - 1)
  /\ stranded' = stranded_at[Len(stranded_at) - 1]
  /\ UNCHANGED <<pending, ops>>

(* What is left of an undo state when FC_REFLECT has written it and *)
(* fast_level_map::open has read it back *)
reloaded(o) == [o EXCEPT !.trx = T!EmptyOverlay]

(* close and open: the undo states come back from disk *)
Restart ==
  /\ undo' = [i \in DOMAIN undo |-> reloaded(undo[i])]
  /\ past' = [i \in DOMAIN past |-> [past[i] EXCEPT !.fresh = FALSE]]
  /\ pending' = EmptyOverlay /\ ops' = 0
  /\ stranded' = stranded_at[Len(stranded_at)]
  /\ UNCHANGED <<db, stranded_at>>

Next ==
  \/ \E c \in Contract :
       \/ \E s \in Storage \union {Absent} : RegisterContract(c, s)
       \/ \E s \in Storage \union {Absent}, amount \in 0..Supply : CallContract(c, s, amount)
       \/ \E amount \in 1..Supply : TransferContract(c, amount)
       \/ \E k \in contract_balances(c), amount \in 1..Supply : Deposit(c, k, amount)
       \/ \E n \in ContractName : UpgradeContract(c, n)
       \/ DestroyContract(c)
  \/ ExecutionFails \/ ApplyBlock \/ RejectBlock \/ PopBlock \/ Restart

Spec == Init /\ [][Next]_vars

-----------------------------------------------------------------------------
(* The variables have their types: the overlays keep stored and removed keys *)
(* apart, and no balance leaves the range of the supply (the code asserts it *)
(* for withdrawals only). *)
TypeOK ==
  /\ db \in Tables
  /\ pending \in Overlay
  /\ ops \in 0..MaxOps
  /\ Len(undo) <= MaxBlocks /\ Len(past) = Len(undo)
  /\ \A i \in DOMAIN undo : undo[i] \in Overlay

(* No two contracts have the same name, whatever was upgraded in one block, *)
(* in different blocks or on a branch that was left (UpgradeContractOperation *)
(* refuses a name only when the lookup finds it). *)
NamesUnique ==
  \A c, d \in Contract :
    /\ db.entry[c] # Absent /\ db.entry[d] # Absent
    /\ db.entry[c].contract_name = db.entry[d].contract_name
    /\ db.entry[c].contract_name # NoName
    => c = d

(* Every contract with a name is found by it, after every pop as well: the *)
(* index is written by ContractEntry::store and never repaired. *)
NameIndexed ==
  \A c \in Contract :
    db.entry[c] # Absent /\ db.entry[c].contract_name # NoName
    => found_by_name(db.entry[c].contract_name) = {c}

(* No contract operation creates or loses units, in a block or across a fork: *)
(* margins, contract balances, the owner's and the fees add up to the supply. *)
SupplyConserved ==
  MapThenSumSet(LAMBDA k : balance(pending.money, k), BalanceId) = Supply

(* The margin lies with exactly the contracts that can still be upgraded or *)
(* destroyed: it is paid in once and leaves once, as a fee or back to the    *)
(* owner.  What ordinary deposits put beside it never leaves again.          *)
MarginHeld ==
  \A c \in Contract :
    balance(pending.money, margin_id(c)) =
      stranded[margin_id(c)] +
      IF InReach(c) /\ contract_lookup_by_id(c).level = "temp" THEN Margin ELSE 0

(* In a contract that is destroyed, or that the chain does not have, lie     *)
(* only units that ordinary deposits put there since: no contract operation  *)
(* leaves units behind or sends them where they are out of reach.            *)
NoneStranded ==
  \A c \in Contract :
    ~InReach(c) => balance(pending.money, balance_id(c)) = stranded[balance_id(c)]

Popped == Len(undo') < Len(undo)
Below == past[Len(past)].tables

(* Popping a block brings back entries and balances as they were below it, and *)
(* the index by registering transaction too, as long as the node has not been *)
(* restarted in between. *)
TablesRevert ==
  [][Popped => /\ db'.entry = Below.entry
               /\ db'.money = Below.money
               /\ past[Len(past)].fresh => db'.trx = Below.trx]_vars

(* Popping a block brings back the storage of every contract, but for one that *)
(* was there before the block and had no storage yet: what the block wrote *)
(* first stays (contractstorage_erase_from_id_map records no removal). *)
StorageReverts ==
  [][Popped => \A c \in Contract :
       \/ db'.storage[c] = Below.storage[c]
       \/ /\ Below.storage[c] = Absent /\ Below.entry[c] # Absent
          /\ db'.storage[c] = db.storage[c]]_vars

(* What the comment on get_undo_state promises of the names: after a pop a name *)
(* finds a contract only if that contract has it. *)
NamesRevert ==
  \A n \in ContractName : \A c \in found_by_name(n) : db.entry[c].contract_name = n

=============================================================================
