------------------------ MODULE ContractTablesProofs -------------------------
(***************************************************************************)
(* Proofs about ContractTables, for any contracts, names, storages and     *)
(* amounts: what popping a block brings back, that a name has one contract *)
(* although the index by name is never undone, where the margin of a       *)
(* contract lies, that a contract that is gone holds only what ordinary    *)
(* deposits put there, that no balance is overdrawn and that the supply is *)
(* what all of them add up to.                                             *)
(*                                                                         *)
(* The properties of the balances speak of what the block being evaluated  *)
(* sees.  They are inductive once the same is known of the tables and of   *)
(* every state of the tables a pop can lead back to.                       *)
(***************************************************************************)
EXTENDS ContractTables, SumTheorems, TLAPS

-----------------------------------------------------------------------------
(* The shapes of the variables.  Blocks erase nothing, so the overlay of a *)
(* block removes no key; an undo state does.                               *)

MoneyTable == [BalanceId -> Int \union {Absent}]
TableType == [entry : E!Table, money : MoneyTable, trx : T!Table,
              storage : StorageMap, names : NameMap]
PendingType == [entry : [store : E!Table, remove : {{}}],
                money : [store : MoneyTable, remove : {{}}],
                trx : [store : T!Table, remove : {{}}],
                storage : StorageMap, names : NameMap]
UndoType == [entry : [store : E!Table, remove : SUBSET Contract],
             money : [store : MoneyTable, remove : SUBSET BalanceId],
             trx : [store : T!Table, remove : SUBSET Contract],
             storage : StorageMap, names : NameMap]
PastType == [tables : TableType, fresh : BOOLEAN]

ShapeInv ==
  /\ db \in TableType
  /\ pending \in PendingType
  /\ ops \in Nat
  /\ undo \in Seq(UndoType)
  /\ past \in Seq(PastType)
  /\ Len(past) = Len(undo)

-----------------------------------------------------------------------------
(* The inductive invariant                                                 *)

Named(entry, c, n) == entry[c] # Absent /\ entry[c].contract_name = n

(* A contract has a name only once it is upgraded for good. *)
NamedForever(entry) ==
  \A c \in Contract :
    entry[c] # Absent /\ entry[c].contract_name # NoName => entry[c].level = "forever"

TableOK(t) ==
  /\ NamedForever(t.entry)
  /\ \A c \in Contract : t.entry[c] = Absent => t.storage[c] = Absent

(* Every name in use leads to its contract. *)
IndexOK(t) ==
  \A c \in Contract, n \in ContractName : Named(t.entry, c, n) => t.names[n] = c

(* The block being evaluated: its names are those of the entries it stores, *)
(* it gives no name that a contract below has and changes no contract that  *)
(* has one.                                                                 *)
PendingOK ==
  /\ ops = 0 => pending = EmptyOverlay
  /\ NamedForever(pending.entry.store)
  /\ \A c \in Contract, n \in ContractName :
       /\ pending.names[n] = c <=> Named(pending.entry.store, c, n)
       /\ Named(pending.entry.store, c, n) => \A d \in Contract : ~Named(db.entry, d, n)
       /\ Named(db.entry, c, n) => pending.entry.store[c] = Absent
  /\ \A c \in Contract : pending.storage[c] # Absent => contract_lookup_by_id(c) # Absent

(* The undo state u leads from the tables a to t, up to a first storage;   *)
(* every name of t is one of a.                                            *)
Reverts(u, a, t, fresh) ==
  /\ E!apply_changes(u.entry, a.entry) = t.entry
  /\ M!apply_changes(u.money, a.money) = t.money
  /\ fresh => T!apply_changes(u.trx, a.trx) = t.trx
  /\ \A c \in Contract, n \in ContractName : Named(t.entry, c, n) => Named(a.entry, c, n)
  /\ \A c \in Contract :
       \/ apply_storage(u, a)[c] = t.storage[c]
       \/ /\ t.storage[c] = Absent /\ t.entry[c] # Absent
          /\ apply_storage(u, a)[c] = a.storage[c]

(* The tables that block i of the chain left *)
Above(i) == IF i = Len(past) THEN db ELSE past[i + 1].tables

HistoryOK ==
  \A i \in 1..Len(past) :
    /\ TableOK(past[i].tables)
    /\ Reverts(undo[i], Above(i), past[i].tables, past[i].fresh)
    /\ i < Len(past) /\ past[i].fresh => past[i + 1].fresh

TablesInv == ShapeInv /\ TableOK(db) /\ IndexOK(db) /\ PendingOK /\ HistoryOK

-----------------------------------------------------------------------------
(* Undo states of the ordinary tables                                      *)

(* An undo state leads back from what its overlay led to (get_undo_state). *)
LEMMA EntryReverts ==
  ASSUME NEW o, o.remove = {}, NEW t, t = [c \in Contract |-> t[c]]
  PROVE  E!apply_changes(E!get_undo_state(o, t), E!apply_changes(o, t)) = t
<1> DEFINE u == E!get_undo_state(o, t)
<1>1. E!touched(o) = E!stored(o)
  BY DEF E!touched
<1>2. u.store = [c \in Contract |-> IF c \in E!stored(o) THEN t[c] ELSE Absent]
      /\ u.remove = {c \in E!stored(o) : t[c] = Absent}
  BY <1>1 DEF E!get_undo_state
<1>3. E!touched(u) = E!stored(o)
  BY <1>2 DEF E!touched, E!stored
<1>4. E!apply_changes(u, E!apply_changes(o, t)) = [c \in Contract |-> t[c]]
  BY <1>1, <1>2, <1>3 DEF E!apply_changes
<1>5. QED BY <1>4

(* The same of balances. *)
LEMMA MoneyReverts ==
  ASSUME NEW o, o.remove = {}, NEW t, t = [k \in BalanceId |-> t[k]]
  PROVE  M!apply_changes(M!get_undo_state(o, t), M!apply_changes(o, t)) = t
<1> DEFINE u == M!get_undo_state(o, t)
<1>1. M!touched(o) = M!stored(o)
  BY DEF M!touched
<1>2. u.store = [k \in BalanceId |-> IF k \in M!stored(o) THEN t[k] ELSE Absent]
      /\ u.remove = {k \in M!stored(o) : t[k] = Absent}
  BY <1>1 DEF M!get_undo_state
<1>3. M!touched(u) = M!stored(o)
  BY <1>2 DEF M!touched, M!stored
<1>4. M!apply_changes(u, M!apply_changes(o, t)) = [k \in BalanceId |-> t[k]]
  BY <1>1, <1>2, <1>3 DEF M!apply_changes
<1>5. QED BY <1>4

(* The same of the index by registering transaction. *)
LEMMA TrxReverts ==
  ASSUME NEW o, o.remove = {}, NEW t, t = [c \in Contract |-> t[c]]
  PROVE  T!apply_changes(T!get_undo_state(o, t), T!apply_changes(o, t)) = t
<1> DEFINE u == T!get_undo_state(o, t)
<1>1. T!touched(o) = T!stored(o)
  BY DEF T!touched
<1>2. u.store = [c \in Contract |-> IF c \in T!stored(o) THEN t[c] ELSE Absent]
      /\ u.remove = {c \in T!stored(o) : t[c] = Absent}
  BY <1>1 DEF T!get_undo_state
<1>3. T!touched(u) = T!stored(o)
  BY <1>2 DEF T!touched, T!stored
<1>4. T!apply_changes(u, T!apply_changes(o, t)) = [c \in Contract |-> t[c]]
  BY <1>1, <1>2, <1>3 DEF T!apply_changes
<1>5. QED BY <1>4

(* Applying an overlay or an undo state keeps the shape of the tables. *)
LEMMA ApplyShape ==
  ASSUME NEW o \in UndoType, NEW t \in TableType
  PROVE  apply_changes(o, t) \in TableType
<1>1. E!apply_changes(o.entry, t.entry) \in E!Table
  BY DEF E!apply_changes, E!Table, UndoType, TableType
<1>2. M!apply_changes(o.money, t.money) \in MoneyTable
  BY DEF M!apply_changes, MoneyTable, UndoType, TableType
<1>3. T!apply_changes(o.trx, t.trx) \in T!Table
  BY DEF T!apply_changes, T!Table, UndoType, TableType
<1>4. apply_storage(o, t) \in StorageMap
  BY DEF apply_storage, StorageMap, UndoType, TableType
<1>5. apply_names(o, t) \in NameMap
  BY DEF apply_names, NameMap, E!stored, UndoType, TableType
<1>6. QED BY <1>1, <1>2, <1>3, <1>4, <1>5 DEF apply_changes, TableType

LEMMA PendingIsUndoShaped == PendingType \subseteq UndoType
  BY DEF PendingType, UndoType

LEMMA UndoShape ==
  ASSUME NEW o \in PendingType, NEW t \in TableType
  PROVE  get_undo_state(o, t) \in UndoType
<1>1. E!get_undo_state(o.entry, t.entry) \in [store : E!Table, remove : SUBSET Contract]
  BY DEF E!get_undo_state, E!Table, E!stored, PendingType, TableType
<1>2. M!get_undo_state(o.money, t.money) \in [store : MoneyTable, remove : SUBSET BalanceId]
  BY DEF M!get_undo_state, MoneyTable, M!stored, PendingType, TableType
<1>3. T!get_undo_state(o.trx, t.trx) \in [store : T!Table, remove : SUBSET Contract]
  BY DEF T!get_undo_state, T!Table, T!stored, PendingType, TableType
<1>4. undo_storage(o, t) \in StorageMap
  BY DEF undo_storage, StorageMap, PendingType, TableType
<1>5. NoNames \in NameMap
  BY DEF NoNames, NameMap
<1>6. QED BY <1>1, <1>2, <1>3, <1>4, <1>5 DEF get_undo_state, UndoType

LEMMA EmptyShape == EmptyOverlay \in PendingType
<1>1. E!EmptyOverlay \in [store : E!Table, remove : {{}}]
  BY DEF E!EmptyOverlay, E!Table
<1>2. M!EmptyOverlay \in [store : MoneyTable, remove : {{}}]
  BY DEF M!EmptyOverlay, MoneyTable
<1>3. T!EmptyOverlay \in [store : T!Table, remove : {{}}]
  BY DEF T!EmptyOverlay, T!Table
<1>4. NoStorage \in StorageMap /\ NoNames \in NameMap
  BY DEF NoStorage, StorageMap, NoNames, NameMap
<1>5. QED BY <1>1, <1>2, <1>3, <1>4 DEF EmptyOverlay, PendingType

-----------------------------------------------------------------------------
(* Steps that evaluate a transaction                                       *)

MoneyOverlay == [store : MoneyTable, remove : {{}}]

(* Balances stay integers and no key is removed, whatever is moved. *)
LEMMA BalanceInt ==
  ASSUME ShapeInv, NEW o \in MoneyOverlay, NEW k \in BalanceId
  PROVE  balance(o, k) \in Int
  BY DEF balance, M!lookup, MoneyOverlay, MoneyTable, ShapeInv, TableType

LEMMA InsertMoney ==
  ASSUME NEW o \in MoneyOverlay, NEW k \in BalanceId, NEW v \in Int
  PROVE  M!insert(o, k, v) \in MoneyOverlay
  BY DEF M!insert, MoneyOverlay, MoneyTable

LEMMA MoveMoney ==
  ASSUME ShapeInv, NEW o \in MoneyOverlay, NEW k \in BalanceId, NEW amount \in Int
  PROVE  deposit(o, k, amount) \in MoneyOverlay /\ withdraw(o, k, amount) \in MoneyOverlay
<1>1. balance(o, k) \in Int
  BY BalanceInt
<1>2. QED BY <1>1, InsertMoney DEF deposit, withdraw

LEMMA BalanceIds ==
  /\ Owner \in BalanceId /\ CollectedFees \in BalanceId
  /\ \A c \in Contract : margin_id(c) \in BalanceId /\ balance_id(c) \in BalanceId
  BY DEF BalanceId, margin_id, balance_id

LEMMA ChargeMoney ==
  ASSUME ShapeInv, NEW o \in MoneyOverlay
  PROVE  charge(o) \in MoneyOverlay
  BY MoveMoney, BalanceIds, MarginAssumption DEF charge

(* What a transaction leaves keeps the invariant when it names no contract *)
(* that could be found by the name, touches no named one and writes the    *)
(* storage of contracts the block has only.                                *)
StorageAllowed(o) ==
  \A c \in Contract : o.storage[c] # Absent =>
    \/ o.entry.store[c] # Absent
    \/ pending.storage[c] # Absent
    \/ contract_lookup_by_id(c) # Absent

LEMMA LookupPending ==
  ASSUME ShapeInv, NEW c \in Contract
  PROVE  contract_lookup_by_id(c) =
           IF pending.entry.store[c] # Absent THEN pending.entry.store[c] ELSE db.entry[c]
  BY DEF contract_lookup_by_id, E!lookup, ShapeInv, PendingType

(* A transaction that stores no entry *)
LEMMA KeepEntries ==
  ASSUME TablesInv, NEW o \in PendingType, Evaluate(o),
         o.entry = pending.entry, o.names = pending.names, StorageAllowed(o)
  PROVE  TablesInv'
<1>1. pending' = o /\ ops' = ops + 1 /\ UNCHANGED <<db, undo, past>>
  BY DEF Evaluate
<1>2. ShapeInv'
  BY <1>1 DEF TablesInv, ShapeInv
<1>3. TableOK(db)' /\ IndexOK(db)'
  BY <1>1 DEF TablesInv, TableOK, NamedForever, IndexOK, Named
<1>4. HistoryOK'
  BY <1>1 DEF TablesInv, HistoryOK, Above
<1>5. ops' # 0
  BY <1>1 DEF TablesInv, ShapeInv
<1>6. \A c \in Contract : contract_lookup_by_id(c)' = contract_lookup_by_id(c)
  BY <1>1, <1>2, LookupPending DEF TablesInv, contract_lookup_by_id
<1>7. ASSUME NEW c \in Contract, pending'.storage[c] # Absent
      PROVE  contract_lookup_by_id(c)' # Absent
  BY <1>1, <1>6, <1>7, LookupPending DEF StorageAllowed, TablesInv, PendingOK
<1>8. PendingOK'
  BY <1>1, <1>5, <1>7 DEF TablesInv, PendingOK, NamedForever, Named
<1>9. QED BY <1>2, <1>3, <1>4, <1>8 DEF TablesInv

(* A name that the lookup of a block does not find is given to no contract, *)
(* in the block or below: the index holds every name in use.                *)
LEMMA NameIsFree ==
  ASSUME TablesInv, NEW n \in ContractName, contract_lookup_by_name(n) = {}
  PROVE  /\ \A c \in Contract : ~Named(pending.entry.store, c, n)
         /\ \A c \in Contract : ~Named(db.entry, c, n)
<1>1. ASSUME pending.names[n] # Absent PROVE FALSE
  <2>1. pending.names[n] \in Contract
    BY <1>1 DEF TablesInv, ShapeInv, PendingType, NameMap
  <2>2. pending.entry.store[pending.names[n]] # Absent
    BY <2>1 DEF TablesInv, PendingOK, Named
  <2>3. contract_lookup_by_id(pending.names[n]) # Absent
    BY <2>1, <2>2, LookupPending DEF TablesInv
  <2>4. QED BY <1>1, <2>3 DEF contract_lookup_by_name
<1>2. \A c \in Contract : ~Named(pending.entry.store, c, n)
  BY <1>1, AbsentAssumption DEF TablesInv, PendingOK
<1>3. pending.entry.remove = {}
  BY DEF TablesInv, ShapeInv, PendingType
<1>4. found_by_name(n) = {}
  BY <1>1, <1>3 DEF contract_lookup_by_name
<1>5. ASSUME NEW c \in Contract, Named(db.entry, c, n) PROVE FALSE
  <2>1. db.names[n] = c /\ c # Absent
    BY <1>5, AbsentAssumption DEF TablesInv, IndexOK
  <2>2. c \in found_by_name(n)
    BY <1>5, <2>1 DEF found_by_name, Named
  <2>3. QED BY <1>4, <2>2
<1>6. QED BY <1>2, <1>5

(* A transaction that stores the entry of a contract not upgraded so far, *)
(* and gives it a name only if the lookup does not find that.             *)
LEMMA StoreEntry ==
  ASSUME TablesInv, NEW o \in PendingType, Evaluate(o),
         NEW c \in Contract, NEW e \in ContractEntry,
         o.entry = store_contract_entry(pending, c, e).entry,
         o.names = store_contract_entry(pending, c, e).names,
         contract_lookup_by_id(c) = Absent \/ contract_lookup_by_id(c).level = "temp",
         \/ e.contract_name = NoName
         \/ e.level = "forever" /\ contract_lookup_by_name(e.contract_name) = {},
         StorageAllowed(o)
  PROVE  TablesInv'
<1>1. pending' = o /\ ops' = ops + 1 /\ UNCHANGED <<db, undo, past>>
  BY DEF Evaluate
<1>2. ShapeInv'
  BY <1>1 DEF TablesInv, ShapeInv
<1>3. TableOK(db)' /\ IndexOK(db)'
  BY <1>1 DEF TablesInv, TableOK, NamedForever, IndexOK, Named
<1>4. HistoryOK'
  BY <1>1 DEF TablesInv, HistoryOK, Above
<1>5. ops' # 0
  BY <1>1 DEF TablesInv, ShapeInv
<1>6. /\ pending \in PendingType /\ pending.entry.store \in E!Table
      /\ pending.names \in NameMap /\ e # Absent
  BY AbsentAssumption DEF TablesInv, ShapeInv, PendingType
<1>7. /\ o.entry.store = [pending.entry.store EXCEPT ![c] = e]
      /\ o.names = IF e.contract_name = NoName THEN pending.names
                   ELSE [pending.names EXCEPT ![e.contract_name] = c]
  BY <1>6 DEF store_contract_entry, E!insert, PendingType
<1>8. /\ o.entry.store[c] = e
      /\ \A d \in Contract \ {c} : o.entry.store[d] = pending.entry.store[d]
  BY <1>6, <1>7 DEF E!Table
<1>9. \A n \in ContractName : ~Named(pending.entry.store, c, n) /\ ~Named(db.entry, c, n)
  <2>1. SUFFICES ASSUME NEW n \in ContractName,
                        Named(pending.entry.store, c, n) \/ Named(db.entry, c, n)
                 PROVE  FALSE
    OBVIOUS
  <2>2. n # NoName
    BY AbsentAssumption
  <2>3. CASE Named(pending.entry.store, c, n)
    BY <2>2, <2>3, LookupPending DEF TablesInv, PendingOK, NamedForever, Named
  <2>4. CASE Named(db.entry, c, n)
    BY <2>2, <2>4, LookupPending DEF TablesInv, PendingOK, TableOK, NamedForever, Named
  <2>5. QED BY <2>1, <2>3, <2>4
<1>10. NamedForever(o.entry.store)
  <2>1. \A d \in Contract \ {c} : pending.entry.store[d] # Absent
            /\ pending.entry.store[d].contract_name # NoName
          => pending.entry.store[d].level = "forever"
    BY DEF TablesInv, PendingOK, NamedForever
  <2>2. QED BY <1>8, <2>1 DEF NamedForever
<1>11. ASSUME NEW d \in Contract, NEW n \in ContractName
       PROVE  /\ o.names[n] = d <=> Named(o.entry.store, d, n)
              /\ Named(o.entry.store, d, n) => \A f \in Contract : ~Named(db.entry, f, n)
              /\ Named(db.entry, d, n) => o.entry.store[d] = Absent
  <2>1. /\ pending.names[n] = d <=> Named(pending.entry.store, d, n)
        /\ Named(pending.entry.store, d, n) => \A f \in Contract : ~Named(db.entry, f, n)
        /\ Named(db.entry, d, n) => pending.entry.store[d] = Absent
    BY <1>11 DEF TablesInv, PendingOK
  <2>2. n # NoName
    BY AbsentAssumption
  <2>3. Named(o.entry.store, c, n) <=> e.contract_name = n
    BY <1>6, <1>8 DEF Named
  <2>4. d # c => (Named(o.entry.store, d, n) <=> Named(pending.entry.store, d, n))
    BY <1>8 DEF Named
  <2>5. CASE e.contract_name = n
    <3>1. /\ \A f \in Contract : ~Named(pending.entry.store, f, n)
          /\ \A f \in Contract : ~Named(db.entry, f, n)
      BY <2>2, <2>5, NameIsFree
    <3>2. o.names[n] = c
      BY <1>6, <1>7, <2>2, <2>5 DEF NameMap
    <3>3. QED BY <2>3, <2>4, <2>5, <3>1, <3>2
  <2>6. CASE e.contract_name # n
    <3>1. o.names[n] = pending.names[n]
      BY <1>6, <1>7, <2>6 DEF NameMap
    <3>2. d # c => o.entry.store[d] = pending.entry.store[d]
      BY <1>8
    <3>3. QED BY <1>9, <2>1, <2>3, <2>4, <2>6, <3>1, <3>2
  <2>7. QED BY <2>5, <2>6
<1>12. ASSUME NEW d \in Contract, pending'.storage[d] # Absent
       PROVE  contract_lookup_by_id(d)' # Absent
  <2>1. contract_lookup_by_id(d)' =
          IF o.entry.store[d] # Absent THEN o.entry.store[d] ELSE db.entry[d]
    BY <1>1, <1>2, LookupPending
       DEF contract_lookup_by_id, E!lookup, ShapeInv, PendingType
  <2>2. \/ o.entry.store[d] # Absent
        \/ contract_lookup_by_id(d) # Absent
    BY <1>1, <1>12 DEF StorageAllowed, TablesInv, PendingOK
  <2>3. QED BY <1>6, <1>8, <2>1, <2>2, LookupPending DEF TablesInv
<1>13. PendingOK'
  BY <1>1, <1>5, <1>10, <1>11, <1>12 DEF PendingOK, NamedForever, Named
<1>14. QED BY <1>2, <1>3, <1>4, <1>13 DEF TablesInv

LEMMA StoreShape ==
  ASSUME NEW o \in PendingType, NEW c \in Contract, NEW e \in ContractEntry
  PROVE  /\ store_contract_entry(o, c, e) \in PendingType
         /\ store_contract_entry(o, c, e).money = o.money
         /\ store_contract_entry(o, c, e).trx = o.trx
         /\ store_contract_entry(o, c, e).storage = o.storage
         /\ store_contract_entry(o, c, e).entry.store[c] = e
<1>1. E!insert(o.entry, c, e) \in [store : E!Table, remove : {{}}]
      /\ E!insert(o.entry, c, e).store[c] = e
  BY DEF E!insert, E!Table, PendingType
<1>2. e.contract_name # NoName => e.contract_name \in ContractName
  BY DEF ContractEntry
<1>3. (IF e.contract_name = NoName THEN o.names
       ELSE [o.names EXCEPT ![e.contract_name] = c]) \in NameMap
  BY <1>2 DEF PendingType, NameMap
<1>4. QED BY <1>1, <1>3 DEF store_contract_entry, PendingType

LEMMA ExecutedShape ==
  ASSUME NEW o \in PendingType, NEW c \in Contract, NEW s \in Storage \union {Absent}
  PROVE  /\ Executed(o, c, s) \in PendingType
         /\ Executed(o, c, s).entry = o.entry
         /\ Executed(o, c, s).names = o.names
         /\ \A d \in Contract \ {c} : Executed(o, c, s).storage[d] = o.storage[d]
<1>1. CASE s = Absent
  BY <1>1 DEF Executed
<1>2. CASE s # Absent
  <2>1. s \in Storage
    BY <1>2
  <2>2. [o.storage EXCEPT ![c] = s] \in StorageMap
    BY <2>1 DEF PendingType, StorageMap
  <2>3. \A d \in Contract \ {c} : [o.storage EXCEPT ![c] = s][d] = o.storage[d]
    BY DEF PendingType, StorageMap
  <2>4. QED BY <1>2, <2>2, <2>3 DEF Executed, store_contractstorage_entry, PendingType
<1>3. QED BY <1>1, <1>2

LEMMA RegisterStep ==
  ASSUME TablesInv, NEW c \in Contract, NEW s \in Storage \union {Absent},
         RegisterContract(c, s)
  PROVE  TablesInv'
<1> DEFINE e == [level |-> "temp", state |-> "valid", contract_name |-> NoName]
           m == deposit(withdraw(charge(pending.money), Owner, Margin), margin_id(c), Margin)
           o == [store_contract_entry(pending, c, e)
                   EXCEPT !.money = m, !.trx = T!insert(pending.trx, c, "trx")]
<1>1. e \in ContractEntry
  BY DEF ContractEntry
<1>2. pending \in PendingType /\ pending.money \in MoneyOverlay
  BY DEF TablesInv, ShapeInv, PendingType, MoneyOverlay
<1>3. m \in MoneyOverlay
  <2>1. ShapeInv /\ Margin \in Int
    BY MarginAssumption DEF TablesInv
  <2>2. QED BY <1>2, <2>1, ChargeMoney, MoveMoney, BalanceIds
<1>4. T!insert(pending.trx, c, "trx") \in [store : T!Table, remove : {{}}]
  BY <1>2 DEF T!insert, T!Table, PendingType
<1>5. store_contract_entry(pending, c, e) \in PendingType
  BY <1>1, <1>2, StoreShape
<1>6. /\ o \in PendingType
      /\ o.entry = store_contract_entry(pending, c, e).entry
      /\ o.names = store_contract_entry(pending, c, e).names
      /\ o.storage = store_contract_entry(pending, c, e).storage
  BY <1>3, <1>4, <1>5 DEF PendingType, MoneyOverlay
<1>7. contract_lookup_by_id(c) = Absent /\ Evaluate(Executed(o, c, s))
  BY <1>1, <1>2, StoreShape DEF RegisterContract
<1>8. /\ Executed(o, c, s) \in PendingType
      /\ Executed(o, c, s).entry = o.entry
      /\ Executed(o, c, s).names = o.names
      /\ \A d \in Contract \ {c} : Executed(o, c, s).storage[d] = o.storage[d]
  BY <1>6, ExecutedShape
<1>9. /\ o.storage = pending.storage
      /\ o.entry.store[c] # Absent
  BY <1>1, <1>2, <1>6, StoreShape, AbsentAssumption
<1>10. StorageAllowed(Executed(o, c, s))
  BY <1>8, <1>9 DEF StorageAllowed
<1>11. QED BY <1>1, <1>6, <1>7, <1>8, <1>10, StoreEntry

LEMMA FailStep ==
  ASSUME TablesInv, ExecutionFails
  PROVE  TablesInv'
<1>1. pending \in PendingType /\ charge(pending.money) \in MoneyOverlay
  BY ChargeMoney DEF TablesInv, ShapeInv, PendingType, MoneyOverlay
<1> DEFINE o == [pending EXCEPT !.money = charge(pending.money)]
<1>2. /\ o \in PendingType /\ o.entry = pending.entry
      /\ o.names = pending.names /\ o.storage = pending.storage
  BY <1>1 DEF PendingType, MoneyOverlay
<1>3. StorageAllowed(o)
  BY <1>2 DEF StorageAllowed
<1>4. Evaluate(o)
  BY DEF ExecutionFails
<1>5. QED BY <1>2, <1>3, <1>4, KeepEntries

LEMMA CallStep ==
  ASSUME TablesInv, NEW c \in Contract, NEW s \in Storage \union {Absent},
         NEW amount \in 0..Supply, CallContract(c, s, amount)
  PROVE  TablesInv'
<1> DEFINE m == IF amount = 0 THEN charge(pending.money)
                ELSE deposit(withdraw(charge(pending.money), balance_id(c), amount), Owner, amount)
           o == [pending EXCEPT !.money = m]
<1>1. pending \in PendingType /\ pending.money \in MoneyOverlay /\ ShapeInv /\ amount \in Int
  BY MarginAssumption DEF TablesInv, ShapeInv, PendingType, MoneyOverlay
<1>2. m \in MoneyOverlay
  BY <1>1, ChargeMoney, MoveMoney, BalanceIds
<1>3. /\ o \in PendingType /\ o.entry = pending.entry
      /\ o.names = pending.names /\ o.storage = pending.storage
  BY <1>1, <1>2 DEF PendingType, MoneyOverlay
<1>4. contract_lookup_by_id(c) # Absent /\ Evaluate(Executed(o, c, s))
  BY <1>1 DEF CallContract
<1>5. /\ Executed(o, c, s) \in PendingType
      /\ Executed(o, c, s).entry = o.entry
      /\ Executed(o, c, s).names = o.names
      /\ \A d \in Contract \ {c} : Executed(o, c, s).storage[d] = o.storage[d]
  <2> HIDE DEF o
  <2>1. QED BY <1>3, ExecutedShape
<1>6. StorageAllowed(Executed(o, c, s))
  BY <1>3, <1>4, <1>5 DEF StorageAllowed
<1>7. QED BY <1>3, <1>4, <1>5, <1>6, KeepEntries

LEMMA TransferStep ==
  ASSUME TablesInv, NEW c \in Contract, NEW amount \in 1..Supply, TransferContract(c, amount)
  PROVE  TablesInv'
<1> DEFINE m == deposit(withdraw(charge(pending.money), Owner, amount), balance_id(c), amount)
           o == [pending EXCEPT !.money = m]
<1>1. pending \in PendingType /\ pending.money \in MoneyOverlay /\ ShapeInv /\ amount \in Int
  BY MarginAssumption DEF TablesInv, ShapeInv, PendingType, MoneyOverlay
<1>2. m \in MoneyOverlay
  BY <1>1, ChargeMoney, MoveMoney, BalanceIds
<1>3. /\ o \in PendingType /\ o.entry = pending.entry
      /\ o.names = pending.names /\ o.storage = pending.storage
  BY <1>1, <1>2 DEF PendingType, MoneyOverlay
<1>4. StorageAllowed(o) /\ Evaluate(o)
  BY <1>3 DEF StorageAllowed, TransferContract
<1>5. QED BY <1>3, <1>4, KeepEntries

LEMMA DepositStep ==
  ASSUME TablesInv, NEW c \in Contract, NEW k \in contract_balances(c),
         NEW amount \in 1..Supply, Deposit(c, k, amount)
  PROVE  TablesInv'
<1> DEFINE m == deposit(withdraw(charge(pending.money), Owner, amount), k, amount)
           o == [pending EXCEPT !.money = m]
<1>1. pending \in PendingType /\ pending.money \in MoneyOverlay /\ ShapeInv /\ amount \in Int
  BY MarginAssumption DEF TablesInv, ShapeInv, PendingType, MoneyOverlay
<1>2. m \in MoneyOverlay
  BY <1>1, ChargeMoney, MoveMoney, BalanceIds DEF contract_balances
<1>3. /\ o \in PendingType /\ o.entry = pending.entry
      /\ o.names = pending.names /\ o.storage = pending.storage
  BY <1>1, <1>2 DEF PendingType, MoneyOverlay
<1>4. StorageAllowed(o) /\ Evaluate(o)
  BY <1>3 DEF StorageAllowed, Deposit
<1>5. QED BY <1>3, <1>4, KeepEntries

(* What upgrading and destroying leave of an entry is an entry. *)
LEMMA LookupEntry ==
  ASSUME TablesInv, NEW c \in Contract, contract_lookup_by_id(c) # Absent
  PROVE  contract_lookup_by_id(c) \in ContractEntry
  BY LookupPending DEF TablesInv, ShapeInv, PendingType, TableType, E!Table

LEMMA UpgradeStep ==
  ASSUME TablesInv, NEW c \in Contract, NEW n \in ContractName, UpgradeContract(c, n)
  PROVE  TablesInv'
<1> DEFINE e == [contract_lookup_by_id(c) EXCEPT !.level = "forever", !.contract_name = n]
           m == deposit(withdraw(charge(pending.money), margin_id(c), Margin),
                        CollectedFees, Margin)
           o == [store_contract_entry(pending, c, e) EXCEPT !.money = m]
<1>1. /\ contract_lookup_by_id(c) # Absent /\ contract_lookup_by_id(c).level = "temp"
      /\ contract_lookup_by_name(n) = {}
  BY DEF UpgradeContract, TemporaryWithMargin
<1>2. e \in ContractEntry /\ e.level = "forever" /\ e.contract_name = n
  BY <1>1, LookupEntry DEF ContractEntry
<1>3. pending \in PendingType /\ pending.money \in MoneyOverlay /\ ShapeInv /\ Margin \in Int
  BY MarginAssumption DEF TablesInv, ShapeInv, PendingType, MoneyOverlay
<1>4. m \in MoneyOverlay
  BY <1>3, ChargeMoney, MoveMoney, BalanceIds
<1>5. /\ store_contract_entry(pending, c, e) \in PendingType
      /\ store_contract_entry(pending, c, e).money = pending.money
      /\ store_contract_entry(pending, c, e).storage = pending.storage
  <2> HIDE DEF e
  <2>1. QED BY <1>2, <1>3, StoreShape
<1>6. /\ o \in PendingType
      /\ o.entry = store_contract_entry(pending, c, e).entry
      /\ o.names = store_contract_entry(pending, c, e).names
      /\ o.storage = pending.storage
  BY <1>4, <1>5 DEF PendingType, MoneyOverlay
<1>7. Evaluate(o) /\ StorageAllowed(o)
  BY <1>5, <1>6 DEF UpgradeContract, StorageAllowed
<1> HIDE DEF e, m, o
<1>8. QED BY <1>1, <1>2, <1>6, <1>7, StoreEntry

LEMMA DestroyStep ==
  ASSUME TablesInv, NEW c \in Contract, DestroyContract(c)
  PROVE  TablesInv'
<1> DEFINE e == [contract_lookup_by_id(c) EXCEPT !.state = "deleted"]
           back == deposit(withdraw(charge(pending.money), margin_id(c), Margin), Owner, Margin)
           m == destroy_balance(back, c)
           o == [store_contract_entry(pending, c, e) EXCEPT !.money = m]
<1>1. contract_lookup_by_id(c) # Absent /\ contract_lookup_by_id(c).level = "temp"
  BY DEF DestroyContract, TemporaryWithMargin
<1>2. /\ e \in ContractEntry /\ e.level = "temp"
      /\ e.contract_name = contract_lookup_by_id(c).contract_name
  BY <1>1, LookupEntry DEF ContractEntry
<1>3. e.contract_name = NoName
  BY <1>1, <1>2, LookupPending DEF TablesInv, TableOK, PendingOK, NamedForever
<1>4. pending \in PendingType /\ pending.money \in MoneyOverlay /\ ShapeInv /\ Margin \in Int
  BY MarginAssumption DEF TablesInv, ShapeInv, PendingType, MoneyOverlay
<1>5. back \in MoneyOverlay
  BY <1>4, ChargeMoney, MoveMoney, BalanceIds
<1>6. m \in MoneyOverlay
  <2> HIDE DEF back
  <2>1. balance(back, balance_id(c)) \in Int
    BY <1>4, <1>5, BalanceInt, BalanceIds
  <2>2. deposit(back, Owner, balance(back, balance_id(c))) \in MoneyOverlay
    BY <1>4, <1>5, <2>1, MoveMoney, BalanceIds
  <2>3. QED BY <1>5, <2>2, InsertMoney, BalanceIds DEF destroy_balance
<1>7. /\ store_contract_entry(pending, c, e) \in PendingType
      /\ store_contract_entry(pending, c, e).money = pending.money
      /\ store_contract_entry(pending, c, e).storage = pending.storage
  <2> HIDE DEF e
  <2>1. QED BY <1>2, <1>4, StoreShape
<1>8. /\ o \in PendingType
      /\ o.entry = store_contract_entry(pending, c, e).entry
      /\ o.names = store_contract_entry(pending, c, e).names
      /\ o.storage = pending.storage
  BY <1>6, <1>7 DEF PendingType, MoneyOverlay
<1>9. Evaluate(o) /\ StorageAllowed(o)
  BY <1>7, <1>8 DEF DestroyContract, StorageAllowed
<1> HIDE DEF e, m, o
<1>10. QED BY <1>1, <1>2, <1>3, <1>8, <1>9, StoreEntry

-----------------------------------------------------------------------------
(* Steps of a whole block                                                  *)

(* An empty overlay, as a new block, a pop or a restart finds it, is right. *)
LEMMA EmptyPendingOK ==
  ASSUME pending' = EmptyOverlay
  PROVE  PendingOK'
<1>1. /\ pending'.entry.store = [c \in Contract |-> Absent]
      /\ pending'.names = [n \in ContractName |-> Absent]
      /\ pending'.storage = [c \in Contract |-> Absent]
  BY DEF EmptyOverlay, E!EmptyOverlay, NoNames, NoStorage
<1>2. \A c \in Contract : c # Absent
  BY AbsentAssumption
<1>3. QED BY <1>1, <1>2 DEF PendingOK, NamedForever, Named

LEMMA InitInv == Init => TablesInv
<1>1. SUFFICES ASSUME Init PROVE TablesInv
  OBVIOUS
<1>2. /\ db.entry = [c \in Contract |-> Absent]
      /\ db.money = [k \in BalanceId |-> IF k = Owner THEN Supply
                                         ELSE IF k = CollectedFees THEN 0 ELSE Absent]
      /\ db.trx = [c \in Contract |-> Absent]
      /\ db.storage = NoStorage /\ db.names = NoNames
      /\ undo = <<>> /\ past = <<>> /\ pending = EmptyOverlay /\ ops = 0
  BY <1>1 DEF Init
<1>3. db \in TableType
  <2>1. db.entry \in E!Table /\ db.trx \in T!Table
    BY <1>2 DEF E!Table, T!Table
  <2>2. db.money \in MoneyTable
    BY <1>2, MarginAssumption DEF MoneyTable
  <2>3. db.storage \in StorageMap /\ db.names \in NameMap
    BY <1>2 DEF NoStorage, StorageMap, NoNames, NameMap
  <2>4. QED BY <1>1, <2>1, <2>2, <2>3 DEF Init, TableType
<1>4. ShapeInv
  BY <1>2, <1>3, EmptyShape DEF ShapeInv
<1>5. TableOK(db) /\ IndexOK(db)
  BY <1>2 DEF TableOK, NamedForever, IndexOK, Named, NoStorage
<1>6. PendingOK
  <2>1. /\ pending.entry.store = [c \in Contract |-> Absent]
        /\ pending.names = [n \in ContractName |-> Absent]
        /\ pending.storage = [c \in Contract |-> Absent]
    BY <1>2 DEF EmptyOverlay, E!EmptyOverlay, NoNames, NoStorage
  <2>2. \A c \in Contract : c # Absent
    BY AbsentAssumption
  <2>3. QED BY <1>2, <2>1, <2>2 DEF PendingOK, NamedForever, Named
<1>7. HistoryOK
  BY <1>2 DEF HistoryOK
<1>8. QED BY <1>4, <1>5, <1>6, <1>7 DEF TablesInv

LEMMA RejectStep ==
  ASSUME TablesInv, RejectBlock
  PROVE  TablesInv'
<1>1. pending' = EmptyOverlay /\ ops' = 0 /\ UNCHANGED <<db, undo, past>>
  BY DEF RejectBlock
<1>2. ShapeInv'
  BY <1>1, EmptyShape DEF TablesInv, ShapeInv
<1>3. TableOK(db)' /\ IndexOK(db)' /\ HistoryOK'
  BY <1>1 DEF TablesInv, TableOK, NamedForever, IndexOK, Named, HistoryOK, Above
<1>4. QED BY <1>1, <1>2, <1>3, EmptyPendingOK DEF TablesInv

(* The undo states read back from disk lack the index by registering *)
(* transaction, and no block counts as fresh.                        *)
LEMMA RestartStep ==
  ASSUME TablesInv, Restart
  PROVE  TablesInv'
<1>1. /\ undo' = [i \in DOMAIN undo |-> reloaded(undo[i])]
      /\ past' = [i \in DOMAIN past |-> [past[i] EXCEPT !.fresh = FALSE]]
      /\ pending' = EmptyOverlay /\ ops' = 0 /\ db' = db
  BY DEF Restart
<1>2. /\ undo \in Seq(UndoType) /\ past \in Seq(PastType) /\ Len(past) = Len(undo)
      /\ db \in TableType
  BY DEF TablesInv, ShapeInv
<1>3. \A u \in UndoType : /\ reloaded(u) \in UndoType
                          /\ reloaded(u).entry = u.entry
                          /\ reloaded(u).money = u.money
                          /\ reloaded(u).storage = u.storage
  <2>1. T!EmptyOverlay \in [store : T!Table, remove : SUBSET Contract]
    BY DEF T!EmptyOverlay, T!Table
  <2>2. QED BY <2>1 DEF reloaded, UndoType
<1>4. \A p \in PastType : /\ [p EXCEPT !.fresh = FALSE] \in PastType
                          /\ [p EXCEPT !.fresh = FALSE].tables = p.tables
                          /\ [p EXCEPT !.fresh = FALSE].fresh = FALSE
  BY DEF PastType
<1>5. /\ undo' \in Seq(UndoType) /\ Len(undo') = Len(undo)
      /\ \A i \in 1..Len(undo) : undo'[i] = reloaded(undo[i])
  BY <1>1, <1>2, <1>3
<1>6. /\ past' \in Seq(PastType) /\ Len(past') = Len(past)
      /\ \A i \in 1..Len(past) : past'[i].tables = past[i].tables /\ past'[i].fresh = FALSE
  BY <1>1, <1>2, <1>4
<1>7. ShapeInv'
  BY <1>1, <1>2, <1>5, <1>6, EmptyShape DEF ShapeInv
<1>8. TableOK(db)' /\ IndexOK(db)'
  BY <1>1 DEF TablesInv, TableOK, NamedForever, IndexOK, Named
<1>9. HistoryOK'
  <2>1. SUFFICES ASSUME NEW i \in 1..Len(past)
                 PROVE  /\ TableOK(past'[i].tables)
                        /\ Reverts(undo'[i], Above(i)', past'[i].tables, past'[i].fresh)
                        /\ ~past'[i].fresh
    BY <1>6 DEF HistoryOK
  <2>2. TableOK(past[i].tables) /\ Reverts(undo[i], Above(i), past[i].tables, past[i].fresh)
    BY DEF TablesInv, HistoryOK
  <2>3. Above(i)' = Above(i)
    BY <1>1, <1>2, <1>6 DEF Above
  <2>4. undo[i] \in UndoType
    BY <1>2
  <2>5. apply_storage(undo'[i], Above(i)) = apply_storage(undo[i], Above(i))
    BY <1>2, <1>3, <1>5, <2>4 DEF apply_storage
  <2>6. Reverts(undo'[i], Above(i), past[i].tables, FALSE)
    BY <1>2, <1>3, <1>5, <2>2, <2>4, <2>5 DEF Reverts
  <2>7. QED BY <1>6, <2>2, <2>3, <2>6
<1>10. QED BY <1>1, <1>7, <1>8, <1>9, EmptyPendingOK DEF TablesInv

(* What the tables hold of entries and names once a block is applied *)
LEMMA AppliedEntries ==
  ASSUME TablesInv, NEW c \in Contract
  PROVE  apply_changes(pending, db).entry[c] = contract_lookup_by_id(c)
<1>1. pending.entry.remove = {} /\ ShapeInv
  BY DEF TablesInv, ShapeInv, PendingType
<1>2. apply_changes(pending, db).entry = E!apply_changes(pending.entry, db.entry)
  BY DEF apply_changes
<1>3. QED BY <1>1, <1>2, LookupPending DEF E!apply_changes, E!touched, E!stored

LEMMA AppliedNames ==
  ASSUME TablesInv, NEW c \in Contract, NEW n \in ContractName,
         Named(apply_changes(pending, db).entry, c, n)
  PROVE  apply_names(pending, db)[n] = c
<1> DEFINE named == {d \in E!stored(pending.entry) : pending.entry.store[d].contract_name = n}
<1>1. named = {d \in Contract : Named(pending.entry.store, d, n)}
  BY DEF E!stored, Named
<1>2. apply_names(pending, db)[n] =
        IF named = {} THEN db.names[n] ELSE CHOOSE d \in named : TRUE
  BY DEF apply_names
<1>3. CASE pending.entry.store[c] # Absent
  <2>1. Named(pending.entry.store, c, n)
    BY <1>3, AppliedEntries, LookupPending DEF Named, TablesInv
  <2>2. \A d \in named : d = pending.names[n]
    BY <1>1 DEF TablesInv, PendingOK
  <2>3. named = {c}
    BY <1>1, <2>1, <2>2
  <2>4. QED BY <1>2, <2>3
<1>4. CASE pending.entry.store[c] = Absent
  <2>1. Named(db.entry, c, n)
    BY <1>4, AppliedEntries, LookupPending DEF Named, TablesInv
  <2>2. named = {}
    BY <1>1, <2>1 DEF TablesInv, PendingOK
  <2>3. db.names[n] = c
    BY <2>1 DEF TablesInv, IndexOK
  <2>4. QED BY <1>2, <2>2, <2>3
<1>5. QED BY <1>3, <1>4

(* The undo state saved with a block leads back to the tables below it. *)
LEMMA BlockReverts ==
  ASSUME TablesInv
  PROVE  Reverts(get_undo_state(pending, db), apply_changes(pending, db), db, TRUE)
<1> DEFINE u == get_undo_state(pending, db)
           a == apply_changes(pending, db)
<1>1. /\ db \in TableType /\ pending \in PendingType
      /\ pending.entry.remove = {} /\ pending.money.remove = {} /\ pending.trx.remove = {}
  BY DEF TablesInv, ShapeInv, PendingType
<1>2. /\ db.entry = [c \in Contract |-> db.entry[c]]
      /\ db.money = [k \in BalanceId |-> db.money[k]]
      /\ db.trx = [c \in Contract |-> db.trx[c]]
  BY <1>1 DEF TableType, E!Table, MoneyTable, T!Table
<1>3. /\ E!apply_changes(u.entry, a.entry) = db.entry
      /\ M!apply_changes(u.money, a.money) = db.money
      /\ T!apply_changes(u.trx, a.trx) = db.trx
  <2>1. E!apply_changes(u.entry, a.entry) = db.entry
    BY <1>1, <1>2, EntryReverts DEF get_undo_state, apply_changes
  <2>2. M!apply_changes(u.money, a.money) = db.money
    BY <1>1, <1>2, MoneyReverts DEF get_undo_state, apply_changes
  <2>3. T!apply_changes(u.trx, a.trx) = db.trx
    BY <1>1, <1>2, TrxReverts DEF get_undo_state, apply_changes
  <2>4. QED BY <2>1, <2>2, <2>3
<1>4. ASSUME NEW c \in Contract, NEW n \in ContractName, Named(db.entry, c, n)
      PROVE  Named(a.entry, c, n)
  <2>1. pending.entry.store[c] = Absent
    BY <1>4 DEF TablesInv, PendingOK
  <2>2. a.entry[c] = db.entry[c]
    BY <2>1, AppliedEntries, LookupPending DEF TablesInv
  <2>3. QED BY <1>4, <2>2 DEF Named
<1>5. ASSUME NEW c \in Contract
      PROVE  \/ apply_storage(u, a)[c] = db.storage[c]
             \/ /\ db.storage[c] = Absent /\ db.entry[c] # Absent
                /\ apply_storage(u, a)[c] = a.storage[c]
  <2>1. u.storage[c] = IF pending.storage[c] # Absent THEN db.storage[c] ELSE Absent
    BY <1>1 DEF get_undo_state, undo_storage
  <2>2. a.storage[c] = IF pending.storage[c] # Absent THEN pending.storage[c] ELSE db.storage[c]
    BY <1>1 DEF apply_changes, apply_storage
  <2>3. u.entry.remove = {d \in E!stored(pending.entry) : db.entry[d] = Absent}
    BY DEF get_undo_state, E!get_undo_state
  <2>4. apply_storage(u, a)[c] = IF u.storage[c] # Absent THEN u.storage[c]
                                 ELSE IF c \in u.entry.remove THEN Absent ELSE a.storage[c]
    BY DEF apply_storage
  <2>5. db.entry[c] = Absent => db.storage[c] = Absent
    BY DEF TablesInv, TableOK
  <2>6. pending.storage[c] # Absent /\ db.entry[c] = Absent => c \in u.entry.remove
    BY <2>3, LookupPending DEF TablesInv, PendingOK, E!stored
  <2>7. c \in u.entry.remove => db.entry[c] = Absent
    BY <2>3
  <2> HIDE DEF u, a
  <2>8. QED BY <2>1, <2>2, <2>4, <2>5, <2>6, <2>7
<1>6. QED BY <1>3, <1>4, <1>5 DEF Reverts

LEMMA ApplyStep ==
  ASSUME TablesInv, ApplyBlock
  PROVE  TablesInv'
<1> DEFINE u == get_undo_state(pending, db)
           p == [tables |-> db, fresh |-> TRUE]
<1>1. /\ undo' = Append(undo, u) /\ past' = Append(past, p)
      /\ db' = apply_changes(pending, db)
      /\ pending' = EmptyOverlay /\ ops' = 0
  BY DEF ApplyBlock
<1>2. /\ db \in TableType /\ pending \in PendingType
      /\ undo \in Seq(UndoType) /\ past \in Seq(PastType) /\ Len(past) = Len(undo)
  BY DEF TablesInv, ShapeInv
<1>3. u \in UndoType /\ p \in PastType /\ db' \in TableType
  BY <1>1, <1>2, UndoShape, ApplyShape, PendingIsUndoShaped DEF PastType
<1>4. /\ undo' \in Seq(UndoType) /\ past' \in Seq(PastType)
      /\ Len(past') = Len(past) + 1 /\ Len(undo') = Len(undo) + 1
      /\ past'[Len(past) + 1] = p /\ undo'[Len(past) + 1] = u
      /\ \A i \in 1..Len(past) : past'[i] = past[i] /\ undo'[i] = undo[i]
  <2> HIDE DEF u, p
  <2>1. QED BY <1>1, <1>2, <1>3
<1>5. ShapeInv'
  BY <1>1, <1>2, <1>3, <1>4, EmptyShape DEF ShapeInv
<1>6. NamedForever(db'.entry)
  BY <1>1, AppliedEntries, LookupPending
     DEF TablesInv, TableOK, PendingOK, NamedForever
<1>7. ASSUME NEW c \in Contract, db'.entry[c] = Absent PROVE db'.storage[c] = Absent
  <2>1. contract_lookup_by_id(c) = Absent
    BY <1>1, <1>7, AppliedEntries
  <2>2. pending.storage[c] = Absent /\ db.entry[c] = Absent
    BY <1>2, <2>1, LookupPending DEF TablesInv, PendingOK
  <2>3. db.storage[c] = Absent
    BY <2>2 DEF TablesInv, TableOK
  <2>4. QED BY <1>1, <2>2, <2>3 DEF apply_changes, apply_storage
<1>8. IndexOK(db)'
  BY <1>1, AppliedNames DEF apply_changes, IndexOK, Named
<1>9. HistoryOK'
  <2>1. SUFFICES ASSUME NEW i \in 1..(Len(past) + 1)
                 PROVE  /\ TableOK(past'[i].tables)
                        /\ Reverts(undo'[i], Above(i)', past'[i].tables, past'[i].fresh)
                        /\ i < Len(past) + 1 /\ past'[i].fresh => past'[i + 1].fresh
    BY <1>4 DEF HistoryOK
  <2>2. CASE i = Len(past) + 1
    <3>1. Above(i)' = db' /\ past'[i] = p /\ undo'[i] = u
      BY <1>4, <2>2 DEF Above
    <3>2. TableOK(db)
      BY DEF TablesInv
    <3>3. p.tables = db /\ p.fresh
      OBVIOUS
    <3>4. Reverts(u, db', db, TRUE)
      BY <1>1, BlockReverts
    <3>5. ~(i < Len(past) + 1)
      BY <1>2, <2>2
    <3> HIDE DEF u, p
    <3>6. QED BY <3>1, <3>2, <3>3, <3>4, <3>5
  <2>3. CASE i \in 1..Len(past)
    <3>1. Above(i)' = Above(i)
      <4>1. Above(i)' = past'[i + 1].tables
        BY <1>2, <1>4, <2>3 DEF Above
      <4>2. CASE i = Len(past)
        BY <1>4, <4>1, <4>2 DEF Above
      <4>3. CASE i < Len(past)
        <5>1. i + 1 \in 1..Len(past)
          BY <1>2, <2>3, <4>3
        <5>2. QED BY <1>4, <2>3, <4>1, <4>3, <5>1 DEF Above
      <4>4. QED BY <1>2, <2>3, <4>2, <4>3
    <3>2. past'[i] = past[i] /\ undo'[i] = undo[i]
      BY <1>4, <2>3
    <3>3. /\ TableOK(past[i].tables)
          /\ Reverts(undo[i], Above(i), past[i].tables, past[i].fresh)
          /\ i < Len(past) /\ past[i].fresh => past[i + 1].fresh
      BY <2>3 DEF TablesInv, HistoryOK
    <3>4. i < Len(past) => past'[i + 1] = past[i + 1]
      BY <1>2, <1>4, <2>3
    <3>5. i = Len(past) => past'[i + 1].fresh
      BY <1>4
    <3>6. past'[i].fresh => past'[i + 1].fresh
      BY <1>2, <2>3, <3>2, <3>3, <3>4, <3>5
    <3>7. QED BY <3>1, <3>2, <3>3, <3>6
  <2>4. QED BY <1>2, <2>2, <2>3
<1>10. TableOK(db)'
  BY <1>6, <1>7 DEF TableOK, NamedForever
<1>11. QED BY <1>1, <1>5, <1>8, <1>9, <1>10, EmptyPendingOK DEF TablesInv

(* Tables b that a pop brought back stand for those it should have brought *)
(* back, a: they differ in the first storage of contracts a has.           *)
LEMMA ReplaceAbove ==
  ASSUME NEW u \in UndoType, NEW a \in TableType, NEW b \in TableType, NEW t \in TableType,
         NEW fresh, Reverts(u, a, t, fresh),
         b.entry = a.entry, b.money = a.money, fresh => b.trx = a.trx,
         \A c \in Contract : \/ b.storage[c] = a.storage[c]
                             \/ a.storage[c] = Absent /\ a.entry[c] # Absent
  PROVE  Reverts(u, b, t, fresh)
<1>1. ASSUME NEW c \in Contract
      PROVE  \/ apply_storage(u, b)[c] = t.storage[c]
             \/ /\ t.storage[c] = Absent /\ t.entry[c] # Absent
                /\ apply_storage(u, b)[c] = b.storage[c]
  <2>1. /\ apply_storage(u, a)[c] = IF u.storage[c] # Absent THEN u.storage[c]
                                    ELSE IF c \in u.entry.remove THEN Absent ELSE a.storage[c]
        /\ apply_storage(u, b)[c] = IF u.storage[c] # Absent THEN u.storage[c]
                                    ELSE IF c \in u.entry.remove THEN Absent ELSE b.storage[c]
    BY DEF apply_storage
  <2>2. \/ apply_storage(u, a)[c] = t.storage[c]
        \/ /\ t.storage[c] = Absent /\ t.entry[c] # Absent
           /\ apply_storage(u, a)[c] = a.storage[c]
    BY DEF Reverts
  <2>3. CASE b.storage[c] = a.storage[c]
    BY <2>1, <2>2, <2>3
  <2>4. CASE a.storage[c] = Absent /\ a.entry[c] # Absent
    <3>1. CASE u.storage[c] # Absent \/ c \in u.entry.remove
      <4>1. apply_storage(u, b)[c] = apply_storage(u, a)[c]
        BY <2>1, <3>1
      <4>2. CASE apply_storage(u, a)[c] = t.storage[c]
        BY <4>1, <4>2
      <4>3. CASE t.storage[c] = Absent /\ apply_storage(u, a)[c] = a.storage[c]
        BY <2>4, <4>1, <4>3
      <4>4. QED BY <2>2, <4>2, <4>3
    <3>2. CASE u.storage[c] = Absent /\ c \notin u.entry.remove
      <4>1. t.storage[c] = Absent /\ apply_storage(u, b)[c] = b.storage[c]
        BY <2>1, <2>2, <2>4, <3>2
      <4>2. t.entry[c] = IF c \in E!touched(u.entry) THEN u.entry.store[c] ELSE a.entry[c]
        BY DEF Reverts, E!apply_changes
      <4>3. t.entry[c] # Absent
        BY <2>4, <3>2, <4>2 DEF E!touched, E!stored
      <4>4. QED BY <4>1, <4>3
    <3>3. QED BY <3>1, <3>2
  <2>5. QED BY <2>3, <2>4
<1>2. QED BY <1>1 DEF Reverts

(* What a pop brings back: everything but the first storage of a contract *)
(* that the chain keeps.                                                  *)
LEMMA PopReverts ==
  ASSUME TablesInv, PopBlock
  PROVE  LET t == past[Len(past)].tables IN
         /\ Len(past) \in 1..Len(undo)
         /\ db' \in TableType
         /\ TableOK(t)
         /\ Reverts(undo[Len(past)], db, t, past[Len(past)].fresh)
         /\ db' = apply_changes(undo[Len(past)], db)
         /\ db'.entry = t.entry /\ db'.money = t.money
         /\ past[Len(past)].fresh => db'.trx = t.trx
         /\ \A c \in Contract :
              \/ db'.storage[c] = t.storage[c]
              \/ t.storage[c] = Absent /\ t.entry[c] # Absent /\ db'.storage[c] = db.storage[c]
<1> DEFINE n == Len(past)
           t == past[n].tables
<1>1. /\ undo \in Seq(UndoType) /\ past \in Seq(PastType) /\ Len(past) = Len(undo)
      /\ db \in TableType
  BY DEF TablesInv, ShapeInv
<1>2. undo # <<>> /\ db' = apply_changes(undo[n], db)
  BY <1>1 DEF PopBlock
<1>3. n \in 1..Len(undo)
  BY <1>1, <1>2
<1>4. undo[n] \in UndoType
  BY <1>1, <1>3
<1>5. TableOK(t) /\ Reverts(undo[n], db, t, past[n].fresh)
  BY <1>1, <1>3 DEF TablesInv, HistoryOK, Above
<1>6. db' \in TableType
  BY <1>1, <1>2, <1>4, ApplyShape
<1>7. /\ db'.entry = t.entry /\ db'.money = t.money
      /\ past[n].fresh => db'.trx = t.trx
  BY <1>2, <1>5 DEF apply_changes, Reverts
<1>8. \A c \in Contract :
        \/ db'.storage[c] = t.storage[c]
        \/ t.storage[c] = Absent /\ t.entry[c] # Absent /\ db'.storage[c] = db.storage[c]
  BY <1>2, <1>5 DEF apply_changes, Reverts
<1>9. QED BY <1>2, <1>3, <1>5, <1>6, <1>7, <1>8

LEMMA PopStep ==
  ASSUME TablesInv, PopBlock
  PROVE  TablesInv'
<1> DEFINE n == Len(past)
           t == past[n].tables
<1>1. /\ undo \in Seq(UndoType) /\ past \in Seq(PastType) /\ Len(past) = Len(undo)
      /\ db \in TableType
  BY DEF TablesInv, ShapeInv
<1>2. /\ ops = 0 /\ pending = EmptyOverlay
      /\ undo' = SubSeq(undo, 1, n - 1) /\ past' = SubSeq(past, 1, n - 1)
      /\ pending' = pending /\ ops' = ops
  BY <1>1 DEF PopBlock, TablesInv, PendingOK
<1>3. /\ n \in 1..Len(undo) /\ db' \in TableType /\ TableOK(t)
      /\ Reverts(undo[n], db, t, past[n].fresh)
      /\ db' = apply_changes(undo[n], db)
      /\ db'.entry = t.entry /\ db'.money = t.money
      /\ past[n].fresh => db'.trx = t.trx
      /\ \A c \in Contract :
           \/ db'.storage[c] = t.storage[c]
           \/ t.storage[c] = Absent /\ t.entry[c] # Absent /\ db'.storage[c] = db.storage[c]
  BY PopReverts
<1>4. /\ undo' \in Seq(UndoType) /\ past' \in Seq(PastType)
      /\ Len(past') = n - 1 /\ Len(undo') = n - 1
      /\ \A i \in 1..(n - 1) : past'[i] = past[i] /\ undo'[i] = undo[i]
  BY <1>1, <1>2, <1>3
<1>5. ShapeInv'
  BY <1>2, <1>3, <1>4 DEF TablesInv, ShapeInv
<1>6. TableOK(db)'
  BY <1>3 DEF TableOK, NamedForever
<1>7. ASSUME NEW c \in Contract, NEW m \in ContractName, Named(db'.entry, c, m)
      PROVE  db'.names[m] = c
  <2> DEFINE u == undo[n]
             named == {d \in E!stored(u.entry) : u.entry.store[d].contract_name = m}
  <2>1. db'.names[m] = IF named = {} THEN db.names[m] ELSE CHOOSE d \in named : TRUE
    BY <1>3 DEF apply_changes, apply_names
  <2>2. \A d \in Contract : Named(t.entry, d, m) => db.names[m] = d
    BY <1>3 DEF Reverts, TablesInv, IndexOK
  <2>3. \A d \in named : d \in Contract /\ Named(t.entry, d, m)
    <3>1. SUFFICES ASSUME NEW d \in named PROVE d \in Contract /\ Named(t.entry, d, m)
      OBVIOUS
    <3>2. /\ d \in Contract /\ u.entry.store[d] # Absent
          /\ u.entry.store[d].contract_name = m /\ d \in E!touched(u.entry)
      BY DEF E!stored, E!touched
    <3>3. t.entry[d] = u.entry.store[d]
      BY <1>3, <3>2 DEF Reverts, E!apply_changes
    <3>4. QED BY <3>2, <3>3 DEF Named
  <2>4. db.names[m] = c
    BY <1>3, <1>7, <2>2 DEF Named
  <2>5. \A d \in named : d = c
    BY <2>2, <2>3, <2>4
  <2>6. QED BY <2>1, <2>4, <2>5
<1>8. IndexOK(db)'
  BY <1>7 DEF IndexOK, Named
<1>9. HistoryOK'
  <2>1. SUFFICES ASSUME NEW i \in 1..(n - 1)
                 PROVE  /\ TableOK(past'[i].tables)
                        /\ Reverts(undo'[i], Above(i)', past'[i].tables, past'[i].fresh)
                        /\ i < n - 1 /\ past'[i].fresh => past'[i + 1].fresh
    BY <1>4 DEF HistoryOK
  <2>2. i \in 1..Len(past) /\ i < n /\ n \in Int /\ i + 1 \in 1..n
    BY <1>1
  <2>3. /\ TableOK(past[i].tables)
        /\ Reverts(undo[i], past[i + 1].tables, past[i].tables, past[i].fresh)
        /\ past[i].fresh => past[i + 1].fresh
    BY <2>2 DEF TablesInv, HistoryOK, Above
  <2>4. past'[i] = past[i] /\ undo'[i] = undo[i]
    BY <1>4
  <2>5. i < n - 1 => past'[i + 1] = past[i + 1]
    BY <1>4, <2>2
  <2>6. Reverts(undo[i], Above(i)', past[i].tables, past[i].fresh)
    <3>1. CASE i < n - 1
      <4>1. Above(i)' = past[i + 1].tables
        BY <1>4, <2>2, <2>5, <3>1 DEF Above
      <4>2. QED BY <2>3, <4>1
    <3>2. CASE i = n - 1
      <4>1. Above(i)' = db'
        BY <1>4, <3>2 DEF Above
      <4>2. i + 1 = n
        BY <2>2, <3>2
      <4>3. undo[i] \in UndoType /\ past[i].tables \in TableType /\ t \in TableType
        <5>1. n \in 1..Len(past) /\ i \in 1..Len(past) /\ i \in 1..Len(undo)
          BY <1>1, <1>3, <2>2
        <5>2. past[i] \in PastType /\ past[n] \in PastType /\ undo[i] \in UndoType
          BY <1>1, <5>1
        <5>3. QED BY <5>2 DEF PastType
      <4>4. past[i].fresh => db'.trx = t.trx
        BY <1>3, <2>3, <4>2
      <4>5. \A c \in Contract : \/ db'.storage[c] = t.storage[c]
                                \/ t.storage[c] = Absent /\ t.entry[c] # Absent
        BY <1>3
      <4>6. Reverts(undo[i], t, past[i].tables, past[i].fresh)
        BY <2>3, <4>2
      <4>7. Reverts(undo[i], db', past[i].tables, past[i].fresh)
        <5> HIDE DEF t, n
        <5>1. QED BY <1>3, <4>3, <4>4, <4>5, <4>6, ReplaceAbove
      <4>8. QED BY <4>1, <4>7
    <3>3. QED BY <2>2, <3>1, <3>2
  <2>7. QED BY <2>3, <2>4, <2>5, <2>6
<1>10. QED BY <1>2, <1>5, <1>6, <1>8, <1>9, EmptyPendingOK DEF TablesInv

-----------------------------------------------------------------------------
(* Every step keeps the invariant. *)
LEMMA NextInv == TablesInv /\ [Next]_vars => TablesInv'
<1>1. SUFFICES ASSUME TablesInv, [Next]_vars PROVE TablesInv'
  OBVIOUS
<1> USE <1>1
<1>2. CASE UNCHANGED vars
  BY <1>2 DEF vars, TablesInv, ShapeInv, TableOK, NamedForever, IndexOK, Named, PendingOK,
              contract_lookup_by_id, HistoryOK, Above
<1>3. ASSUME NEW c \in Contract, NEW s \in Storage \union {Absent}, RegisterContract(c, s)
      PROVE  TablesInv'
  BY <1>3, RegisterStep
<1>4. ASSUME NEW c \in Contract, NEW s \in Storage \union {Absent}, NEW amount \in 0..Supply,
             CallContract(c, s, amount)
      PROVE  TablesInv'
  BY <1>4, CallStep
<1>5. ASSUME NEW c \in Contract, NEW amount \in 1..Supply, TransferContract(c, amount)
      PROVE  TablesInv'
  BY <1>5, TransferStep
<1>6. ASSUME NEW c \in Contract, NEW n \in ContractName, UpgradeContract(c, n)
      PROVE  TablesInv'
  BY <1>6, UpgradeStep
<1>7. ASSUME NEW c \in Contract, DestroyContract(c) PROVE TablesInv'
  BY <1>7, DestroyStep
<1>8. CASE ExecutionFails BY <1>8, FailStep
<1>9. CASE ApplyBlock BY <1>9, ApplyStep
<1>10. CASE RejectBlock BY <1>10, RejectStep
<1>11. CASE PopBlock BY <1>11, PopStep
<1>12. CASE Restart BY <1>12, RestartStep
<1>13. ASSUME NEW c \in Contract, NEW k \in contract_balances(c), NEW amount \in 1..Supply,
              Deposit(c, k, amount)
       PROVE  TablesInv'
  BY <1>13, DepositStep
<1>14. QED
  BY <1>2, <1>3, <1>4, <1>5, <1>6, <1>7, <1>8, <1>9, <1>10, <1>11, <1>12, <1>13 DEF Next

LEMMA SpecInv == Spec => []TablesInv
<1>1. QED BY InitInv, NextInv, PTL DEF Spec

(* A name that is indexed leads to its contract and to no other. *)
LEMMA IndexImpliesFound == TablesInv => NameIndexed
<1>1. SUFFICES ASSUME TablesInv, NEW c \in Contract, db.entry[c] # Absent,
                      db.entry[c].contract_name # NoName
               PROVE  found_by_name(db.entry[c].contract_name) = {c}
  BY DEF NameIndexed
<1>2. db.entry[c].contract_name \in ContractName
  BY <1>1 DEF TablesInv, ShapeInv, TableType, E!Table, ContractEntry
<1>3. db.names[db.entry[c].contract_name] = c
  BY <1>1, <1>2 DEF TablesInv, IndexOK, Named
<1>4. QED BY <1>1, <1>3, AbsentAssumption DEF found_by_name

LEMMA FoundImpliesUnique == NameIndexed => NamesUnique
  BY DEF NameIndexed, NamesUnique

(***************************************************************************)
(* Every contract with a name is found by it (contract_lookup_by_name),    *)
(* although the index by name has no undo: ContractEntry::store writes it  *)
(* and a pop leaves it, for any contracts and names, after any blocks,     *)
(* pops and restarts.                                                      *)
(***************************************************************************)
THEOREM NamesFound == Spec => []NameIndexed
<1>1. QED BY SpecInv, IndexImpliesFound, PTL

(***************************************************************************)
(* No two contracts ever have the same name: UpgradeContractOperation      *)
(* refuses a name on the word of an index that is never repaired.          *)
(***************************************************************************)
THEOREM NamesStayUnique == Spec => []NamesUnique
<1>1. QED BY SpecInv, IndexImpliesFound, FoundImpliesUnique, PTL

-----------------------------------------------------------------------------
(* Only a pop makes the chain shorter. *)
LEMMA OnlyPopShortens ==
  ASSUME TablesInv, [Next]_vars, Len(undo') < Len(undo)
  PROVE  PopBlock
<1>1. undo \in Seq(UndoType) /\ Len(undo) \in Nat
  BY DEF TablesInv, ShapeInv
<1>2. undo' # undo
  BY <1>1
<1>3. ~ApplyBlock
  <2>1. SUFFICES ASSUME ApplyBlock PROVE FALSE
    OBVIOUS
  <2>2. get_undo_state(pending, db) \in UndoType
    BY UndoShape DEF TablesInv, ShapeInv
  <2>3. undo' = Append(undo, get_undo_state(pending, db))
    BY <2>1 DEF ApplyBlock
  <2>4. Len(undo') = Len(undo) + 1
    BY <1>1, <2>2, <2>3
  <2>5. QED BY <1>1, <2>4
<1>4. ~Restart
  <2>1. SUFFICES ASSUME Restart PROVE FALSE
    OBVIOUS
  <2>2. undo' = [i \in 1..Len(undo) |-> reloaded(undo[i])]
    BY <1>1, <2>1 DEF Restart
  <2>3. Len(undo') = Len(undo)
    BY <1>1, <2>2
  <2>4. QED BY <1>1, <2>3
<1>5. \A o : Evaluate(o) => undo' = undo
  BY DEF Evaluate
<1>6. QED
  BY <1>2, <1>3, <1>4, <1>5
     DEF Next, vars, RegisterContract, CallContract, TransferContract, Deposit,
         UpgradeContract, DestroyContract, ExecutionFails, RejectBlock

(***************************************************************************)
(* Popping a block brings back the entries and balances below it, and the  *)
(* index by registering transaction unless the node was restarted in       *)
(* between (pop_block applying what get_undo_state saved).                 *)
(***************************************************************************)
THEOREM TablesComeBack == Spec => TablesRevert
<1>1. ASSUME TablesInv, [Next]_vars, Popped
      PROVE  /\ db'.entry = Below.entry /\ db'.money = Below.money
             /\ past[Len(past)].fresh => db'.trx = Below.trx
  <2>1. PopBlock
    BY <1>1, OnlyPopShortens DEF Popped
  <2>2. QED BY <1>1, <2>1, PopReverts DEF Below
<1>2. QED BY <1>1, SpecInv, PTL DEF Spec, TablesRevert

(***************************************************************************)
(* Popping a block brings back every storage but the first one of a        *)
(* contract that was there before (contractstorage_erase_from_id_map).     *)
(***************************************************************************)
THEOREM StorageComesBack == Spec => StorageReverts
<1>1. ASSUME TablesInv, [Next]_vars, Popped
      PROVE  \A c \in Contract :
               \/ db'.storage[c] = Below.storage[c]
               \/ /\ Below.storage[c] = Absent /\ Below.entry[c] # Absent
                  /\ db'.storage[c] = db.storage[c]
  <2>1. PopBlock
    BY <1>1, OnlyPopShortens DEF Popped
  <2>2. QED BY <1>1, <2>1, PopReverts DEF Below
<1>2. QED BY <1>1, SpecInv, PTL DEF Spec, StorageReverts

-----------------------------------------------------------------------------
Amount(b) == IF b = Absent THEN 0 ELSE b

(* What a contract with entry e has to hold: g as its margin, v in its       *)
(* balance, where ordinary deposits left q and r out of reach.               *)
Held(e) == IF e # Absent /\ e.level = "temp" /\ e.state = "valid" THEN Margin ELSE 0
Settled(e, g, v, q, r) ==
  /\ g = q + Held(e)
  /\ IF e = Absent \/ e.state = "deleted" THEN v = r ELSE r = 0

TableMoney(t, w) ==
  /\ \A c \in Contract :
       Settled(t.entry[c], Amount(t.money[margin_id(c)]), Amount(t.money[balance_id(c)]),
               w[margin_id(c)], w[balance_id(c)])
  /\ \A k \in BalanceId : Amount(t.money[k]) >= 0

(* No balance is overdrawn, in the tables or in the block being evaluated. *)
NoneOverdrawn == \A k \in BalanceId : balance(pending.money, k) >= 0

PendingMoney ==
  /\ \A c \in Contract :
       Settled(contract_lookup_by_id(c), balance(pending.money, margin_id(c)),
               balance(pending.money, balance_id(c)),
               stranded[margin_id(c)], stranded[balance_id(c)])
  /\ NoneOverdrawn

Stranding == [BalanceId -> Int]

MoneyInv ==
  /\ stranded \in Stranding /\ stranded_at \in Seq(Stranding)
  /\ Len(stranded_at) = Len(past) + 1
  /\ TableMoney(db, stranded_at[Len(past) + 1])
  /\ PendingMoney
  /\ \A i \in 1..Len(past) : TableMoney(past[i].tables, stranded_at[i])

-----------------------------------------------------------------------------
(* The balances after money is moved                                       *)

LEMMA DistinctIds ==
  /\ Owner # CollectedFees
  /\ \A c \in Contract : /\ margin_id(c) # Owner /\ margin_id(c) # CollectedFees
                         /\ balance_id(c) # Owner /\ balance_id(c) # CollectedFees
  /\ \A c, d \in Contract : /\ margin_id(c) # balance_id(d)
                            /\ margin_id(c) = margin_id(d) => c = d
                            /\ balance_id(c) = balance_id(d) => c = d
<1>1. \A c, d \in Contract : margin_id(c) # balance_id(d)
  BY DEF margin_id, balance_id
<1>2. \A c, d \in Contract : /\ margin_id(c) = margin_id(d) => c = d
                             /\ balance_id(c) = balance_id(d) => c = d
  BY DEF margin_id, balance_id
<1>3. QED BY <1>1, <1>2, BalanceAssumption

LEMMA InsertBalance ==
  ASSUME NEW o \in MoneyOverlay, NEW k \in BalanceId, NEW j \in BalanceId, NEW v \in Int
  PROVE  balance(M!insert(o, k, v), j) = IF j = k THEN v ELSE balance(o, j)
<1>1. v # Absent
  BY BalanceAssumption
<1>2. o.remove = {} /\ o.store \in MoneyTable
  BY DEF MoneyOverlay
<1>3. /\ M!insert(o, k, v).store = [o.store EXCEPT ![k] = v]
      /\ M!insert(o, k, v).remove = {}
  BY <1>2 DEF M!insert
<1>4. M!lookup(M!insert(o, k, v), db.money, j) = IF j = k THEN v ELSE M!lookup(o, db.money, j)
  BY <1>1, <1>2, <1>3 DEF M!lookup, MoneyTable
<1>5. QED BY <1>1, <1>4 DEF balance

LEMMA MoveBalance ==
  ASSUME ShapeInv, NEW o \in MoneyOverlay, NEW k \in BalanceId, NEW amount \in Int
  PROVE  \A j \in BalanceId :
           /\ balance(deposit(o, k, amount), j) =
                IF j = k THEN balance(o, k) + amount ELSE balance(o, j)
           /\ balance(withdraw(o, k, amount), j) =
                IF j = k THEN balance(o, k) - amount ELSE balance(o, j)
<1>1. balance(o, k) + amount \in Int /\ balance(o, k) - amount \in Int
  BY BalanceInt
<1>2. QED BY <1>1, InsertBalance DEF deposit, withdraw

LEMMA ChargeBalance ==
  ASSUME ShapeInv, NEW o \in MoneyOverlay
  PROVE  \A j \in BalanceId :
           balance(charge(o), j) = IF j = Owner THEN balance(o, Owner) - Fee
                                   ELSE IF j = CollectedFees THEN balance(o, CollectedFees) + Fee
                                   ELSE balance(o, j)
<1>1. Fee \in Int
  BY MarginAssumption
<1>2. withdraw(o, Owner, Fee) \in MoneyOverlay
  BY <1>1, MoveMoney, BalanceIds
<1>3. \A j \in BalanceId : balance(withdraw(o, Owner, Fee), j) =
                             IF j = Owner THEN balance(o, Owner) - Fee ELSE balance(o, j)
  BY <1>1, MoveBalance, BalanceIds
<1>4. \A j \in BalanceId : balance(charge(o), j) =
                             IF j = CollectedFees
                             THEN balance(withdraw(o, Owner, Fee), CollectedFees) + Fee
                             ELSE balance(withdraw(o, Owner, Fee), j)
  BY <1>1, <1>2, MoveBalance, BalanceIds DEF charge
<1>5. QED BY <1>3, <1>4, BalanceIds, DistinctIds

(* A payment of the owner's fee and of amount from one balance to another *)
LEMMA PayBalance ==
  ASSUME ShapeInv, NEW o \in MoneyOverlay, NEW from \in BalanceId, NEW to \in BalanceId,
         from # to, NEW amount \in Int
  PROVE  LET p == deposit(withdraw(charge(o), from, amount), to, amount) IN
         /\ p \in MoneyOverlay
         /\ \A j \in BalanceId :
              balance(p, j) = IF j = to THEN balance(charge(o), to) + amount
                              ELSE IF j = from THEN balance(charge(o), from) - amount
                              ELSE balance(charge(o), j)
<1>1. charge(o) \in MoneyOverlay
  BY ChargeMoney
<1>2. withdraw(charge(o), from, amount) \in MoneyOverlay
  BY <1>1, MoveMoney
<1>3. \A j \in BalanceId : balance(withdraw(charge(o), from, amount), j) =
        IF j = from THEN balance(charge(o), from) - amount ELSE balance(charge(o), j)
  BY <1>1, MoveBalance
<1>4. QED BY <1>2, <1>3, MoveBalance, MoveMoney

-----------------------------------------------------------------------------
(* Evaluating a transaction                                                *)

EntryOf(o, c) == IF o.entry.store[c] # Absent THEN o.entry.store[c] ELSE db.entry[c]

(* A transaction keeps the invariant when its overlay does. *)
LEMMA EvaluateMoney ==
  ASSUME MoneyInv, TablesInv, TablesInv', NEW o, Evaluate(o), stranded' \in Stranding,
         \A c \in Contract : Settled(EntryOf(o, c), balance(o.money, margin_id(c)),
                                     balance(o.money, balance_id(c)),
                                     stranded'[margin_id(c)], stranded'[balance_id(c)]),
         \A k \in BalanceId : balance(o.money, k) >= 0
  PROVE  MoneyInv'
<1>1. pending' = o /\ UNCHANGED <<db, undo, past, stranded_at>>
  BY DEF Evaluate
<1>2. \A c \in Contract : contract_lookup_by_id(c)' = EntryOf(o, c)
  BY <1>1, LookupPending DEF TablesInv, EntryOf, contract_lookup_by_id, E!lookup, ShapeInv, PendingType
<1>3. \A k \in BalanceId : balance(pending.money, k)' = balance(o.money, k)
  BY <1>1 DEF balance, M!lookup
<1>4. PendingMoney'
  BY <1>1, <1>2, <1>3, BalanceIds DEF PendingMoney, NoneOverdrawn
<1>5. QED BY <1>1, <1>4 DEF MoneyInv, TableMoney

(* A transaction that leaves the entries and all margins alone keeps the   *)
(* invariant if the balances of contracts that are gone stay as they are.  *)
LEMMA KeepEntriesMoney ==
  ASSUME MoneyInv, TablesInv, TablesInv', NEW o, Evaluate(o), o.entry = pending.entry,
         UNCHANGED stranded,
         \A c \in Contract :
           /\ balance(o.money, margin_id(c)) = balance(pending.money, margin_id(c))
           /\ \/ balance(o.money, balance_id(c)) = balance(pending.money, balance_id(c))
              \/ contract_lookup_by_id(c) # Absent /\ contract_lookup_by_id(c).state # "deleted",
         \A k \in BalanceId : balance(o.money, k) >= 0
  PROVE  MoneyInv'
<1>1. \A c \in Contract : EntryOf(o, c) = contract_lookup_by_id(c)
  BY LookupPending DEF TablesInv, EntryOf
<1>2. \A c \in Contract : Settled(EntryOf(o, c), balance(o.money, margin_id(c)),
                                  balance(o.money, balance_id(c)),
                                  stranded'[margin_id(c)], stranded'[balance_id(c)])
  BY <1>1 DEF MoneyInv, PendingMoney, Settled
<1>3. stranded' \in Stranding
  BY DEF MoneyInv
<1>4. QED BY <1>2, <1>3, EvaluateMoney

(* A transaction that stores the entry e of contract c keeps the invariant *)
(* if the balances of c suit e and those of all others are left alone.     *)
LEMMA StoreEntryMoney ==
  ASSUME MoneyInv, TablesInv, TablesInv', NEW o, Evaluate(o), stranded' \in Stranding,
         NEW c \in Contract, NEW e \in ContractEntry, o.entry.store[c] = e,
         \A d \in Contract \ {c} :
           /\ o.entry.store[d] = pending.entry.store[d]
           /\ balance(o.money, margin_id(d)) = balance(pending.money, margin_id(d))
           /\ balance(o.money, balance_id(d)) = balance(pending.money, balance_id(d))
           /\ stranded'[margin_id(d)] = stranded[margin_id(d)]
           /\ stranded'[balance_id(d)] = stranded[balance_id(d)],
         Settled(e, balance(o.money, margin_id(c)), balance(o.money, balance_id(c)),
                 stranded'[margin_id(c)], stranded'[balance_id(c)]),
         \A k \in BalanceId : balance(o.money, k) >= 0
  PROVE  MoneyInv'
<1>1. EntryOf(o, c) = e
  BY AbsentAssumption DEF EntryOf
<1>2. \A d \in Contract \ {c} : EntryOf(o, d) = contract_lookup_by_id(d)
  BY LookupPending DEF TablesInv, EntryOf
<1>3. \A d \in Contract : Settled(EntryOf(o, d), balance(o.money, margin_id(d)),
                                  balance(o.money, balance_id(d)),
                                  stranded'[margin_id(d)], stranded'[balance_id(d)])
  BY <1>1, <1>2 DEF MoneyInv, PendingMoney
<1>4. QED BY <1>3, EvaluateMoney

LEMMA FailMoney ==
  ASSUME MoneyInv, TablesInv, TablesInv', ExecutionFails
  PROVE  MoneyInv'
<1> DEFINE o == [pending EXCEPT !.money = charge(pending.money)]
<1>1. pending \in PendingType /\ pending.money \in MoneyOverlay /\ ShapeInv
  BY DEF TablesInv, ShapeInv, PendingType, MoneyOverlay
<1>2. o.entry = pending.entry /\ o.money = charge(pending.money)
  BY <1>1 DEF PendingType
<1>3. Evaluate(o) /\ balance(pending.money, Owner) >= Fee /\ UNCHANGED stranded
  BY DEF ExecutionFails
<1>4. \A j \in BalanceId : balance(pending.money, j) \in Int /\ balance(pending.money, j) >= 0
  BY <1>1, BalanceInt DEF MoneyInv, PendingMoney, NoneOverdrawn
<1>5. \A k \in BalanceId : balance(o.money, k) >= 0
  BY <1>1, <1>2, <1>3, <1>4, ChargeBalance, BalanceIds, MarginAssumption
<1>6. \A c \in Contract :
        /\ balance(o.money, margin_id(c)) = balance(pending.money, margin_id(c))
        /\ balance(o.money, balance_id(c)) = balance(pending.money, balance_id(c))
  BY <1>1, <1>2, ChargeBalance, BalanceIds, DistinctIds
<1> HIDE DEF o
<1>7. QED BY <1>2, <1>3, <1>5, <1>6, KeepEntriesMoney

LEMMA CallMoney ==
  ASSUME MoneyInv, TablesInv, TablesInv', NEW c \in Contract,
         NEW s \in Storage \union {Absent}, NEW amount \in 0..Supply,
         CallContract(c, s, amount)
  PROVE  MoneyInv'
<1> DEFINE p == pending.money
           paid == deposit(withdraw(charge(p), balance_id(c), amount), Owner, amount)
           m == IF amount = 0 THEN charge(p) ELSE paid
           o == [pending EXCEPT !.money = m]
<1>1. pending \in PendingType /\ p \in MoneyOverlay /\ ShapeInv /\ amount \in Nat
  BY MarginAssumption DEF TablesInv, ShapeInv, PendingType, MoneyOverlay
<1>2. m \in MoneyOverlay
  BY <1>1, ChargeMoney, MoveMoney, BalanceIds
<1>3. o \in PendingType /\ o.entry = pending.entry /\ o.money = m
  BY <1>1, <1>2 DEF PendingType, MoneyOverlay
<1>4. /\ Evaluate(Executed(o, c, s)) /\ UNCHANGED stranded
      /\ contract_lookup_by_id(c) # Absent /\ contract_lookup_by_id(c).state # "deleted"
      /\ balance(p, Owner) >= Fee /\ amount <= balance(p, balance_id(c))
  BY <1>1 DEF CallContract
<1>5. \A j \in BalanceId : balance(p, j) \in Int /\ balance(p, j) >= 0
  BY <1>1, BalanceInt DEF MoneyInv, PendingMoney, NoneOverdrawn
<1>6. \A j \in BalanceId : balance(charge(p), j) =
        IF j = Owner THEN balance(p, Owner) - Fee
        ELSE IF j = CollectedFees THEN balance(p, CollectedFees) + Fee ELSE balance(p, j)
  BY <1>1, ChargeBalance
<1>7. \A j \in BalanceId : balance(paid, j) =
        IF j = Owner THEN balance(charge(p), Owner) + amount
        ELSE IF j = balance_id(c) THEN balance(charge(p), balance_id(c)) - amount
        ELSE balance(charge(p), j)
  <2> HIDE DEF p
  <2>1. QED BY <1>1, PayBalance, BalanceIds, DistinctIds
<1> HIDE DEF paid, p
<1>8. \A k \in BalanceId : balance(m, k) >= 0
  BY <1>1, <1>4, <1>5, <1>6, <1>7, BalanceIds, DistinctIds, MarginAssumption
<1>9. \A d \in Contract :
        /\ balance(m, margin_id(d)) = balance(p, margin_id(d))
        /\ d = c \/ balance(m, balance_id(d)) = balance(p, balance_id(d))
  BY <1>1, <1>6, <1>7, BalanceIds, DistinctIds
<1> HIDE DEF o, m
<1>10. Executed(o, c, s).entry = o.entry /\ Executed(o, c, s).money = o.money
  BY <1>3 DEF Executed, store_contractstorage_entry, PendingType
<1>11. QED BY <1>3, <1>4, <1>8, <1>9, <1>10, KeepEntriesMoney DEF p

LEMMA TransferMoney ==
  ASSUME MoneyInv, TablesInv, TablesInv', NEW c \in Contract, NEW amount \in 1..Supply,
         TransferContract(c, amount)
  PROVE  MoneyInv'
<1> DEFINE p == pending.money
           m == deposit(withdraw(charge(p), Owner, amount), balance_id(c), amount)
           o == [pending EXCEPT !.money = m]
<1>1. pending \in PendingType /\ p \in MoneyOverlay /\ ShapeInv /\ amount \in Nat
  BY MarginAssumption DEF TablesInv, ShapeInv, PendingType, MoneyOverlay
<1>2. o.entry = pending.entry /\ o.money = m
  BY <1>1 DEF PendingType
<1>3. /\ Evaluate(o) /\ UNCHANGED stranded
      /\ contract_lookup_by_id(c) # Absent /\ contract_lookup_by_id(c).state # "deleted"
      /\ balance(p, Owner) >= Fee + amount
  BY <1>1 DEF TransferContract
<1>4. \A j \in BalanceId : balance(p, j) \in Int /\ balance(p, j) >= 0
  BY <1>1, BalanceInt DEF MoneyInv, PendingMoney, NoneOverdrawn
<1>5. \A j \in BalanceId : balance(charge(p), j) =
        IF j = Owner THEN balance(p, Owner) - Fee
        ELSE IF j = CollectedFees THEN balance(p, CollectedFees) + Fee ELSE balance(p, j)
  BY <1>1, ChargeBalance
<1>6. \A j \in BalanceId : balance(m, j) =
        IF j = balance_id(c) THEN balance(charge(p), balance_id(c)) + amount
        ELSE IF j = Owner THEN balance(charge(p), Owner) - amount
        ELSE balance(charge(p), j)
  <2> HIDE DEF p
  <2>1. QED BY <1>1, PayBalance, BalanceIds, DistinctIds
<1> HIDE DEF m, p
<1>7. \A k \in BalanceId : balance(m, k) >= 0
  BY <1>1, <1>3, <1>4, <1>5, <1>6, BalanceIds, DistinctIds, MarginAssumption
<1>8. \A d \in Contract :
        /\ balance(m, margin_id(d)) = balance(p, margin_id(d))
        /\ d = c \/ balance(m, balance_id(d)) = balance(p, balance_id(d))
  BY <1>1, <1>5, <1>6, BalanceIds, DistinctIds
<1> HIDE DEF o
<1>9. QED BY <1>2, <1>3, <1>7, <1>8, KeepEntriesMoney DEF p

(* An ordinary deposit leaves its amount out of reach, or in reach of the  *)
(* calls of a contract.                                                    *)
LEMMA DepositMoney ==
  ASSUME MoneyInv, TablesInv, TablesInv', NEW c \in Contract,
         NEW k \in contract_balances(c), NEW amount \in 1..Supply, Deposit(c, k, amount)
  PROVE  MoneyInv'
<1> DEFINE p == pending.money
           m == deposit(withdraw(charge(p), Owner, amount), k, amount)
           o == [pending EXCEPT !.money = m]
<1>1. /\ pending \in PendingType /\ p \in MoneyOverlay /\ ShapeInv /\ amount \in Nat
      /\ stranded \in Stranding
  BY MarginAssumption DEF TablesInv, ShapeInv, PendingType, MoneyOverlay, MoneyInv
<1>2. o.entry = pending.entry /\ o.money = m
  BY <1>1 DEF PendingType
<1>3. /\ Evaluate(o) /\ balance(p, Owner) >= Fee + amount
      /\ stranded' = IF k = balance_id(c) /\ InReach(c) THEN stranded
                     ELSE [stranded EXCEPT ![k] = @ + amount]
  BY <1>1 DEF Deposit
<1>4. \A j \in BalanceId : balance(p, j) \in Int /\ balance(p, j) >= 0
  BY <1>1, BalanceInt DEF MoneyInv, PendingMoney, NoneOverdrawn
<1>5. \A j \in BalanceId : balance(charge(p), j) =
        IF j = Owner THEN balance(p, Owner) - Fee
        ELSE IF j = CollectedFees THEN balance(p, CollectedFees) + Fee ELSE balance(p, j)
  BY <1>1, ChargeBalance
<1>6. /\ k \in BalanceId /\ k # Owner /\ k # CollectedFees
      /\ k = margin_id(c) \/ k = balance_id(c)
  BY BalanceIds, DistinctIds DEF contract_balances
<1>7. \A j \in BalanceId : balance(m, j) =
        IF j = k THEN balance(charge(p), k) + amount
        ELSE IF j = Owner THEN balance(charge(p), Owner) - amount
        ELSE balance(charge(p), j)
  <2> HIDE DEF p
  <2>1. QED BY <1>1, <1>6, PayBalance, BalanceIds
<1> HIDE DEF m, p
<1>8. \A j \in BalanceId : balance(m, j) >= 0
  BY <1>1, <1>3, <1>4, <1>5, <1>6, <1>7, BalanceIds, DistinctIds, MarginAssumption
<1>9. \A j \in BalanceId \ {Owner, CollectedFees} :
        balance(m, j) = IF j = k THEN balance(p, j) + amount ELSE balance(p, j)
  BY <1>4, <1>5, <1>6, <1>7
<1>10. /\ stranded' \in Stranding
       /\ \A j \in BalanceId : j # k => stranded'[j] = stranded[j]
       /\ stranded'[k] = IF k = balance_id(c) /\ InReach(c) THEN stranded[k]
                         ELSE stranded[k] + amount
  BY <1>1, <1>3, <1>6 DEF Stranding
<1>11. \A d \in Contract : EntryOf(o, d) = contract_lookup_by_id(d)
  <2> HIDE DEF o
  <2>1. QED BY <1>2, LookupPending DEF TablesInv, EntryOf
<1>12. ASSUME NEW d \in Contract
       PROVE  Settled(EntryOf(o, d), balance(m, margin_id(d)), balance(m, balance_id(d)),
                      stranded'[margin_id(d)], stranded'[balance_id(d)])
  <2> HIDE DEF o
  <2> DEFINE e == contract_lookup_by_id(d)
  <2>1. /\ Settled(e, balance(p, margin_id(d)), balance(p, balance_id(d)),
                   stranded[margin_id(d)], stranded[balance_id(d)])
        /\ InReach(d) <=> ~(e = Absent \/ e.state = "deleted")
        /\ Held(e) \in Int
    BY MarginAssumption DEF MoneyInv, PendingMoney, InReach, Held, p
  <2>2. /\ margin_id(d) \in BalanceId \ {Owner, CollectedFees}
        /\ balance_id(d) \in BalanceId \ {Owner, CollectedFees}
        /\ margin_id(d) = k <=> (d = c /\ k = margin_id(c))
        /\ balance_id(d) = k <=> (d = c /\ k = balance_id(c))
    BY <1>6, BalanceIds, DistinctIds
  <2>3. /\ balance(p, margin_id(d)) \in Int /\ balance(p, balance_id(d)) \in Int
        /\ stranded[margin_id(d)] \in Int /\ stranded[balance_id(d)] \in Int
    BY <1>1, <1>4, <2>2 DEF Stranding
  <2> HIDE DEF e
  <2>4. /\ balance(m, margin_id(d)) = stranded'[margin_id(d)] + Held(e)
        /\ IF InReach(d) THEN stranded'[balance_id(d)] = 0
           ELSE balance(m, balance_id(d)) = stranded'[balance_id(d)]
    <3>1. CASE d = c /\ k = margin_id(c)
      BY <3>1, <1>1, <1>9, <1>10, <2>1, <2>2, <2>3, DistinctIds DEF Settled
    <3>2. CASE d = c /\ k = balance_id(c)
      BY <3>2, <1>1, <1>9, <1>10, <2>1, <2>2, <2>3, DistinctIds DEF Settled
    <3>3. CASE d # c
      BY <3>3, <1>9, <1>10, <2>1, <2>2, <2>3 DEF Settled
    <3>4. QED BY <1>6, <3>1, <3>2, <3>3
  <2>5. QED BY <1>11, <2>1, <2>4 DEF Settled, e
<1> HIDE DEF o
<1>13. QED BY <1>2, <1>3, <1>8, <1>10, <1>12, EvaluateMoney

LEMMA RegisterMoney ==
  ASSUME MoneyInv, TablesInv, TablesInv', NEW c \in Contract,
         NEW s \in Storage \union {Absent}, RegisterContract(c, s)
  PROVE  MoneyInv'
<1> DEFINE e == [level |-> "temp", state |-> "valid", contract_name |-> NoName]
           p == pending.money
           m == deposit(withdraw(charge(p), Owner, Margin), margin_id(c), Margin)
           stored == store_contract_entry(pending, c, e)
           o == [stored EXCEPT !.money = m, !.trx = T!insert(pending.trx, c, "trx")]
<1>1. e \in ContractEntry
  BY DEF ContractEntry
<1>2. pending \in PendingType /\ p \in MoneyOverlay /\ ShapeInv /\ Margin \in Nat
  BY MarginAssumption DEF TablesInv, ShapeInv, PendingType, MoneyOverlay
<1>3. /\ stored \in PendingType /\ stored.money = p /\ stored.trx = pending.trx
      /\ stored.entry.store[c] = e
      /\ \A d \in Contract \ {c} : stored.entry.store[d] = pending.entry.store[d]
  <2> HIDE DEF e
  <2>1. QED BY <1>1, <1>2 DEF store_contract_entry, E!insert, E!Table, PendingType, NameMap, ContractEntry
<1>4. /\ contract_lookup_by_id(c) = Absent /\ balance(p, Owner) >= Margin + Fee
      /\ Evaluate(Executed(o, c, s))
      /\ stranded' = [stranded EXCEPT ![balance_id(c)] = 0]
  BY <1>3 DEF RegisterContract
<1>5. \A j \in BalanceId : balance(p, j) \in Int /\ balance(p, j) >= 0
  BY <1>2, BalanceInt DEF MoneyInv, PendingMoney, NoneOverdrawn
<1>6. \A j \in BalanceId : balance(charge(p), j) =
        IF j = Owner THEN balance(p, Owner) - Fee
        ELSE IF j = CollectedFees THEN balance(p, CollectedFees) + Fee ELSE balance(p, j)
  BY <1>2, ChargeBalance
<1>7. /\ m \in MoneyOverlay
      /\ \A j \in BalanceId : balance(m, j) =
           IF j = margin_id(c) THEN balance(charge(p), margin_id(c)) + Margin
           ELSE IF j = Owner THEN balance(charge(p), Owner) - Margin
           ELSE balance(charge(p), j)
  <2> HIDE DEF p
  <2>1. QED BY <1>2, PayBalance, BalanceIds, DistinctIds
<1>8. T!insert(pending.trx, c, "trx") \in [store : T!Table, remove : {{}}]
  BY <1>2 DEF T!insert, T!Table, PendingType
<1> HIDE DEF m, stored
<1>9. o \in PendingType /\ o.entry = stored.entry /\ o.money = m
  BY <1>3, <1>7, <1>8 DEF PendingType, MoneyOverlay
<1> HIDE DEF o
<1>10. Executed(o, c, s).entry = o.entry /\ Executed(o, c, s).money = o.money
  BY <1>9 DEF Executed, store_contractstorage_entry, PendingType
<1>11. /\ stranded \in Stranding /\ stranded[margin_id(c)] \in Int
       /\ balance(p, margin_id(c)) = stranded[margin_id(c)]
  BY <1>4, BalanceIds DEF MoneyInv, PendingMoney, Settled, Held, Stranding
<1> HIDE DEF p
<1>12. \A k \in BalanceId : balance(m, k) >= 0
  BY <1>2, <1>4, <1>5, <1>6, <1>7, BalanceIds, DistinctIds, MarginAssumption
<1>13. \A d \in Contract \ {c} :
         /\ balance(m, margin_id(d)) = balance(p, margin_id(d))
         /\ balance(m, balance_id(d)) = balance(p, balance_id(d))
  BY <1>6, <1>7, BalanceIds, DistinctIds
<1>14. balance(m, margin_id(c)) = stranded[margin_id(c)] + Margin
  BY <1>2, <1>6, <1>7, <1>11, BalanceIds, DistinctIds
<1>15. /\ stranded' \in Stranding
       /\ \A j \in BalanceId : stranded'[j] = IF j = balance_id(c) THEN 0 ELSE stranded[j]
  BY <1>4, <1>11, BalanceIds DEF Stranding
<1>16. \A d \in Contract : /\ stranded'[margin_id(d)] = stranded[margin_id(d)]
                           /\ d # c => stranded'[balance_id(d)] = stranded[balance_id(d)]
                           /\ d = c => stranded'[balance_id(d)] = 0
  BY <1>15, BalanceIds, DistinctIds
<1>17. Settled(e, balance(m, margin_id(c)), balance(m, balance_id(c)),
               stranded'[margin_id(c)], stranded'[balance_id(c)])
  BY <1>1, <1>14, <1>16, AbsentAssumption DEF Settled, Held
<1> HIDE DEF e
<1>18. /\ Executed(o, c, s).entry.store[c] = e /\ Executed(o, c, s).money = m
       /\ \A d \in Contract \ {c} : Executed(o, c, s).entry.store[d] = pending.entry.store[d]
  BY <1>3, <1>9, <1>10
<1>19. QED
  BY <1>1, <1>4, <1>12, <1>13, <1>15, <1>16, <1>17, <1>18, StoreEntryMoney DEF p

LEMMA UpgradeMoney ==
  ASSUME MoneyInv, TablesInv, TablesInv', NEW c \in Contract, NEW n \in ContractName,
         UpgradeContract(c, n)
  PROVE  MoneyInv'
<1> DEFINE old == contract_lookup_by_id(c)
           e == [old EXCEPT !.level = "forever", !.contract_name = n]
           p == pending.money
           m == deposit(withdraw(charge(p), margin_id(c), Margin), CollectedFees, Margin)
           stored == store_contract_entry(pending, c, e)
           o == [stored EXCEPT !.money = m]
<1>1. /\ old # Absent /\ old.level = "temp" /\ old.state # "deleted"
      /\ balance(p, margin_id(c)) = Margin /\ balance(p, Owner) >= Fee
  BY DEF UpgradeContract, TemporaryWithMargin
<1>2. e \in ContractEntry /\ e.level = "forever" /\ e.state # "deleted"
  BY <1>1, LookupEntry DEF ContractEntry
<1>3. pending \in PendingType /\ p \in MoneyOverlay /\ ShapeInv /\ Margin \in Nat
  BY MarginAssumption DEF TablesInv, ShapeInv, PendingType, MoneyOverlay
<1>4. /\ stored \in PendingType /\ stored.money = p
      /\ stored.entry.store[c] = e
      /\ \A d \in Contract \ {c} : stored.entry.store[d] = pending.entry.store[d]
  <2> HIDE DEF e
  <2>1. QED BY <1>2, <1>3 DEF store_contract_entry, E!insert, E!Table, PendingType, NameMap, ContractEntry
<1>5. Evaluate(o) /\ UNCHANGED stranded
  BY <1>4 DEF UpgradeContract
<1>6. \A j \in BalanceId : balance(p, j) \in Int /\ balance(p, j) >= 0
  BY <1>3, BalanceInt DEF MoneyInv, PendingMoney, NoneOverdrawn
<1>7. \A j \in BalanceId : balance(charge(p), j) =
        IF j = Owner THEN balance(p, Owner) - Fee
        ELSE IF j = CollectedFees THEN balance(p, CollectedFees) + Fee ELSE balance(p, j)
  BY <1>3, ChargeBalance
<1>8. \A j \in BalanceId : balance(m, j) =
        IF j = CollectedFees THEN balance(charge(p), CollectedFees) + Margin
        ELSE IF j = margin_id(c) THEN balance(charge(p), margin_id(c)) - Margin
        ELSE balance(charge(p), j)
  <2> HIDE DEF p
  <2>1. QED BY <1>3, PayBalance, BalanceIds, DistinctIds
<1>9. o.entry = stored.entry /\ o.money = m
  <2> HIDE DEF m, stored
  <2>1. QED BY <1>4 DEF PendingType
<1> HIDE DEF m, stored, o, p
<1>10. \A k \in BalanceId : balance(m, k) >= 0
  BY <1>1, <1>3, <1>6, <1>7, <1>8, BalanceIds, DistinctIds, MarginAssumption
<1>11. \A d \in Contract \ {c} :
         /\ balance(m, margin_id(d)) = balance(p, margin_id(d))
         /\ balance(m, balance_id(d)) = balance(p, balance_id(d))
  BY <1>7, <1>8, BalanceIds, DistinctIds
<1>12. balance(m, margin_id(c)) = 0
  BY <1>1, <1>3, <1>7, <1>8, BalanceIds, DistinctIds
<1>13. /\ stranded[margin_id(c)] = 0 /\ stranded[balance_id(c)] = 0
       /\ stranded \in Stranding
  BY <1>1, <1>3, BalanceIds, LookupEntry
     DEF MoneyInv, PendingMoney, Settled, Held, Stranding, ContractEntry, p
<1> HIDE DEF e
<1>14. Settled(e, balance(m, margin_id(c)), balance(m, balance_id(c)),
               stranded'[margin_id(c)], stranded'[balance_id(c)])
  BY <1>2, <1>5, <1>12, <1>13, AbsentAssumption DEF Settled, Held
<1>15. QED BY <1>2, <1>4, <1>5, <1>9, <1>10, <1>11, <1>13, <1>14, StoreEntryMoney DEF p

LEMMA DestroyMoney ==
  ASSUME MoneyInv, TablesInv, TablesInv', NEW c \in Contract, DestroyContract(c)
  PROVE  MoneyInv'
<1> DEFINE old == contract_lookup_by_id(c)
           e == [old EXCEPT !.state = "deleted"]
           p == pending.money
           back == deposit(withdraw(charge(p), margin_id(c), Margin), Owner, Margin)
           left == balance(back, balance_id(c))
           m == destroy_balance(back, c)
           stored == store_contract_entry(pending, c, e)
           o == [stored EXCEPT !.money = m]
<1>1. /\ old # Absent /\ old.level = "temp" /\ old.state # "deleted"
      /\ balance(p, margin_id(c)) = Margin /\ balance(p, Owner) >= Fee
  BY DEF DestroyContract, TemporaryWithMargin
<1>2. e \in ContractEntry /\ e.state = "deleted"
  BY <1>1, LookupEntry DEF ContractEntry
<1>3. pending \in PendingType /\ p \in MoneyOverlay /\ ShapeInv /\ Margin \in Nat
  BY MarginAssumption DEF TablesInv, ShapeInv, PendingType, MoneyOverlay
<1>4. /\ stored \in PendingType /\ stored.money = p
      /\ stored.entry.store[c] = e
      /\ \A d \in Contract \ {c} : stored.entry.store[d] = pending.entry.store[d]
  <2> HIDE DEF e
  <2>1. QED BY <1>2, <1>3 DEF store_contract_entry, E!insert, E!Table, PendingType, NameMap, ContractEntry
<1>5. Evaluate(o) /\ UNCHANGED stranded
  BY <1>4 DEF DestroyContract
<1>6. \A j \in BalanceId : balance(p, j) \in Int /\ balance(p, j) >= 0
  BY <1>3, BalanceInt DEF MoneyInv, PendingMoney, NoneOverdrawn
<1>7. \A j \in BalanceId : balance(charge(p), j) =
        IF j = Owner THEN balance(p, Owner) - Fee
        ELSE IF j = CollectedFees THEN balance(p, CollectedFees) + Fee ELSE balance(p, j)
  BY <1>3, ChargeBalance
<1>8. /\ back \in MoneyOverlay
      /\ \A j \in BalanceId : balance(back, j) =
           IF j = Owner THEN balance(charge(p), Owner) + Margin
           ELSE IF j = margin_id(c) THEN balance(charge(p), margin_id(c)) - Margin
           ELSE balance(charge(p), j)
  <2> HIDE DEF p
  <2>1. QED BY <1>3, PayBalance, BalanceIds, DistinctIds
<1>9. o.entry = stored.entry /\ o.money = m
  <2> HIDE DEF m, stored
  <2>1. QED BY <1>4 DEF PendingType
<1>0. /\ stranded[margin_id(c)] = 0 /\ stranded[balance_id(c)] = 0
      /\ stranded \in Stranding
  BY <1>1, <1>3, BalanceIds, LookupEntry
     DEF MoneyInv, PendingMoney, Settled, Held, Stranding, ContractEntry
<1> HIDE DEF stored, o, back, p
<1>10. \A j \in BalanceId : balance(back, j) \in Int /\ balance(back, j) >= 0
  BY <1>1, <1>3, <1>6, <1>7, <1>8, BalanceIds, DistinctIds, MarginAssumption
<1>11. /\ \A d \in Contract \ {c} :
            /\ balance(back, margin_id(d)) = balance(p, margin_id(d))
            /\ balance(back, balance_id(d)) = balance(p, balance_id(d))
       /\ balance(back, margin_id(c)) = 0
  BY <1>1, <1>3, <1>7, <1>8, BalanceIds, DistinctIds
<1>12. CASE M!lookup(back, db.money, balance_id(c)) = Absent
  <2>1. m = back /\ balance(back, balance_id(c)) = 0
    BY <1>12 DEF destroy_balance, balance
  <2>2. Settled(e, balance(m, margin_id(c)), balance(m, balance_id(c)),
                stranded'[margin_id(c)], stranded'[balance_id(c)])
    BY <1>0, <1>2, <1>5, <1>11, <2>1 DEF Settled, Held
  <2> HIDE DEF e, m
  <2>3. QED BY <1>0, <1>2, <1>4, <1>5, <1>9, <1>10, <1>11, <2>1, <2>2, StoreEntryMoney DEF p
<1>13. CASE M!lookup(back, db.money, balance_id(c)) # Absent
  <2> DEFINE given == deposit(back, Owner, left)
  <2>1. left \in Int /\ left >= 0
    BY <1>10, BalanceIds
  <2> HIDE DEF left
  <2>2. /\ given \in MoneyOverlay
        /\ \A j \in BalanceId : balance(given, j) =
             IF j = Owner THEN balance(back, Owner) + left ELSE balance(back, j)
    BY <1>3, <1>8, <2>1, MoveMoney, MoveBalance, BalanceIds
  <2>3. m = M!insert(given, balance_id(c), 0)
    BY <1>13 DEF destroy_balance, left
  <2> HIDE DEF given
  <2>4. \A j \in BalanceId :
          balance(m, j) = IF j = balance_id(c) THEN 0 ELSE balance(given, j)
    BY <2>2, <2>3, InsertBalance, BalanceIds
  <2> HIDE DEF m
  <2>5. \A k \in BalanceId : balance(m, k) >= 0
    BY <1>10, <2>1, <2>2, <2>4, BalanceIds
  <2>6. \A d \in Contract \ {c} :
          /\ balance(m, margin_id(d)) = balance(p, margin_id(d))
          /\ balance(m, balance_id(d)) = balance(p, balance_id(d))
    BY <1>11, <2>2, <2>4, BalanceIds, DistinctIds
  <2>7. balance(m, margin_id(c)) = 0 /\ balance(m, balance_id(c)) = 0
    BY <1>11, <2>2, <2>4, BalanceIds, DistinctIds
  <2>8. Settled(e, balance(m, margin_id(c)), balance(m, balance_id(c)),
                stranded'[margin_id(c)], stranded'[balance_id(c)])
    BY <1>0, <1>2, <1>5, <2>7 DEF Settled, Held
  <2> HIDE DEF e
  <2>9. QED BY <1>0, <1>2, <1>4, <1>5, <1>9, <2>5, <2>6, <2>8, StoreEntryMoney DEF p
<1>14. QED BY <1>12, <1>13

-----------------------------------------------------------------------------
(* Steps of a whole block                                                  *)

(* With an empty overlay a block sees the tables. *)
LEMMA EmptyMoney ==
  ASSUME NEW t, t = db', pending' = EmptyOverlay, TableMoney(t, stranded')
  PROVE  PendingMoney'
<1>1. /\ pending'.entry.store = [c \in Contract |-> Absent] /\ pending'.entry.remove = {}
      /\ pending'.money.store = [k \in BalanceId |-> Absent] /\ pending'.money.remove = {}
  BY DEF EmptyOverlay, E!EmptyOverlay, M!EmptyOverlay
<1>2. \A c \in Contract : contract_lookup_by_id(c)' = t.entry[c]
  BY <1>1 DEF contract_lookup_by_id, E!lookup
<1>3. \A k \in BalanceId : balance(pending.money, k)' = Amount(t.money[k])
  BY <1>1 DEF balance, M!lookup, Amount
<1>4. QED BY <1>2, <1>3, BalanceIds DEF TableMoney, PendingMoney, NoneOverdrawn

(* Applying a block leaves in the tables what the block saw. *)
LEMMA AppliedMoney ==
  ASSUME TablesInv, PendingMoney
  PROVE  TableMoney(apply_changes(pending, db), stranded)
<1> DEFINE t == apply_changes(pending, db)
<1>1. \A c \in Contract : t.entry[c] = contract_lookup_by_id(c)
  BY AppliedEntries
<1>2. pending.money.remove = {}
  BY DEF TablesInv, ShapeInv, PendingType
<1>3. t.money = M!apply_changes(pending.money, db.money)
  BY DEF apply_changes
<1>4. \A k \in BalanceId : t.money[k] = M!lookup(pending.money, db.money, k)
  BY <1>2, <1>3 DEF M!apply_changes, M!touched, M!stored, M!lookup
<1>5. \A k \in BalanceId : Amount(t.money[k]) = balance(pending.money, k)
  BY <1>4 DEF Amount, balance
<1> HIDE DEF t
<1>6. TableMoney(t, stranded)
  BY <1>1, <1>5, BalanceIds DEF TableMoney, PendingMoney, NoneOverdrawn
<1>7. QED BY <1>6 DEF t

LEMMA ApplyMoney ==
  ASSUME MoneyInv, TablesInv, ApplyBlock
  PROVE  MoneyInv'
<1> DEFINE new == [tables |-> db, fresh |-> TRUE]
           n == Len(past)
<1>1. /\ past' = Append(past, new) /\ pending' = EmptyOverlay
      /\ stranded_at' = Append(stranded_at, stranded) /\ stranded' = stranded
  BY DEF ApplyBlock
<1>2. TableMoney(apply_changes(pending, db), stranded) /\ db' = apply_changes(pending, db)
  BY AppliedMoney DEF MoneyInv, ApplyBlock
<1>3. /\ past \in Seq(PastType) /\ n \in Nat /\ new \in PastType
      /\ stranded_at \in Seq(Stranding) /\ Len(stranded_at) = n + 1 /\ stranded \in Stranding
  BY DEF TablesInv, ShapeInv, PastType, MoneyInv
<1>4. /\ Len(past') = n + 1 /\ past'[n + 1] = new
      /\ \A i \in 1..n : past'[i] = past[i]
  <2> HIDE DEF new
  <2>1. QED BY <1>1, <1>3
<1>5. /\ stranded_at' \in Seq(Stranding) /\ Len(stranded_at') = n + 2
      /\ stranded_at'[n + 2] = stranded
      /\ \A i \in 1..(n + 1) : stranded_at'[i] = stranded_at[i]
  <2> DEFINE q == stranded_at
  <2>1. q \in Seq(Stranding) /\ Len(q) = n + 1
    BY <1>3
  <2> HIDE DEF q, n
  <2>2. /\ Append(q, stranded) \in Seq(Stranding) /\ Len(Append(q, stranded)) = n + 2
        /\ Append(q, stranded)[n + 2] = stranded
        /\ \A i \in 1..(n + 1) : Append(q, stranded)[i] = q[i]
    BY <1>3, <2>1
  <2>3. QED BY <1>1, <2>2 DEF q
<1>6. ASSUME NEW i \in 1..Len(past') PROVE TableMoney(past'[i].tables, stranded_at'[i])
  <2>1. CASE i \in 1..n
    BY <1>3, <1>4, <1>5, <2>1 DEF MoneyInv
  <2>2. CASE i = n + 1
    BY <1>3, <1>4, <1>5, <2>2 DEF MoneyInv
  <2>3. QED BY <1>3, <1>4, <1>6, <2>1, <2>2
<1>7. PendingMoney'
  BY <1>1, <1>2, EmptyMoney
<1>8. TableMoney(db', stranded_at'[Len(past') + 1])
  <2>1. Len(past') + 1 = n + 2
    BY <1>3, <1>4
  <2>2. QED BY <1>2, <1>5, <2>1
<1>9. Len(stranded_at') = Len(past') + 1 /\ stranded' \in Stranding
  BY <1>1, <1>3, <1>4, <1>5
<1>10. QED BY <1>5, <1>6, <1>7, <1>8, <1>9 DEF MoneyInv, TableMoney

LEMMA PopMoney ==
  ASSUME MoneyInv, TablesInv, PopBlock
  PROVE  MoneyInv'
<1> DEFINE n == Len(past)
<1>1. /\ past \in Seq(PastType) /\ n \in Nat /\ n = Len(undo)
      /\ past' = SubSeq(past, 1, n - 1) /\ pending' = EmptyOverlay
      /\ stranded_at \in Seq(Stranding) /\ Len(stranded_at) = n + 1
      /\ stranded_at' = SubSeq(stranded_at, 1, Len(stranded_at) - 1)
      /\ stranded' = stranded_at[Len(stranded_at) - 1]
  BY DEF TablesInv, ShapeInv, PendingOK, PopBlock, MoneyInv
<1>2. /\ n \in 1..n
      /\ db'.entry = past[n].tables.entry /\ db'.money = past[n].tables.money
  BY <1>1, PopReverts
<1>3. TableMoney(past[n].tables, stranded_at[n])
  BY <1>2 DEF MoneyInv
<1>4. TableMoney(db', stranded_at[n])
  BY <1>2, <1>3 DEF TableMoney
<1>5. Len(past') = n - 1 /\ \A i \in 1..(n - 1) : past'[i] = past[i]
  BY <1>1, <1>2
<1>6. /\ stranded_at' \in Seq(Stranding) /\ Len(stranded_at') = n
      /\ \A i \in 1..n : stranded_at'[i] = stranded_at[i]
      /\ stranded' = stranded_at[n] /\ stranded' \in Stranding
  <2> DEFINE q == stranded_at
  <2>1. q \in Seq(Stranding) /\ Len(q) = n + 1 /\ Len(q) - 1 = n
    BY <1>1
  <2> HIDE DEF q, n
  <2>2. /\ SubSeq(q, 1, n) \in Seq(Stranding) /\ Len(SubSeq(q, 1, n)) = n
        /\ \A i \in 1..n : SubSeq(q, 1, n)[i] = q[i]
        /\ q[n] \in Stranding
    BY <1>1, <1>2, <2>1
  <2>3. QED BY <1>1, <2>1, <2>2 DEF q
<1>7. \A i \in 1..Len(past') : TableMoney(past'[i].tables, stranded_at'[i])
  BY <1>1, <1>5, <1>6 DEF MoneyInv
<1>8. PendingMoney'
  BY <1>1, <1>4, <1>6, EmptyMoney
<1>9. Len(stranded_at') = Len(past') + 1 /\ TableMoney(db', stranded_at'[Len(past') + 1])
  BY <1>1, <1>2, <1>4, <1>5, <1>6
<1>10. QED BY <1>6, <1>7, <1>8, <1>9 DEF MoneyInv, TableMoney

LEMMA RestartMoney ==
  ASSUME MoneyInv, TablesInv, Restart
  PROVE  MoneyInv'
<1>1. /\ past \in Seq(PastType) /\ Len(past) \in Nat
      /\ past' = [i \in DOMAIN past |-> [past[i] EXCEPT !.fresh = FALSE]]
      /\ pending' = EmptyOverlay /\ UNCHANGED <<db, stranded_at>>
      /\ stranded' = stranded_at[Len(past) + 1] /\ stranded' \in Stranding
  BY DEF TablesInv, ShapeInv, Restart, MoneyInv
<1>2. \A p \in PastType : /\ [p EXCEPT !.fresh = FALSE] \in PastType
                          /\ [p EXCEPT !.fresh = FALSE].tables = p.tables
  BY DEF PastType
<1>3. Len(past') = Len(past) /\ \A i \in 1..Len(past) : past'[i].tables = past[i].tables
  BY <1>1, <1>2
<1>4. \A i \in 1..Len(past') : TableMoney(past'[i].tables, stranded_at'[i])
  BY <1>1, <1>3 DEF MoneyInv
<1>5. TableMoney(db', stranded') /\ PendingMoney'
  BY <1>1, EmptyMoney DEF MoneyInv
<1>6. QED BY <1>1, <1>3, <1>4, <1>5 DEF MoneyInv, TableMoney

LEMMA RejectMoney ==
  ASSUME MoneyInv, TablesInv, RejectBlock
  PROVE  MoneyInv'
<1>1. /\ pending' = EmptyOverlay /\ UNCHANGED <<db, undo, past, stranded_at>>
      /\ stranded' = stranded_at[Len(past) + 1] /\ stranded' \in Stranding
  BY DEF RejectBlock, MoneyInv, TablesInv, ShapeInv
<1>2. PendingMoney'
  BY <1>1, EmptyMoney DEF MoneyInv
<1>3. QED BY <1>1, <1>2 DEF MoneyInv, TableMoney

LEMMA InitMoney == Init => MoneyInv
<1>1. SUFFICES ASSUME Init PROVE MoneyInv
  OBVIOUS
<1>2. /\ db.entry = [c \in Contract |-> Absent]
      /\ db.money = [k \in BalanceId |-> IF k = Owner THEN Supply
                                         ELSE IF k = CollectedFees THEN 0 ELSE Absent]
      /\ past = <<>> /\ pending = EmptyOverlay
      /\ stranded = [k \in BalanceId |-> 0] /\ stranded_at = <<stranded>>
  BY <1>1 DEF Init
<1>3. \A c \in Contract : db.money[margin_id(c)] = Absent /\ db.money[balance_id(c)] = Absent
  BY <1>2, BalanceIds, DistinctIds
<1>4. \A k \in BalanceId : Amount(db.money[k]) >= 0
  BY <1>2, MarginAssumption DEF Amount
<1>5. TableMoney(db, stranded)
  <2>1. ASSUME NEW c \in Contract
        PROVE  /\ db.entry[c] = Absent
               /\ Amount(db.money[margin_id(c)]) = 0 /\ Amount(db.money[balance_id(c)]) = 0
               /\ stranded[margin_id(c)] = 0 /\ stranded[balance_id(c)] = 0
    BY <1>2, <1>3, BalanceIds DEF Amount
  <2>2. QED BY <1>4, <2>1 DEF TableMoney, Settled, Held
<1>6. /\ pending.entry.store = [c \in Contract |-> Absent] /\ pending.entry.remove = {}
      /\ pending.money.store = [k \in BalanceId |-> Absent] /\ pending.money.remove = {}
  BY <1>2 DEF EmptyOverlay, E!EmptyOverlay, M!EmptyOverlay
<1>7. \A c \in Contract : contract_lookup_by_id(c) = db.entry[c]
  BY <1>6 DEF contract_lookup_by_id, E!lookup
<1>8. \A k \in BalanceId : balance(pending.money, k) = Amount(db.money[k])
  BY <1>6 DEF balance, M!lookup, Amount
<1>9. PendingMoney
  BY <1>5, <1>7, <1>8, BalanceIds DEF TableMoney, PendingMoney, NoneOverdrawn
<1>10. /\ stranded \in Stranding /\ stranded_at \in Seq(Stranding)
       /\ Len(past) = 0 /\ Len(stranded_at) = 1 /\ stranded_at[1] = stranded
  BY <1>2 DEF Stranding
<1>11. QED BY <1>2, <1>5, <1>9, <1>10 DEF MoneyInv

(* Every step keeps the invariant. *)
LEMMA NextMoney == MoneyInv /\ TablesInv /\ TablesInv' /\ [Next]_vars => MoneyInv'
<1>1. SUFFICES ASSUME MoneyInv, TablesInv, TablesInv', [Next]_vars PROVE MoneyInv'
  OBVIOUS
<1> USE <1>1
<1>2. CASE UNCHANGED vars
  BY <1>2 DEF vars, aux, MoneyInv, TableMoney, PendingMoney, NoneOverdrawn, balance,
              contract_lookup_by_id
<1>3. ASSUME NEW c \in Contract, NEW s \in Storage \union {Absent}, RegisterContract(c, s)
      PROVE  MoneyInv'
  BY <1>3, RegisterMoney
<1>4. ASSUME NEW c \in Contract, NEW s \in Storage \union {Absent}, NEW amount \in 0..Supply,
             CallContract(c, s, amount)
      PROVE  MoneyInv'
  BY <1>4, CallMoney
<1>5. ASSUME NEW c \in Contract, NEW amount \in 1..Supply, TransferContract(c, amount)
      PROVE  MoneyInv'
  BY <1>5, TransferMoney
<1>6. ASSUME NEW c \in Contract, NEW n \in ContractName, UpgradeContract(c, n)
      PROVE  MoneyInv'
  BY <1>6, UpgradeMoney
<1>7. ASSUME NEW c \in Contract, DestroyContract(c) PROVE MoneyInv'
  BY <1>7, DestroyMoney
<1>8. CASE ExecutionFails BY <1>8, FailMoney
<1>9. CASE ApplyBlock BY <1>9, ApplyMoney
<1>10. CASE RejectBlock BY <1>10, RejectMoney
<1>11. CASE PopBlock BY <1>11, PopMoney
<1>12. CASE Restart BY <1>12, RestartMoney
<1>13. ASSUME NEW c \in Contract, NEW k \in contract_balances(c), NEW amount \in 1..Supply,
              Deposit(c, k, amount)
       PROVE  MoneyInv'
  BY <1>13, DepositMoney
<1>14. QED
  BY <1>2, <1>3, <1>4, <1>5, <1>6, <1>7, <1>8, <1>9, <1>10, <1>11, <1>12, <1>13 DEF Next

LEMMA SpecMoney == Spec => []MoneyInv
<1>1. QED BY SpecInv, InitMoney, NextMoney, PTL DEF Spec

(***************************************************************************)
(* The margin of a contract lies with it exactly as long as it can still   *)
(* be upgraded or destroyed, whatever is registered, upgraded, destroyed,  *)
(* deposited or popped in any order: it leaves once                        *)
(* (RegisterContractOperation, OnUpgradeOperation and OnDestroyOperation   *)
(* move it, DepositOperation may add to it, pop_block restores entries and *)
(* balances from separate tables).                                         *)
(***************************************************************************)
THEOREM MarginsLie == Spec => []MarginHeld
<1>1. TablesInv /\ MoneyInv => MarginHeld
  <2>1. SUFFICES ASSUME TablesInv, MoneyInv, NEW c \in Contract
                 PROVE  balance(pending.money, margin_id(c)) =
                          stranded[margin_id(c)] +
                          IF InReach(c) /\ contract_lookup_by_id(c).level = "temp"
                          THEN Margin ELSE 0
    BY DEF MarginHeld
  <2>2. contract_lookup_by_id(c) # Absent => contract_lookup_by_id(c) \in ContractEntry
    BY <2>1, LookupEntry
  <2>3. QED BY <2>1, <2>2 DEF MoneyInv, PendingMoney, Settled, Held, InReach, ContractEntry
<1>2. QED BY <1>1, SpecInv, SpecMoney, PTL

(***************************************************************************)
(* A contract that is destroyed, or that the chain does not have, holds    *)
(* only what ordinary deposits put there since: no units are stranded by   *)
(* feeding a contract in the block that destroys it or by popping the      *)
(* block that registered it.                                               *)
(***************************************************************************)
THEOREM NothingStranded == Spec => []NoneStranded
<1>1. MoneyInv => NoneStranded
  BY DEF MoneyInv, PendingMoney, Settled, InReach, NoneStranded
<1>2. QED BY <1>1, SpecMoney, PTL

(***************************************************************************)
(* No balance is ever overdrawn: what each contract operation compares     *)
(* before it withdraws is enough, several transactions of one block and    *)
(* popped blocks included.                                                 *)
(***************************************************************************)
THEOREM NothingOverdrawn == Spec => []NoneOverdrawn
<1>1. MoneyInv => NoneOverdrawn
  BY DEF MoneyInv, PendingMoney
<1>2. QED BY <1>1, SpecMoney, PTL

-----------------------------------------------------------------------------
(* What all balances add up to                                             *)

LEMMA BalancesFinite == IsFiniteSet(BalanceId)
<1>1. IsFiniteSet({"margin", "contract"}) /\ IsFiniteSet({Owner, CollectedFees})
  <2>1. IsFiniteSet({"margin"} \union {"contract"}) /\ IsFiniteSet({Owner} \union {CollectedFees})
    BY FS_Singleton, FS_AddElement
  <2>2. {"margin"} \union {"contract"} = {"margin", "contract"}
        /\ {Owner} \union {CollectedFees} = {Owner, CollectedFees}
    OBVIOUS
  <2>3. QED BY <2>1, <2>2
<1>2. IsFiniteSet({"margin", "contract"} \X Contract)
  BY <1>1, FiniteAssumption, FS_Product
<1>3. QED BY <1>1, <1>2, FS_Union DEF BalanceId

Balances(o) == [k \in BalanceId |-> balance(o, k)]
Amounts(money) == [k \in BalanceId |-> Amount(money[k])]

(* SupplyConserved adds up the balances of the block. *)
LEMMA SupplyIsSum ==
  SupplyConserved <=> SumOf(Balances(pending.money), BalanceId) = Supply
<1> DEFINE f == Balances(pending.money)
           Raw(g) == g = [s \in SUBSET BalanceId |->
                            IF s = {} THEN 0
                            ELSE balance(pending.money, CHOOSE x \in s : TRUE)
                                 + g[s \ {CHOOSE x \in s : TRUE}]]
<1>1. MapThenSumSet(LAMBDA k : balance(pending.money, k), BalanceId)
        = (CHOOSE g : Raw(g))[BalanceId]
  BY DEF MapThenSumSet, MapThenFoldSet
<1>2. ASSUME NEW g PROVE Raw(g) <=> Sums(g, f, BalanceId)
  <2>1. \A s \in SUBSET BalanceId : s # {} => Pick(s) \in BalanceId
    BY PickIn
  <2>2. \A s \in SUBSET BalanceId : s # {} => f[Pick(s)] = balance(pending.money, Pick(s))
    BY <2>1 DEF Balances
  <2> HIDE DEF f
  <2>3. [s \in SUBSET BalanceId |->
           IF s = {} THEN 0 ELSE balance(pending.money, Pick(s)) + g[s \ {Pick(s)}]]
        = [s \in SUBSET BalanceId |-> IF s = {} THEN 0 ELSE f[Pick(s)] + g[s \ {Pick(s)}]]
    BY <2>2
  <2>4. QED BY <2>3 DEF Sums, Pick
<1>3. PICK h : Sums(h, f, BalanceId)
  BY BalancesFinite, SumsExists
<1>4. Raw(CHOOSE g : Raw(g))
  <2>1. Raw(h)
    BY <1>2, <1>3
  <2> HIDE DEF Raw
  <2>2. QED BY <2>1
<1>5. Sums(CHOOSE g : Raw(g), f, BalanceId)
  <2> HIDE DEF Raw, f
  <2>1. QED BY <1>2, <1>4
<1>6. (CHOOSE g : Raw(g))[BalanceId] = SumOf(f, BalanceId)
  <2> HIDE DEF Raw, f
  <2>1. QED BY <1>5, BalancesFinite, SumOfSums
<1>7. QED BY <1>1, <1>6 DEF SupplyConserved

(* An entry written into the overlay changes the total by its change. *)
LEMMA InsertSum ==
  ASSUME ShapeInv, NEW o \in MoneyOverlay, NEW k \in BalanceId, NEW v \in Int
  PROVE  SumOf(Balances(M!insert(o, k, v)), BalanceId)
           = SumOf(Balances(o), BalanceId) + (v - balance(o, k))
<1> DEFINE f == Balances(o)
           h == Balances(M!insert(o, k, v))
<1>1. \A j \in BalanceId : f[j] = balance(o, j) /\ f[j] \in Int
  BY BalanceInt DEF Balances
<1>2. \A j \in BalanceId : h[j] = IF j = k THEN v ELSE balance(o, j)
  BY InsertBalance DEF Balances
<1> HIDE DEF f, h
<1>3. SumOf(h, BalanceId) = SumOf(f, BalanceId) + (h[k] - f[k])
  BY <1>1, <1>2, BalancesFinite, SumUpdate
<1>4. QED BY <1>1, <1>2, <1>3 DEF f, h

LEMMA TotalInt ==
  ASSUME ShapeInv, NEW o \in MoneyOverlay
  PROVE  SumOf(Balances(o), BalanceId) \in Int
<1>1. \A j \in BalanceId : Balances(o)[j] \in Int
  BY BalanceInt DEF Balances
<1>2. QED BY <1>1, BalancesFinite, SumInt

LEMMA MoveSum ==
  ASSUME ShapeInv, NEW o \in MoneyOverlay, NEW k \in BalanceId, NEW amount \in Int
  PROVE  /\ SumOf(Balances(deposit(o, k, amount)), BalanceId)
              = SumOf(Balances(o), BalanceId) + amount
         /\ SumOf(Balances(withdraw(o, k, amount)), BalanceId)
              = SumOf(Balances(o), BalanceId) - amount
<1>1. balance(o, k) \in Int /\ SumOf(Balances(o), BalanceId) \in Int
  BY BalanceInt, TotalInt
<1>2. balance(o, k) + amount \in Int /\ balance(o, k) - amount \in Int
  BY <1>1
<1>3. /\ SumOf(Balances(deposit(o, k, amount)), BalanceId)
           = SumOf(Balances(o), BalanceId) + ((balance(o, k) + amount) - balance(o, k))
      /\ SumOf(Balances(withdraw(o, k, amount)), BalanceId)
           = SumOf(Balances(o), BalanceId) + ((balance(o, k) - amount) - balance(o, k))
  BY <1>2, InsertSum DEF deposit, withdraw
<1>4. QED BY <1>1, <1>3

LEMMA ChargeSum ==
  ASSUME ShapeInv, NEW o \in MoneyOverlay
  PROVE  SumOf(Balances(charge(o)), BalanceId) = SumOf(Balances(o), BalanceId)
<1>1. Fee \in Int /\ withdraw(o, Owner, Fee) \in MoneyOverlay
  BY MarginAssumption, MoveMoney, BalanceIds
<1>2. SumOf(Balances(withdraw(o, Owner, Fee)), BalanceId) = SumOf(Balances(o), BalanceId) - Fee
  BY <1>1, MoveSum, BalanceIds
<1>3. SumOf(Balances(charge(o)), BalanceId)
        = SumOf(Balances(withdraw(o, Owner, Fee)), BalanceId) + Fee
  BY <1>1, MoveSum, BalanceIds DEF charge
<1>4. QED BY <1>1, <1>2, <1>3, TotalInt

(* A payment and its fee leave the total alone. *)
LEMMA PaySum ==
  ASSUME ShapeInv, NEW o \in MoneyOverlay, NEW from \in BalanceId, NEW to \in BalanceId,
         NEW amount \in Int
  PROVE  LET p == deposit(withdraw(charge(o), from, amount), to, amount) IN
         p \in MoneyOverlay /\ SumOf(Balances(p), BalanceId) = SumOf(Balances(o), BalanceId)
<1> DEFINE w == withdraw(charge(o), from, amount)
<1>1. charge(o) \in MoneyOverlay
  BY ChargeMoney
<1>2. w \in MoneyOverlay
  BY <1>1, MoveMoney
<1>3. SumOf(Balances(w), BalanceId) = SumOf(Balances(charge(o)), BalanceId) - amount
  BY <1>1, MoveSum
<1> HIDE DEF w
<1>4. /\ deposit(w, to, amount) \in MoneyOverlay
      /\ SumOf(Balances(deposit(w, to, amount)), BalanceId)
           = SumOf(Balances(w), BalanceId) + amount
  BY <1>2, MoveSum, MoveMoney
<1>5. SumOf(Balances(deposit(w, to, amount)), BalanceId) = SumOf(Balances(o), BalanceId)
  BY <1>3, <1>4, ChargeSum, TotalInt
<1>6. QED BY <1>4, <1>5 DEF w

(* Nothing is lost with a destroyed contract. *)
LEMMA DestroySum ==
  ASSUME ShapeInv, NEW o \in MoneyOverlay, NEW c \in Contract
  PROVE  SumOf(Balances(destroy_balance(o, c)), BalanceId) = SumOf(Balances(o), BalanceId)
<1> DEFINE left == balance(o, balance_id(c))
           given == deposit(o, Owner, left)
<1>1. CASE M!lookup(o, db.money, balance_id(c)) = Absent
  BY <1>1 DEF destroy_balance
<1>2. CASE M!lookup(o, db.money, balance_id(c)) # Absent
  <2>1. left \in Int
    BY BalanceInt, BalanceIds
  <2>2. /\ given \in MoneyOverlay
        /\ SumOf(Balances(given), BalanceId) = SumOf(Balances(o), BalanceId) + left
    <3> HIDE DEF left
    <3>1. QED BY <2>1, MoveMoney, MoveSum, BalanceIds
  <2>3. balance(given, balance_id(c)) = left
    <3>1. balance(given, balance_id(c)) = balance(o, balance_id(c))
      <4> HIDE DEF left
      <4>1. QED BY <2>1, MoveBalance, BalanceIds, DistinctIds
    <3>2. QED BY <3>1
  <2>4. destroy_balance(o, c) = M!insert(given, balance_id(c), 0)
    BY <1>2 DEF destroy_balance
  <2> HIDE DEF given, left
  <2>5. SumOf(Balances(M!insert(given, balance_id(c), 0)), BalanceId)
          = SumOf(Balances(given), BalanceId) + (0 - left)
    BY <2>2, <2>3, InsertSum, BalanceIds
  <2>6. QED BY <2>1, <2>2, <2>4, <2>5, TotalInt
<1>3. QED BY <1>1, <1>2

-----------------------------------------------------------------------------
(* The supply is conserved in the tables, in every state of them that a pop *)
(* can lead back to, and in the block being evaluated.                      *)
SupplyInv ==
  /\ SumOf(Amounts(db.money), BalanceId) = Supply
  /\ SumOf(Balances(pending.money), BalanceId) = Supply
  /\ \A i \in 1..Len(past) : SumOf(Amounts(past[i].tables.money), BalanceId) = Supply

(* What each transaction leaves in the overlay of the balances *)
LEMMA OverlayPaid ==
  ASSUME TablesInv
  PROVE  /\ \A c \in Contract : \A s \in Storage \union {Absent} :
              RegisterContract(c, s) =>
                pending'.money = deposit(withdraw(charge(pending.money), Owner, Margin),
                                         margin_id(c), Margin)
         /\ \A c \in Contract : \A s \in Storage \union {Absent}, amount \in 0..Supply :
              CallContract(c, s, amount) =>
                pending'.money = IF amount = 0 THEN charge(pending.money) ELSE
                  deposit(withdraw(charge(pending.money), balance_id(c), amount), Owner, amount)
         /\ \A c \in Contract : \A amount \in 1..Supply :
              TransferContract(c, amount) =>
                pending'.money =
                  deposit(withdraw(charge(pending.money), Owner, amount), balance_id(c), amount)
         /\ \A c \in Contract : \A k \in contract_balances(c), amount \in 1..Supply :
              Deposit(c, k, amount) =>
                pending'.money =
                  deposit(withdraw(charge(pending.money), Owner, amount), k, amount)
         /\ \A c \in Contract : \A n \in ContractName :
              UpgradeContract(c, n) =>
                pending'.money = deposit(withdraw(charge(pending.money), margin_id(c), Margin),
                                         CollectedFees, Margin)
         /\ \A c \in Contract :
              DestroyContract(c) =>
                pending'.money = destroy_balance(
                  deposit(withdraw(charge(pending.money), margin_id(c), Margin), Owner, Margin), c)
         /\ ExecutionFails => pending'.money = charge(pending.money)
<1>1. pending \in [entry : {pending.entry}, money : {pending.money}, trx : {pending.trx},
                   storage : {pending.storage}, names : {pending.names}]
  BY DEF TablesInv, ShapeInv, PendingType
<1>2. \A o : Evaluate(o) => pending' = o
  BY DEF Evaluate
<1>3. \A c, e : store_contract_entry(pending, c, e) \in
                  [entry : {store_contract_entry(pending, c, e).entry},
                   money : {pending.money}, trx : {pending.trx}, storage : {pending.storage},
                   names : {store_contract_entry(pending, c, e).names}]
  BY <1>1 DEF store_contract_entry
<1>4. ASSUME NEW c \in Contract, NEW s \in Storage \union {Absent}, RegisterContract(c, s)
      PROVE  pending'.money = deposit(withdraw(charge(pending.money), Owner, Margin),
                                      margin_id(c), Margin)
  <2> DEFINE e == [level |-> "temp", state |-> "valid", contract_name |-> NoName]
             stored == store_contract_entry(pending, c, e)
             m == deposit(withdraw(charge(pending.money), Owner, Margin), margin_id(c), Margin)
             o == [stored EXCEPT !.money = m, !.trx = T!insert(pending.trx, c, "trx")]
  <2>1. stored \in [entry : {stored.entry}, money : {pending.money}, trx : {pending.trx},
                    storage : {pending.storage}, names : {stored.names}]
    <3> HIDE DEF e
    <3>1. QED BY <1>3
  <2>2. Evaluate(Executed(o, c, s))
    <3>1. stored.money = pending.money /\ stored.trx = pending.trx
      BY <2>1
    <3>2. QED BY <1>4, <3>1 DEF RegisterContract
  <2> HIDE DEF stored, m
  <2>3. Executed(o, c, s).money = m
    BY <2>1 DEF Executed, store_contractstorage_entry
  <2>4. QED BY <1>2, <2>2, <2>3 DEF m
<1>5. ASSUME NEW c \in Contract, NEW s \in Storage \union {Absent}, NEW amount \in 0..Supply,
             CallContract(c, s, amount)
      PROVE  pending'.money = IF amount = 0 THEN charge(pending.money) ELSE
               deposit(withdraw(charge(pending.money), balance_id(c), amount), Owner, amount)
  BY <1>1, <1>2, <1>5 DEF CallContract, Executed, store_contractstorage_entry
<1>6. ASSUME NEW c \in Contract, NEW n \in ContractName, UpgradeContract(c, n)
      PROVE  pending'.money = deposit(withdraw(charge(pending.money), margin_id(c), Margin),
                                      CollectedFees, Margin)
  BY <1>2, <1>3, <1>6 DEF UpgradeContract
<1>7. ASSUME NEW c \in Contract, DestroyContract(c)
      PROVE  pending'.money = destroy_balance(
               deposit(withdraw(charge(pending.money), margin_id(c), Margin), Owner, Margin), c)
  BY <1>2, <1>3, <1>7 DEF DestroyContract
<1>8. ASSUME NEW c \in Contract, NEW amount \in 1..Supply, TransferContract(c, amount)
      PROVE  pending'.money =
               deposit(withdraw(charge(pending.money), Owner, amount), balance_id(c), amount)
  BY <1>1, <1>2, <1>8 DEF TransferContract
<1>9. ExecutionFails => pending'.money = charge(pending.money)
  BY <1>1, <1>2 DEF ExecutionFails
<1>10. ASSUME NEW c \in Contract, NEW k \in contract_balances(c), NEW amount \in 1..Supply,
              Deposit(c, k, amount)
       PROVE  pending'.money =
                deposit(withdraw(charge(pending.money), Owner, amount), k, amount)
  BY <1>1, <1>2, <1>10 DEF Deposit
<1>11. QED BY <1>4, <1>5, <1>6, <1>7, <1>8, <1>9, <1>10

LEMMA EvaluateSupply ==
  ASSUME SupplyInv, UNCHANGED <<db, past>>, NEW m, pending'.money = m,
         SumOf(Balances(m), BalanceId) = Supply
  PROVE  SupplyInv'
<1>1. Balances(pending.money)' = Balances(m)
  BY DEF Balances, balance, M!lookup
<1>2. QED BY <1>1 DEF SupplyInv, Amounts

(* With an empty overlay the block has what the tables have. *)
LEMMA EmptySupply ==
  ASSUME NEW t, t = db', pending' = EmptyOverlay, SumOf(Amounts(t.money), BalanceId) = Supply
  PROVE  SumOf(Balances(pending.money), BalanceId)' = Supply
<1>1. pending'.money.store = [k \in BalanceId |-> Absent] /\ pending'.money.remove = {}
  BY DEF EmptyOverlay, M!EmptyOverlay
<1>2. Balances(pending.money)' = Amounts(t.money)
  BY <1>1 DEF Balances, Amounts, balance, M!lookup, Amount
<1>3. QED BY <1>2

LEMMA ApplySupply ==
  ASSUME SupplyInv, TablesInv, ApplyBlock
  PROVE  SupplyInv'
<1> DEFINE new == [tables |-> db, fresh |-> TRUE]
           t == apply_changes(pending, db)
<1>1. past' = Append(past, new) /\ pending' = EmptyOverlay /\ db' = t
  BY DEF ApplyBlock
<1>2. pending.money.remove = {} /\ t.money = M!apply_changes(pending.money, db.money)
  BY DEF TablesInv, ShapeInv, PendingType, apply_changes
<1>3. \A k \in BalanceId : t.money[k] = M!lookup(pending.money, db.money, k)
  BY <1>2 DEF M!apply_changes, M!touched, M!stored, M!lookup
<1>4. Amounts(t.money) = Balances(pending.money)
  BY <1>3 DEF Amounts, Balances, Amount, balance
<1>5. past \in Seq(PastType) /\ Len(past) \in Nat /\ new \in PastType
  BY DEF TablesInv, ShapeInv, PastType
<1>6. /\ Len(past') = Len(past) + 1 /\ past'[Len(past) + 1] = new
      /\ \A i \in 1..Len(past) : past'[i] = past[i]
  <2> HIDE DEF new
  <2>1. QED BY <1>1, <1>5
<1> HIDE DEF t
<1>7. ASSUME NEW i \in 1..Len(past')
      PROVE  SumOf(Amounts(past'[i].tables.money), BalanceId) = Supply
  <2>1. CASE i \in 1..Len(past)
    BY <1>6, <2>1 DEF SupplyInv
  <2>2. CASE i = Len(past) + 1
    BY <1>6, <2>2 DEF SupplyInv
  <2>3. QED BY <1>5, <1>6, <1>7, <2>1, <2>2
<1>8. SumOf(Amounts(t.money), BalanceId) = Supply
  BY <1>4 DEF SupplyInv
<1>9. SumOf(Balances(pending.money), BalanceId)' = Supply
  BY <1>1, <1>8, EmptySupply
<1>10. SumOf(Amounts(db.money), BalanceId)' = Supply
  BY <1>1, <1>8 DEF Amounts
<1>11. QED BY <1>7, <1>9, <1>10 DEF SupplyInv, Amounts

LEMMA PopSupply ==
  ASSUME SupplyInv, TablesInv, PopBlock
  PROVE  SupplyInv'
<1> DEFINE n == Len(past)
<1>1. /\ past \in Seq(PastType) /\ n \in Nat /\ n = Len(undo)
      /\ past' = SubSeq(past, 1, n - 1) /\ pending' = EmptyOverlay
  BY DEF TablesInv, ShapeInv, PendingOK, PopBlock
<1>2. n \in 1..n /\ db'.money = past[n].tables.money
  BY <1>1, PopReverts
<1>3. SumOf(Amounts(db'.money), BalanceId) = Supply
  BY <1>2 DEF SupplyInv
<1>4. Len(past') = n - 1 /\ \A i \in 1..(n - 1) : past'[i] = past[i]
  BY <1>1, <1>2
<1>5. ASSUME NEW i \in 1..Len(past')
      PROVE  SumOf(Amounts(past'[i].tables.money), BalanceId) = Supply
  BY <1>1, <1>4, <1>5 DEF SupplyInv
<1>6. SumOf(Balances(pending.money), BalanceId)' = Supply
  BY <1>1, <1>3, EmptySupply
<1>7. QED BY <1>3, <1>5, <1>6 DEF SupplyInv, Amounts

LEMMA RestartSupply ==
  ASSUME SupplyInv, TablesInv, Restart
  PROVE  SupplyInv'
<1>1. /\ past \in Seq(PastType) /\ Len(past) \in Nat
      /\ past' = [i \in DOMAIN past |-> [past[i] EXCEPT !.fresh = FALSE]]
      /\ pending' = EmptyOverlay /\ db' = db
  BY DEF TablesInv, ShapeInv, Restart
<1>2. \A p \in PastType : /\ [p EXCEPT !.fresh = FALSE] \in PastType
                          /\ [p EXCEPT !.fresh = FALSE].tables = p.tables
  BY DEF PastType
<1>3. Len(past') = Len(past) /\ \A i \in 1..Len(past) : past'[i].tables = past[i].tables
  BY <1>1, <1>2
<1>4. SumOf(Balances(pending.money), BalanceId)' = Supply
  BY <1>1, EmptySupply DEF SupplyInv
<1>5. ASSUME NEW i \in 1..Len(past')
      PROVE  SumOf(Amounts(past'[i].tables.money), BalanceId) = Supply
  BY <1>3, <1>5 DEF SupplyInv
<1>6. QED BY <1>1, <1>4, <1>5 DEF SupplyInv, Amounts

LEMMA InitSupply == Init => SupplyInv
<1>1. SUFFICES ASSUME Init PROVE SupplyInv
  OBVIOUS
<1> DEFINE f == Amounts(db.money)
           zero == [k \in BalanceId |-> 0]
<1>2. /\ db.money = [k \in BalanceId |-> IF k = Owner THEN Supply
                                         ELSE IF k = CollectedFees THEN 0 ELSE Absent]
      /\ past = <<>> /\ pending = EmptyOverlay
  BY <1>1 DEF Init
<1>3. \A k \in BalanceId : f[k] = IF k = Owner THEN Supply ELSE 0
  <2>1. Absent # Supply /\ Absent # 0
    BY BalanceAssumption, MarginAssumption
  <2>2. \A k \in BalanceId : f[k] = Amount(db.money[k])
    BY DEF Amounts
  <2>3. QED BY <1>2, <2>1, <2>2 DEF Amount
<1>4. SumOf(zero, BalanceId) = 0
  <2>1. \A k \in BalanceId : zero[k] = 0
    OBVIOUS
  <2> HIDE DEF zero
  <2>2. QED BY <2>1, BalancesFinite, SumZero
<1>5. /\ \A k \in BalanceId : zero[k] = 0 /\ zero[k] \in Int /\ f[k] \in Int
      /\ \A k \in BalanceId \ {Owner} : f[k] = zero[k]
      /\ f[Owner] = Supply /\ Owner \in BalanceId /\ Supply \in Nat
  <2> HIDE DEF f
  <2>1. QED BY <1>3, BalanceIds, MarginAssumption
<1> HIDE DEF f, zero
<1>6. SumOf(f, BalanceId) = SumOf(zero, BalanceId) + (f[Owner] - zero[Owner])
  <2>1. \A k \in BalanceId : zero[k] \in Int /\ f[k] \in Int
    BY <1>5
  <2>2. (\A k \in BalanceId \ {Owner} : f[k] = zero[k]) /\ Owner \in BalanceId
    BY <1>5
  <2>3. QED BY <2>1, <2>2, BalancesFinite, SumUpdate
<1>7. SumOf(f, BalanceId) = Supply
  BY <1>4, <1>5, <1>6
<1>8. pending.money.store = [k \in BalanceId |-> Absent] /\ pending.money.remove = {}
  BY <1>2 DEF EmptyOverlay, M!EmptyOverlay
<1>9. Balances(pending.money) = f
  BY <1>8 DEF Balances, Amounts, balance, M!lookup, Amount, f
<1>10. QED BY <1>2, <1>7, <1>9 DEF SupplyInv, f

(* Every step keeps the supply. *)
LEMMA NextSupply == SupplyInv /\ TablesInv /\ [Next]_vars => SupplyInv'
<1>1. SUFFICES ASSUME SupplyInv, TablesInv, [Next]_vars PROVE SupplyInv'
  OBVIOUS
<1> USE <1>1
<1> DEFINE p == pending.money
<1>2. /\ p \in MoneyOverlay /\ ShapeInv /\ Margin \in Int
      /\ SumOf(Balances(p), BalanceId) = Supply /\ charge(p) \in MoneyOverlay
  BY MarginAssumption, ChargeMoney DEF TablesInv, ShapeInv, PendingType, MoneyOverlay, SupplyInv
<1>3. \A o : Evaluate(o) => UNCHANGED <<db, past>>
  BY DEF Evaluate
<1>4. CASE UNCHANGED vars
  <2>1. UNCHANGED <<db, past>> /\ pending'.money = p
    BY <1>4 DEF vars
  <2>2. QED BY <1>2, <2>1, EvaluateSupply
<1>5. ASSUME NEW c \in Contract, NEW s \in Storage \union {Absent}, RegisterContract(c, s)
      PROVE  SupplyInv'
  <2>1. pending'.money = deposit(withdraw(charge(p), Owner, Margin), margin_id(c), Margin)
    BY <1>5, OverlayPaid
  <2>2. UNCHANGED <<db, past>>
    BY <1>3, <1>5 DEF RegisterContract
  <2> HIDE DEF p
  <2>3. QED BY <1>2, <2>1, <2>2, PaySum, BalanceIds, EvaluateSupply
<1>6. ASSUME NEW c \in Contract, NEW s \in Storage \union {Absent}, NEW amount \in 0..Supply,
             CallContract(c, s, amount)
      PROVE  SupplyInv'
  <2>1. pending'.money = IF amount = 0 THEN charge(p) ELSE
          deposit(withdraw(charge(p), balance_id(c), amount), Owner, amount)
    BY <1>6, OverlayPaid
  <2>2. UNCHANGED <<db, past>> /\ amount \in Int
    BY <1>3, <1>6, MarginAssumption DEF CallContract
  <2> HIDE DEF p
  <2>3. CASE amount = 0
    BY <1>2, <2>1, <2>2, <2>3, ChargeSum, EvaluateSupply
  <2>4. CASE amount # 0
    BY <1>2, <2>1, <2>2, <2>4, PaySum, BalanceIds, EvaluateSupply
  <2>5. QED BY <2>3, <2>4
<1>7. ASSUME NEW c \in Contract, NEW amount \in 1..Supply, TransferContract(c, amount)
      PROVE  SupplyInv'
  <2>1. pending'.money = deposit(withdraw(charge(p), Owner, amount), balance_id(c), amount)
    BY <1>7, OverlayPaid
  <2>2. UNCHANGED <<db, past>> /\ amount \in Int
    BY <1>3, <1>7, MarginAssumption DEF TransferContract
  <2> HIDE DEF p
  <2>3. QED BY <1>2, <2>1, <2>2, PaySum, BalanceIds, EvaluateSupply
<1>8. ASSUME NEW c \in Contract, NEW n \in ContractName, UpgradeContract(c, n)
      PROVE  SupplyInv'
  <2>1. pending'.money = deposit(withdraw(charge(p), margin_id(c), Margin),
                                 CollectedFees, Margin)
    BY <1>8, OverlayPaid
  <2>2. UNCHANGED <<db, past>>
    BY <1>3, <1>8 DEF UpgradeContract
  <2> HIDE DEF p
  <2>3. QED BY <1>2, <2>1, <2>2, PaySum, BalanceIds, EvaluateSupply
<1>9. ASSUME NEW c \in Contract, DestroyContract(c) PROVE SupplyInv'
  <2> DEFINE back == deposit(withdraw(charge(p), margin_id(c), Margin), Owner, Margin)
  <2>1. pending'.money = destroy_balance(back, c)
    BY <1>9, OverlayPaid
  <2>2. UNCHANGED <<db, past>>
    BY <1>3, <1>9 DEF DestroyContract
  <2>3. back \in MoneyOverlay /\ SumOf(Balances(back), BalanceId) = Supply
    <3> HIDE DEF p
    <3>1. QED BY <1>2, PaySum, BalanceIds
  <2> HIDE DEF back
  <2>4. QED BY <1>2, <2>1, <2>2, <2>3, DestroySum, EvaluateSupply
<1>10. CASE ExecutionFails
  <2>1. pending'.money = charge(p)
    BY <1>10, OverlayPaid
  <2>2. UNCHANGED <<db, past>>
    BY <1>3, <1>10 DEF ExecutionFails
  <2> HIDE DEF p
  <2>3. QED BY <1>2, <2>1, <2>2, ChargeSum, EvaluateSupply
<1>11. CASE ApplyBlock BY <1>11, ApplySupply
<1>12. CASE RejectBlock
  <2>1. pending' = EmptyOverlay /\ UNCHANGED <<db, undo, past>>
    BY <1>12 DEF RejectBlock
  <2>2. SumOf(Balances(pending.money), BalanceId)' = Supply
    BY <2>1, EmptySupply DEF SupplyInv
  <2>3. QED BY <2>1, <2>2 DEF SupplyInv, Amounts
<1>13. CASE PopBlock BY <1>13, PopSupply
<1>14. CASE Restart BY <1>14, RestartSupply
<1>15. ASSUME NEW c \in Contract, NEW k \in contract_balances(c), NEW amount \in 1..Supply,
              Deposit(c, k, amount)
       PROVE  SupplyInv'
  <2>1. pending'.money = deposit(withdraw(charge(p), Owner, amount), k, amount)
    BY <1>15, OverlayPaid
  <2>2. UNCHANGED <<db, past>> /\ amount \in Int /\ k \in BalanceId /\ k # Owner
    BY <1>3, <1>15, MarginAssumption, BalanceIds, DistinctIds DEF Deposit, contract_balances
  <2> HIDE DEF p
  <2>3. QED BY <1>2, <2>1, <2>2, PaySum, BalanceIds, EvaluateSupply
<1>16. QED
  BY <1>4, <1>5, <1>6, <1>7, <1>8, <1>9, <1>10, <1>11, <1>12, <1>13, <1>14, <1>15 DEF Next

LEMMA SpecSupply == Spec => []SupplyInv
<1>1. QED BY SpecInv, InitSupply, NextSupply, PTL DEF Spec

(***************************************************************************)
(* No contract operation creates or loses units, in a block or across a    *)
(* fork: margins, contract balances, the owner's balance and the fees add  *)
(* up to the supply, for any number of contracts.                          *)
(***************************************************************************)
THEOREM SupplyStays == Spec => []SupplyConserved
<1>1. SupplyInv => SupplyConserved
  BY SupplyIsSum DEF SupplyInv
<1>2. QED BY <1>1, SpecSupply, PTL

-----------------------------------------------------------------------------
(* Types: that no balance exceeds the supply follows from the two above    *)

LEMMA TypedState ==
  ASSUME TablesInv, MoneyInv, SupplyInv
  PROVE  db \in Tables /\ pending \in Overlay
<1>1. ASSUME NEW f, \A k \in BalanceId : f[k] \in Int /\ f[k] >= 0,
             SumOf(f, BalanceId) = Supply
      PROVE  \A k \in BalanceId : f[k] \in 0..Supply
  <2>1. \A k \in BalanceId : f[k] \in Nat
    BY <1>1
  <2>2. \A k \in BalanceId : f[k] <= SumOf(f, BalanceId)
    BY <2>1, BalancesFinite, SumNat
  <2>3. QED BY <1>1, <2>1, <2>2, MarginAssumption
<1>2. db \in TableType /\ pending \in PendingType
  BY DEF TablesInv, ShapeInv
<1>3. \A k \in BalanceId : Amount(db.money[k]) \in 0..Supply
  <2>1. \A k \in BalanceId : /\ Amounts(db.money)[k] = Amount(db.money[k])
                             /\ Amounts(db.money)[k] \in Int /\ Amounts(db.money)[k] >= 0
    BY <1>2 DEF Amounts, Amount, TableType, MoneyTable, MoneyInv, TableMoney
  <2>2. \A k \in BalanceId : Amounts(db.money)[k] \in 0..Supply
    BY <1>1, <2>1 DEF SupplyInv
  <2>3. QED BY <2>1, <2>2
<1>4. db.money \in M!Table
  BY <1>2, <1>3 DEF M!Table, Amount, TableType, MoneyTable
<1>5. \A k \in BalanceId : balance(pending.money, k) \in 0..Supply
  <2> DEFINE f == Balances(pending.money)
  <2>1. ShapeInv /\ pending.money \in MoneyOverlay
    BY <1>2 DEF TablesInv, PendingType, MoneyOverlay
  <2>2. \A k \in BalanceId : f[k] = balance(pending.money, k) /\ f[k] \in Int /\ f[k] >= 0
    BY <2>1, BalanceInt DEF Balances, MoneyInv, PendingMoney, NoneOverdrawn
  <2>3. SumOf(f, BalanceId) = Supply
    BY DEF SupplyInv
  <2> HIDE DEF f
  <2>4. \A k \in BalanceId : f[k] \in 0..Supply
    BY <1>1, <2>2, <2>3
  <2>5. QED BY <2>2, <2>4
<1>6. pending.money \in M!Overlay
  <2>1. \A k \in BalanceId : pending.money.store[k] \in (0..Supply) \union {Absent}
    BY <1>5 DEF balance, M!lookup
  <2>2. pending.money.store \in M!Table /\ pending.money.remove = {}
    BY <1>2, <2>1 DEF PendingType, MoneyTable, M!Table
  <2>3. pending.money \in [store : M!Table, remove : SUBSET BalanceId]
    BY <1>2, <2>2 DEF PendingType
  <2>4. QED BY <2>2, <2>3 DEF M!Overlay
<1>7. db \in Tables
  BY <1>2, <1>4 DEF Tables, TableType
<1>8. pending.entry \in E!Overlay /\ pending.trx \in T!Overlay
  BY <1>2 DEF PendingType, E!Overlay, T!Overlay
<1>9. pending \in Overlay
  BY <1>2, <1>6, <1>8 DEF Overlay, PendingType
<1>10. QED BY <1>7, <1>9

(* An undo state made of typed tables is typed, and stays so on disk. *)
LEMMA UndoTyped ==
  ASSUME NEW o \in Overlay, NEW t \in Tables
  PROVE  get_undo_state(o, t) \in Overlay
<1>1. E!get_undo_state(o.entry, t.entry) \in E!Overlay
  BY DEF E!get_undo_state, E!Overlay, E!Table, E!stored, Overlay, Tables
<1>2. M!get_undo_state(o.money, t.money) \in M!Overlay
  BY DEF M!get_undo_state, M!Overlay, M!Table, M!stored, Overlay, Tables
<1>3. T!get_undo_state(o.trx, t.trx) \in T!Overlay
  BY DEF T!get_undo_state, T!Overlay, T!Table, T!stored, Overlay, Tables
<1>4. undo_storage(o, t) \in StorageMap /\ NoNames \in NameMap
  BY DEF undo_storage, StorageMap, NoNames, NameMap, Overlay, Tables
<1>5. QED BY <1>1, <1>2, <1>3, <1>4 DEF get_undo_state, Overlay

BoundsInv ==
  /\ ops <= MaxOps /\ Len(undo) <= MaxBlocks
  /\ ops > 0 => Len(undo) < MaxBlocks
  /\ \A i \in 1..Len(undo) : undo[i] \in Overlay

LEMMA WithoutLast ==
  ASSUME NEW Elements, NEW q \in Seq(Elements), q # <<>>
  PROVE  /\ Len(SubSeq(q, 1, Len(q) - 1)) = Len(q) - 1
         /\ \A i \in 1..(Len(q) - 1) : SubSeq(q, 1, Len(q) - 1)[i] = q[i]
<1> DEFINE m == Len(q) - 1
<1>1. m \in Nat /\ m <= Len(q) /\ Len(q) \in Nat
  OBVIOUS
<1> HIDE DEF m
<1>2. SubSeq(q, 1, m) = [i \in 1..m |-> q[i]]
  BY <1>1
<1>3. Len(SubSeq(q, 1, m)) = m /\ \A i \in 1..m : SubSeq(q, 1, m)[i] = q[i]
  BY <1>1, <1>2
<1>4. QED BY <1>3 DEF m

LEMMA NextBounds ==
  BoundsInv /\ TablesInv /\ MoneyInv /\ SupplyInv /\ [Next]_vars => BoundsInv'
<1>1. SUFFICES ASSUME BoundsInv, TablesInv, MoneyInv, SupplyInv, [Next]_vars PROVE BoundsInv'
  OBVIOUS
<1> USE <1>1
<1>2. /\ undo \in Seq(UndoType) /\ Len(undo) \in Nat /\ ops \in Nat
      /\ MaxOps \in Nat /\ MaxBlocks \in Nat
  BY FiniteAssumption DEF TablesInv, ShapeInv
<1>3. ASSUME NEW o, Evaluate(o) PROVE BoundsInv'
  BY <1>2, <1>3 DEF Evaluate, BoundsInv
<1>4. CASE ApplyBlock
  <2> DEFINE u == get_undo_state(pending, db)
  <2>1. u \in Overlay /\ u \in UndoType
    BY TypedState, UndoTyped, UndoShape DEF TablesInv, ShapeInv
  <2>2. ops > 0 /\ undo' = Append(undo, u) /\ ops' = 0
    BY <1>4 DEF ApplyBlock
  <2> HIDE DEF u
  <2>3. /\ Len(undo') = Len(undo) + 1 /\ undo'[Len(undo) + 1] = u
        /\ \A i \in 1..Len(undo) : undo'[i] = undo[i]
    BY <1>2, <2>1, <2>2
  <2>4. ASSUME NEW i \in 1..Len(undo') PROVE undo'[i] \in Overlay
    <3>1. CASE i \in 1..Len(undo)
      BY <2>3, <3>1 DEF BoundsInv
    <3>2. CASE i = Len(undo) + 1
      BY <2>1, <2>3, <3>2
    <3>3. QED BY <1>2, <2>3, <2>4, <3>1, <3>2
  <2>5. QED BY <1>2, <2>2, <2>3, <2>4 DEF BoundsInv
<1>5. CASE PopBlock
  <2>1. /\ undo # <<>> /\ ops' = ops /\ ops = 0
        /\ undo' = SubSeq(undo, 1, Len(undo) - 1)
    BY <1>5 DEF PopBlock
  <2>2. Len(undo) \in 1..Len(undo)
    BY <1>2, <2>1
  <2>3. Len(undo') = Len(undo) - 1 /\ \A i \in 1..(Len(undo) - 1) : undo'[i] = undo[i]
    BY <1>2, <2>1, <2>2, WithoutLast
  <2>4. QED BY <1>2, <2>1, <2>3 DEF BoundsInv
<1>6. CASE Restart
  <2>1. undo' = [i \in 1..Len(undo) |-> reloaded(undo[i])] /\ ops' = 0
    BY <1>2, <1>6 DEF Restart
  <2>2. Len(undo') = Len(undo) /\ \A i \in 1..Len(undo) : undo'[i] = reloaded(undo[i])
    BY <1>2, <2>1
  <2>3. \A u \in Overlay : reloaded(u) \in Overlay
    <3>1. T!EmptyOverlay \in T!Overlay
      BY DEF T!EmptyOverlay, T!Overlay, T!Table
    <3>2. QED BY <3>1 DEF reloaded, Overlay
  <2>4. QED BY <1>2, <2>1, <2>2, <2>3 DEF BoundsInv
<1>7. CASE RejectBlock
  BY <1>2, <1>7 DEF RejectBlock, BoundsInv
<1>8. CASE UNCHANGED vars
  BY <1>8 DEF vars, BoundsInv
<1>9. QED
  BY <1>3, <1>4, <1>5, <1>6, <1>7, <1>8
     DEF Next, RegisterContract, CallContract, TransferContract, Deposit,
         UpgradeContract, DestroyContract, ExecutionFails

(***************************************************************************)
(* The variables keep their types: in every overlay and undo state stored  *)
(* and removed keys are apart, and no balance is negative or exceeds the   *)
(* supply, in the tables, in a block and in what a pop would write.        *)
(***************************************************************************)
THEOREM TablesTyped == Spec => []TypeOK
<1>1. Init => BoundsInv
  BY FiniteAssumption DEF Init, BoundsInv
<1>2. BoundsInv /\ TablesInv /\ MoneyInv /\ SupplyInv => TypeOK
  <2>1. SUFFICES ASSUME BoundsInv, TablesInv, MoneyInv, SupplyInv PROVE TypeOK
    OBVIOUS
  <2>2. /\ undo \in Seq(UndoType) /\ Len(past) = Len(undo) /\ ops \in Nat
        /\ MaxOps \in Nat /\ DOMAIN undo = 1..Len(undo)
    BY <2>1, FiniteAssumption DEF TablesInv, ShapeInv
  <2>3. db \in Tables /\ pending \in Overlay
    BY <2>1, TypedState
  <2>4. QED BY <2>1, <2>2, <2>3 DEF TypeOK, BoundsInv
<1>3. QED BY <1>1, <1>2, NextBounds, SpecInv, SpecMoney, SpecSupply, PTL DEF Spec

=============================================================================
