-------------------------- MODULE PendingChainState --------------------------
(***************************************************************************)
(* blockchain/PendingChainState.cpp: the overlay of changes a block makes  *)
(* to the ledger, and the overlay that reverts them.                       *)
(*                                                                         *)
(* Each table (properties, accounts, assets, slates, balances,             *)
(* transactions, slots, contracts, requests and results of contracts) has  *)
(* a map of stored entries and a set of removed keys, handled by the same  *)
(* code.  A key here names a table together with a key of it.  Left out is *)
(* the storage of contracts, which shares the removed keys of contracts,   *)
(* and the indexes by name, symbol and address.                            *)
(***************************************************************************)
CONSTANTS Key, Value, Absent

ASSUME AbsentAssumption == Absent \notin Value

Table == [Key -> Value \union {Absent}]

(* A removed key has no stored entry: insert and erase keep the two apart. *)
Overlay == {o \in [store : Table, remove : SUBSET Key] :
              \A k \in o.remove : o.store[k] = Absent}

EmptyOverlay == [store |-> [k \in Key |-> Absent], remove |-> {}]

(* *_lookup_by_id: the overlay first, then the state below it *)
lookup(o, prev_state, k) ==
  IF o.store[k] # Absent THEN o.store[k]
  ELSE IF k \in o.remove THEN Absent
  ELSE prev_state[k]

(* *_insert_into_id_map *)
insert(o, k, v) == [store |-> [o.store EXCEPT ![k] = v],
                    remove |-> o.remove \ {k}]

\* mutant: the stored entry stays
erase_keeps_entry(o, k) == [store |-> o.store, remove |-> o.remove \union {k}]

(* *_erase_from_id_map *)
erase(o, k) == [store |-> [o.store EXCEPT ![k] = Absent],
                remove |-> o.remove \union {k}]

(* *Entry::remove: an entry that is not there is not removed again *)
remove_entry(o, prev_state, k) ==
  IF lookup(o, prev_state, k) # Absent THEN erase(o, k) ELSE o

stored(o) == {k \in Key : o.store[k] # Absent}
touched(o) == o.remove \union stored(o)

(* One remove or store of apply_entrys. *)
apply_entry(o, table, k) == [table EXCEPT ![k] = o.store[k]]

(* apply_changes: every one of them *)
apply_changes(o, table) ==
  [k \in Key |-> IF k \in touched(o) THEN o.store[k] ELSE table[k]]

\* mutant: entries the overlay creates are not removed again
get_undo_state_keeps_new(o, prev_state) ==
  [store  |-> [k \in Key |-> IF k \in touched(o) THEN prev_state[k] ELSE Absent],
   remove |-> {}]

(* get_undo_state: what the changed keys hold in the state below *)
get_undo_state(o, prev_state) ==
  [store  |-> [k \in Key |-> IF k \in touched(o) THEN prev_state[k] ELSE Absent],
   remove |-> {k \in stored(o) : prev_state[k] = Absent}]

=============================================================================
