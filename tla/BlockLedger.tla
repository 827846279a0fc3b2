----------------------------- MODULE BlockLedger -----------------------------
(***************************************************************************)
(* How extend_chain and pop_block of blockchain/ChainDatabase.cpp change   *)
(* the ledger, write by write, and what ChainDatabase::open and            *)
(* repair_database make of it after the process died between two writes.   *)
(*                                                                         *)
(* The tables and indexes are LevelDB databases without a common           *)
(* transaction: every store or remove is durable by itself and survives    *)
(* the process, so a crash may separate any two of them.  The undo window, *)
(* the fork choice and refused headers are in ChainDatabase; that numbers  *)
(* grow along the main chain, assumed here, is proved there, if a block    *)
(* numbered 1 is the child of genesis.                                     *)
(***************************************************************************)
EXTENDS BlockTree, PendingChainState

CONSTANTS
  GenesisLedger,   \* the tables initialize_genesis writes
  NoUndo,          \* no entry in _block_id_to_undo_state
  CrashInSwitch    \* may the process die between a pop and the next extension?

ASSUME OrderedAssumption ==
  \A b \in Block : \A a \in Branch[Prev[b]] : Num[a] < Num[b]
ASSUME CrashAssumption == CrashInSwitch \in BOOLEAN
ASSUME GenesisLedgerAssumption == GenesisLedger \in Table
ASSUME NoUndoAssumption == NoUndo \notin Overlay

VARIABLES
  (* on disk *)
  db,         \* the tables of the ledger
  undo,       \* _block_id_to_undo_state
  included,   \* BlockForkData::is_included
  indexed,    \* the blocks in _block_num_to_id_db
  status,     \* _block_extend_status, the one entry it holds
  (* in memory *)
  head,       \* _head_block_id
  pc,         \* where extend_chain, pop_block or the start-up stands
  cur,        \* the block it is at
  pending,    \* the overlay being filled or applied
  todo,       \* keys apply_changes has still to write
  switching,  \* switch_to_fork popped a block and has not extended one yet
  repair_due, \* open found an interrupted block, repair_database is to come
  (* history, no part of the program *)
  ledger,     \* the tables as they are right after each block
  committed,  \* the last block whose extension or whose child's pop is over
  overtaken   \* a block came between open and the repair of an interrupted one

disk == <<db, undo, included, indexed, status>>
memory == <<head, pc, cur, pending, todo, switching>>
startup == <<repair_due, overtaken>>
vars == <<disk, memory, ledger, committed, startup>>

Calm == pc = "idle" \/ pc = "switch"

(***************************************************************************)
(* configure_from_command_line opens the database, starts the network,     *)
(* which waits for other threads, and calls repair_database at its end: a  *)
(* block a peer sends in between is extended or switched to before the     *)
(* repair, and its status replaces the one that asks for the repair.       *)
(***************************************************************************)
Unrepaired == repair_due /\ status.version = 1

(* The call is over; its local variables are gone. *)
Return(p) == /\ pc' = p
             /\ cur' = Genesis
             /\ pending' = EmptyOverlay
             /\ todo' = {}

-----------------------------------------------------------------------------
(* extend_chain *)

extend_chain(b) ==
  /\ Calm
  /\ Prev[b] = head
  /\ pc' = "evaluate"
  /\ cur' = b
  /\ pending' = EmptyOverlay
  /\ overtaken' = (overtaken \/ Unrepaired)
  /\ UNCHANGED <<disk, head, todo, switching, repair_due, ledger,
                 committed>>

(* The operations of the block change entries of the pending state. *)
evaluate(k) ==
  /\ pc = "evaluate"
  /\ \/ \E v \in Value : pending' = insert(pending, k, v)
     \/ pending' = remove_entry(pending, db, k)
  /\ UNCHANGED <<disk, head, pc, cur, todo, switching, ledger, committed, startup>>

(* A check throws: the pending state is dropped. *)
refuse ==
  /\ pc = "evaluate"
  /\ status' = [id |-> cur, version |-> 2]
  /\ Return("idle")
  /\ switching' = FALSE
  /\ UNCHANGED <<db, undo, included, indexed, head, ledger, committed, startup>>

save_undo_state ==
  /\ pc = "evaluate"
  /\ undo' = [undo EXCEPT ![cur] = get_undo_state(pending, db)]
  /\ ledger' = [ledger EXCEPT ![cur] = apply_changes(pending, db)]
  /\ pc' = "saved"
  /\ UNCHANGED <<db, included, indexed, status, head, cur, pending, todo,
                 switching, committed, startup>>

\* mutant: the status is written only when the block is complete
store_extend_status_late ==
  /\ pc = "saved"
  /\ todo' = touched(pending)
  /\ pc' = "apply"
  /\ switching' = FALSE
  /\ UNCHANGED <<disk, head, cur, pending, ledger, committed, startup>>

(* store_extend_status(block_id, 1), then apply_changes starts *)
store_extend_status ==
  /\ pc = "saved"
  /\ status' = [id |-> cur, version |-> 1]
  /\ todo' = touched(pending)
  /\ pc' = "apply"
  /\ switching' = FALSE
  /\ UNCHANGED <<db, undo, included, indexed, head, cur, pending, ledger,
                 committed, startup>>

\* mutant: a write that is not counted as done
apply_changes_stuck(k) ==
  /\ pc = "apply" \/ pc = "undo"
  /\ k \in todo
  /\ db' = apply_entry(pending, db, k)
  /\ UNCHANGED <<undo, included, indexed, status, head, pc, cur, pending, todo,
                 switching, ledger, committed, startup>>

(* One write of apply_changes, of a block or of its undo state.  The keys  *)
(* of an overlay are distinct, so their order does not matter.             *)
apply_changes_step(k) ==
  /\ pc = "apply" \/ pc = "undo"
  /\ k \in todo
  /\ db' = apply_entry(pending, db, k)
  /\ todo' = todo \ {k}
  /\ UNCHANGED <<undo, included, indexed, status, head, pc, cur, pending,
                 switching, ledger, committed, startup>>

(* mark_included, and update_head_block, which changes memory only *)
mark_included ==
  /\ pc = "apply"
  /\ todo = {}
  /\ included' = included \union {cur}
  /\ head' = cur
  /\ pc' = "included"
  /\ UNCHANGED <<db, undo, indexed, status, cur, pending, todo, switching,
                 ledger, committed, startup>>

without_number(n) == {b \in indexed : Num[b] # n}

store_index ==
  /\ pc = "included"
  /\ indexed' = without_number(Num[cur]) \union {cur}
  /\ pc' = "indexed"
  /\ UNCHANGED <<db, undo, included, status, head, cur, pending, todo,
                 switching, ledger, committed, startup>>

\* mutant: the status of a complete block is left at 1
complete_left_open ==
  /\ pc = "indexed"
  /\ committed' = cur
  /\ Return("idle")
  /\ UNCHANGED <<disk, head, switching, ledger, startup>>

(* store_extend_status(block_id, 2) *)
complete ==
  /\ pc = "indexed"
  /\ status' = [id |-> cur, version |-> 2]
  /\ committed' = cur
  /\ Return("idle")
  /\ UNCHANGED <<db, undo, included, indexed, head, switching, ledger, startup>>

-----------------------------------------------------------------------------
(* pop_block, and repair_block, which does the same to another block *)

(* switch_to_fork pops blocks and then extends at least one, or throws. *)
pop_block ==
  /\ Calm
  /\ head # Genesis
  /\ undo[head] # NoUndo
  /\ included' = included \ {head}
  /\ cur' = head
  /\ pc' = "unindex"
  /\ switching' = TRUE
  /\ overtaken' = (overtaken \/ Unrepaired)
  /\ UNCHANGED <<db, undo, indexed, status, head, pending, todo, repair_due,
                 ledger, committed>>

\* mutant: the number index is left alone
keep_index ==
  /\ pc = "unindex"
  /\ pending' = undo[cur]
  /\ todo' = touched(undo[cur])
  /\ pc' = "undo"
  /\ UNCHANGED <<disk, head, cur, switching, ledger, committed, startup>>

(* _block_num_to_id_db.remove, then the undo state is looked up *)
remove_index ==
  /\ pc = "unindex"
  /\ undo[cur] # NoUndo
  /\ indexed' = without_number(Num[cur])
  /\ pending' = undo[cur]
  /\ todo' = touched(undo[cur])
  /\ pc' = "undo"
  /\ UNCHANGED <<db, undo, included, status, head, cur, switching, ledger,
                 committed, startup>>

undone ==
  /\ pc = "undo"
  /\ todo = {}
  /\ head' = Prev[cur]
  /\ IF switching
     THEN Return("switch") /\ committed' = Prev[cur]
     ELSE Return("idle") /\ UNCHANGED committed
  /\ UNCHANGED <<disk, switching, ledger, startup>>

-----------------------------------------------------------------------------
(* Crash and restart *)

crash ==
  /\ pc # "down"
  /\ CrashInSwitch \/ ~switching
  /\ Return("down")
  /\ switching' = FALSE
  /\ repair_due' = FALSE
  /\ UNCHANGED <<disk, head, ledger, committed, overtaken>>

last_indexed ==
  {b \in indexed : \A c \in indexed : Num[c] <= Num[b]}

open ==
  /\ pc = "down"
  /\ IF indexed = {} THEN head' = Genesis ELSE head' \in last_indexed
  /\ pc' = "idle"
  /\ repair_due' = (status.version = 1)
  /\ UNCHANGED <<disk, cur, pending, todo, switching, ledger, committed, overtaken>>

(***************************************************************************)
(* At the end of the start-up, between two calls of push_block, if the     *)
(* status asks for it.  Only repair_database returns with the status at 1, *)
(* so it does when open found it so and no block came in between.          *)
(***************************************************************************)
repair_database ==
  /\ pc = "idle"
  /\ Unrepaired
  /\ repair_due' = FALSE
  /\ cur' = status.id
  /\ included' = included \ {cur'}
  /\ pc' = "unindex"
  /\ UNCHANGED <<db, undo, indexed, status, head, pending, todo, switching,
                 ledger, committed, overtaken>>

-----------------------------------------------------------------------------
Init ==
  /\ db = GenesisLedger
  /\ undo = [b \in Block |-> NoUndo]
  /\ included = {Genesis}
  /\ indexed = {}
  /\ status = [id |-> Genesis, version |-> 0]
  /\ head = Genesis
  /\ pc = "idle"
  /\ cur = Genesis
  /\ pending = EmptyOverlay
  /\ todo = {}
  /\ switching = FALSE
  /\ repair_due = FALSE
  /\ overtaken = FALSE
  /\ ledger = [b \in Node |-> GenesisLedger]
  /\ committed = Genesis

Step == \/ save_undo_state
        \/ store_extend_status
        \/ \E k \in Key : apply_changes_step(k)
        \/ mark_included
        \/ store_index
        \/ complete
        \/ remove_index
        \/ undone
        \/ open

(* After its pops switch_to_fork goes on to the blocks of the fork. *)
SwitchOn == pc = "switch" /\ \E b \in Block : extend_chain(b)

Next == \/ Step
        \/ repair_database
        \/ \E b \in Block : extend_chain(b)
        \/ \E k \in Key : evaluate(k)
        \/ refuse
        \/ pop_block
        \/ crash

(***************************************************************************)
(* A call that runs is not preempted.  The fiber that starts the node gets *)
(* its turn between two calls of push_block.                               *)
(***************************************************************************)
Spec == Init /\ [][Next]_vars
FairSpec == Spec /\ WF_vars(Step) /\ WF_vars(SwitchOn) /\ SF_vars(repair_database)

-----------------------------------------------------------------------------
(* Properties *)

Pcs == {"idle", "switch", "evaluate", "saved", "apply", "included", "indexed",
        "unindex", "undo", "down"}

(* Every database, and every variable of the running call, holds values of its type. *)
TypeOK ==
  /\ db \in Table
  /\ undo \in [Block -> Overlay \union {NoUndo}]
  /\ included \subseteq Node
  /\ indexed \subseteq Block
  /\ status \in [id : Node, version : {0, 1, 2}]
  /\ status.version = 1 => status.id \in Block
  /\ head \in Node
  /\ pc \in Pcs
  /\ cur \in Node
  /\ pc \notin {"idle", "switch", "down"} => cur \in Block
  /\ pending \in Overlay
  /\ todo \subseteq Key
  /\ switching \in BOOLEAN
  /\ ledger \in [Node -> Table]
  /\ committed \in Node
  /\ repair_due \in BOOLEAN /\ overtaken \in BOOLEAN

(***************************************************************************)
(* No call is running, the start-up has repaired what the last crash       *)
(* interrupted (if anything), and no block overtook a repair.  A block     *)
(* that does extends tables that hold half of another block: what follows  *)
(* does not hold then.                                                     *)
(***************************************************************************)
Serving == pc = "idle" /\ ~overtaken /\ ~Unrepaired

(***************************************************************************)
(* Whenever no call is running and nothing is left to repair, the tables   *)
(* hold exactly what the blocks up to the head left in them, after any     *)
(* number of extensions, refused blocks, pops, crashes at any write, calls *)
(* before and after the repair, and repeated repairs.                      *)
(***************************************************************************)
LedgerIsHeads == Serving => db = ledger[head]

(***************************************************************************)
(* Likewise the include flags and the number index, which are written one  *)
(* after the other and after the tables, list exactly the head's branch.   *)
(***************************************************************************)
ListsAreHeads ==
  Serving => /\ included = Branch[head]
             /\ indexed = Branch[head] \ {Genesis}

(***************************************************************************)
(* A crash costs at most the block being extended: a block whose           *)
(* extension was complete is still the head once open and                  *)
(* repair_database are through, however often the node is restarted.       *)
(***************************************************************************)
CommittedSurvives == Serving => head = committed

(***************************************************************************)
(* At any moment the undo state of a block of the main chain brings the    *)
(* tables it left back to the tables its parent left ("everything that     *)
(* would be necessary to revert this pending state to the previous         *)
(* state"), so any number of blocks can be popped one after the other,     *)
(* unless a block overtook a repair: it was evaluated on, and its undo     *)
(* state taken from, tables that are nobody's.                             *)
(***************************************************************************)
UndoReverts ==
  ~overtaken =>
    \A b \in Branch[head] \ {Genesis} :
      /\ undo[b] # NoUndo
      /\ apply_changes(undo[b], ledger[b]) = ledger[Prev[b]]

(***************************************************************************)
(* A node that went down comes to serve again, with nothing left to        *)
(* repair, unless it is killed again and again or a block overtakes the    *)
(* repair: the writes of repair_block are finite, and each attempt starts  *)
(* them anew.                                                              *)
(***************************************************************************)
Recovers ==
  \/ pc = "down" ~> (pc = "idle" /\ ~Unrepaired) \/ overtaken
  \/ []<><<crash>>_vars

-----------------------------------------------------------------------------
(***************************************************************************)
(* Why recovery works.  From save_undo_state to the end of the extension   *)
(* the undo state of the block leads from whatever is on disk to the       *)
(* tables of its parent: each key holds the old or the new entry, and the  *)
(* undo state overwrites every key that differs.  That is still so after   *)
(* any part of it was applied, so repair_block may be repeated.            *)
(***************************************************************************)
Revertible(b) ==
  /\ b \in Block
  /\ undo[b] # NoUndo
  /\ apply_changes(undo[b], db) = ledger[Prev[b]]

Settled(b) == /\ db = ledger[b]
              /\ included = Branch[b]
              /\ indexed = Branch[b] \ {Genesis}

Open(b) == status = [id |-> b, version |-> 1]

(* The repaired block, whose status is left at 1, can be repaired again. *)
RunningInv ==
  pc \in {"switch", "evaluate", "saved"} \/ (pc = "idle" /\ ~Unrepaired) =>
    /\ Settled(head)
    /\ committed = head
    /\ pc = "idle" => ~switching
    /\ pc = "switch" => switching
    /\ pc \in {"evaluate", "saved"} => cur \in Block /\ Prev[cur] = head
    /\ pc = "saved" => /\ undo[cur] = get_undo_state(pending, db)
                       /\ ledger[cur] = apply_changes(pending, db)
    /\ status.version = 1 /\ ~switching =>
         Revertible(status.id) /\ Prev[status.id] = head

ApplyInv ==
  pc = "apply" =>
    /\ ~switching
    /\ cur \in Block /\ Prev[cur] = head
    /\ Open(cur)
    /\ committed = head
    /\ included = Branch[head]
    /\ indexed = Branch[head] \ {Genesis}
    /\ undo[cur] = get_undo_state(pending, ledger[head])
    /\ ledger[cur] = apply_changes(pending, ledger[head])
    /\ \A k \in Key : db[k] = IF k \in todo THEN ledger[head][k]
                              ELSE ledger[cur][k]
    /\ todo \subseteq touched(pending)

FinishInv ==
  pc \in {"included", "indexed"} =>
    /\ ~switching
    /\ cur \in Block /\ head = cur
    /\ Open(cur)
    /\ committed = Prev[cur]
    /\ included = Branch[cur]
    /\ indexed = Branch[IF pc = "indexed" THEN cur ELSE Prev[cur]] \ {Genesis}
    /\ db = ledger[cur]

(* The number index may list the open block only while it is the head. *)
Listed(b) == \/ indexed = Branch[b] \ {Genesis} /\ head = b
             \/ indexed = Branch[Prev[b]] \ {Genesis} /\ head \in {b, Prev[b]}

DownInv ==
  pc = "down" \/ (pc = "idle" /\ Unrepaired) =>
    /\ ~switching
    /\ IF status.version = 1
       THEN /\ Revertible(status.id)
            /\ included \in {Branch[status.id], Branch[Prev[status.id]]}
            /\ Listed(status.id)
            /\ committed = Prev[status.id]
       ELSE Settled(head) /\ committed = head

RevertInv ==
  pc \in {"unindex", "undo"} =>
    /\ Revertible(cur)
    /\ included = Branch[Prev[cur]]
    /\ Listed(cur)
    /\ IF switching THEN head = cur
       ELSE Open(cur) /\ committed = Prev[cur] /\ ~repair_due
    /\ pc = "undo" => /\ indexed = Branch[Prev[cur]] \ {Genesis}
                      /\ pending = undo[cur]
                      /\ todo \subseteq touched(pending)
                      /\ \A k \in Key \ todo : db[k] = ledger[Prev[cur]][k]

(* What holds until a block overtakes a repair. *)
LedgerInv ==
  /\ TypeOK
  /\ UndoReverts
  /\ RunningInv
  /\ ApplyInv
  /\ FinishInv
  /\ DownInv
  /\ RevertInv

=============================================================================
