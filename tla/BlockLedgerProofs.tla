-------------------------- MODULE BlockLedgerProofs --------------------------
(***************************************************************************)
(* For every block tree, every set of keys and values and every ledger:    *)
(* undo states revert what a block did, and the node recovers from a crash *)
(* at any write of extend_chain or of repair_database.                     *)
(***************************************************************************)
EXTENDS BlockLedger, TLAPS

-----------------------------------------------------------------------------
(* Overlays *)

LEMMA EmptyOverlayType == EmptyOverlay \in Overlay
BY DEF EmptyOverlay, Overlay, Table

LEMMA InsertType ==
  ASSUME NEW o \in Overlay, NEW k \in Key, NEW v \in Value
  PROVE  insert(o, k, v) \in Overlay
BY DEF insert, Overlay, Table

LEMMA RemoveType ==
  ASSUME NEW o \in Overlay, NEW k \in Key, NEW t \in Table
  PROVE  remove_entry(o, t, k) \in Overlay
BY DEF remove_entry, erase, Overlay, Table

LEMMA ApplyType ==
  ASSUME NEW o \in Overlay, NEW t \in Table
  PROVE  apply_changes(o, t) \in Table
BY DEF apply_changes, Overlay, Table

LEMMA ApplyAt ==
  ASSUME NEW o \in Overlay, NEW t \in Table, NEW k \in Key
  PROVE  apply_changes(o, t)[k] = IF k \in touched(o) THEN o.store[k] ELSE t[k]
BY DEF apply_changes

LEMMA ApplyEntryType ==
  ASSUME NEW o \in Overlay, NEW t \in Table, NEW k \in Key
  PROVE  apply_entry(o, t, k) \in Table
BY DEF apply_entry, Overlay, Table

LEMMA UndoType ==
  ASSUME NEW o \in Overlay, NEW t \in Table
  PROVE  get_undo_state(o, t) \in Overlay
<1>1. \A k \in Key : t[k] \in Value \union {Absent}
  BY DEF Table
<1>2. [k \in Key |-> IF k \in touched(o) THEN t[k] ELSE Absent] \in Table
  BY <1>1 DEF Table
<1>3. {k \in stored(o) : t[k] = Absent} \subseteq Key
  BY DEF stored
<1>4. \A k \in stored(o) : k \in Key /\ k \in touched(o)
  BY DEF stored, touched
<1>5. QED
  BY <1>2, <1>3, <1>4 DEF get_undo_state, Overlay

LEMMA TableEq ==
  ASSUME NEW s \in Table, NEW t \in Table, \A k \in Key : s[k] = t[k]
  PROVE  s = t
BY DEF Table

(* What an operation of the block reads through the overlay is what the    *)
(* tables hold once apply_changes has written it.                          *)
LEMMA LookupIsApplied ==
  ASSUME NEW o \in Overlay, NEW t \in Table, NEW k \in Key
  PROVE  lookup(o, t, k) = apply_changes(o, t)[k]
BY DEF lookup, apply_changes, Overlay, Table, touched, stored

(***************************************************************************)
(* An undo state leads back to the state it was taken from, from any state *)
(* that apply_changes may leave when it is interrupted: each key holds     *)
(* either its old or its new entry.                                        *)
(***************************************************************************)
THEOREM UndoInverse ==
  ASSUME NEW o \in Overlay, NEW t \in Table, NEW d \in Table,
         \A k \in Key : d[k] = t[k] \/ d[k] = apply_changes(o, t)[k]
  PROVE  apply_changes(get_undo_state(o, t), d) = t
<1> DEFINE u == get_undo_state(o, t)
<1>1. u \in Overlay
  BY UndoType
<1>2. ASSUME NEW k \in Key PROVE apply_changes(u, d)[k] = t[k]
  <2>1. apply_changes(u, d)[k] = IF k \in touched(u) THEN u.store[k] ELSE d[k]
    BY <1>1, ApplyAt
  <2>2. apply_changes(o, t)[k] = IF k \in touched(o) THEN o.store[k] ELSE t[k]
    BY ApplyAt
  <2>3. u.store[k] = IF k \in touched(o) THEN t[k] ELSE Absent
    BY DEF get_undo_state
  <2>4. k \in u.remove <=> k \in stored(o) /\ t[k] = Absent
    BY DEF get_undo_state
  <2>5. k \in touched(u) <=> k \in u.remove \/ u.store[k] # Absent
    BY DEF touched, stored
  <2>6. k \in touched(o) <=> k \in o.remove \/ k \in stored(o)
    BY DEF touched
  <2>7. k \in o.remove => o.store[k] = Absent
    BY DEF Overlay
  <2>8. k \in stored(o) <=> o.store[k] # Absent
    BY DEF stored
  <2>9. QED
    BY <2>1, <2>2, <2>3, <2>4, <2>5, <2>6, <2>7, <2>8
<1>3. apply_changes(u, d) \in Table
  BY <1>1, ApplyType
<1>4. QED
  BY <1>2, <1>3, TableEq

(* Writing one entry of an overlay does not change what the rest leads to. *)
LEMMA EntryAbsorbed ==
  ASSUME NEW o \in Overlay, NEW t \in Table, NEW k \in touched(o)
  PROVE  apply_changes(o, apply_entry(o, t, k)) = apply_changes(o, t)
<1>1. k \in Key
  BY DEF touched, stored, Overlay
<1>2. \A j \in Key \ touched(o) : apply_entry(o, t, k)[j] = t[j]
  BY DEF apply_entry, Table
<1>3. QED
  BY <1>1, <1>2 DEF apply_changes

-----------------------------------------------------------------------------
(* The block tree *)

LEMMA BranchOfBlock ==
  ASSUME NEW b \in Block
  PROVE  /\ Branch[b] \ {b} = Branch[Prev[b]]
         /\ Branch[b] = Branch[Prev[b]] \union {b}
         /\ Branch[Prev[b]] \subseteq Branch[b]
         /\ Prev[b] \in Node
         /\ b \notin Branch[Prev[b]]
         /\ Prev[b] # b
         /\ b # Genesis
<1>1. Branch[b] = {b} \union Branch[Prev[b]] /\ b \notin Branch[Prev[b]]
  BY BranchAssumption
<1>2. Prev[b] \in Node
  BY TreeAssumption
<1>3. \A a \in Node : a \in Branch[a]
  BY BranchAssumption DEF Node
<1>4. QED
  BY <1>1, <1>2, <1>3, GenesisAssumption

LEMMA BranchType ==
  ASSUME NEW b \in Node
  PROVE  /\ Branch[b] \subseteq Node
         /\ Branch[b] \ {Genesis} \subseteq Block
         /\ b \in Branch[b]
BY BranchAssumption DEF Node

LEMMA IndexRemoved ==
  ASSUME NEW b \in Block,
         \/ indexed = Branch[b] \ {Genesis}
         \/ indexed = Branch[Prev[b]] \ {Genesis}
  PROVE  without_number(Num[b]) = Branch[Prev[b]] \ {Genesis}
<1>1. \A a \in Branch[Prev[b]] : Num[a] # Num[b]
  <2>1. \A a \in Branch[Prev[b]] : Num[a] < Num[b] /\ Num[a] \in Nat
    BY OrderedAssumption, BranchOfBlock, BranchType, TreeAssumption
  <2>2. Num[b] \in Nat
    BY TreeAssumption DEF Node
  <2>3. QED
    BY <2>1, <2>2
<1>2. QED
  BY <1>1, BranchOfBlock DEF without_number

LEMMA LastIndexed ==
  ASSUME NEW b \in Node, indexed = Branch[b] \ {Genesis}
  PROVE  IF indexed = {} THEN b = Genesis ELSE last_indexed = {b}
<1>1. CASE b = Genesis
  BY <1>1, BranchAssumption
<1>2. CASE b \in Block
  <2>1. b \in indexed
    BY <1>2, BranchOfBlock
  <2>2. \A c \in indexed : Num[c] \in Nat
    BY BranchType, TreeAssumption
  <2>3. \A c \in indexed : c # b => Num[c] < Num[b]
    BY <1>2, BranchOfBlock, OrderedAssumption
  <2>4. QED
    BY <2>1, <2>2, <2>3 DEF last_indexed
<1>3. QED
  BY <1>1, <1>2 DEF Node

-----------------------------------------------------------------------------
(* Types *)

LEMMA TypeInit == Init => TypeOK
<1> SUFFICES ASSUME Init PROVE TypeOK
  OBVIOUS
<1>1. db \in Table /\ ledger \in [Node -> Table]
  BY GenesisLedgerAssumption DEF Init
<1>2. undo \in [Block -> Overlay \union {NoUndo}]
  BY DEF Init
<1>3. pending \in Overlay
  BY EmptyOverlayType DEF Init
<1>4. status \in [id : Node, version : {0, 1, 2}] /\ status.version # 1
  BY DEF Init, Node
<1>5. QED
  BY <1>1, <1>2, <1>3, <1>4 DEF Init, TypeOK, Node, Pcs

LEMMA TypeStep ==
  ASSUME TypeOK, [Next]_vars
  PROVE  TypeOK'
<1> USE DEF TypeOK, startup, Unrepaired
<1>1. ASSUME NEW b \in Block, extend_chain(b) PROVE TypeOK'
  BY <1>1, EmptyOverlayType DEF extend_chain, disk, Node, Pcs
<1>2. ASSUME NEW k \in Key, evaluate(k) PROVE TypeOK'
  <2>1. pending' \in Overlay
    BY <1>2, InsertType, RemoveType DEF evaluate
  <2>2. QED
    BY <1>2, <2>1 DEF evaluate, disk
<1>3. CASE refuse
  BY <1>3, EmptyOverlayType DEF refuse, Return, Node, Pcs
<1>4. CASE save_undo_state
  <2>1. get_undo_state(pending, db) \in Overlay /\ apply_changes(pending, db) \in Table
    BY UndoType, ApplyType
  <2>2. undo' \in [Block -> Overlay \union {NoUndo}]
    BY <1>4, <2>1 DEF save_undo_state
  <2>3. ledger' \in [Node -> Table]
    BY <1>4, <2>1 DEF save_undo_state
  <2>4. QED
    BY <1>4, <2>2, <2>3 DEF save_undo_state, Pcs
<1>5. CASE store_extend_status
  <2>1. touched(pending) \subseteq Key
    BY DEF touched, stored, Overlay
  <2>2. QED
    BY <1>5, <2>1 DEF store_extend_status, Node, Pcs
<1>6. ASSUME NEW k \in Key, apply_changes_step(k) PROVE TypeOK'
  <2>1. db' \in Table
    BY <1>6, ApplyEntryType DEF apply_changes_step
  <2>2. QED
    BY <1>6, <2>1 DEF apply_changes_step
<1>7. CASE mark_included
  BY <1>7 DEF mark_included, Pcs
<1>8. CASE store_index
  BY <1>8 DEF store_index, without_number, Pcs
<1>9. CASE complete
  BY <1>9, EmptyOverlayType DEF complete, Return, Node, Pcs
<1>10. CASE pop_block
  BY <1>10 DEF pop_block, Node, Pcs
<1>11. CASE remove_index
  <2>1. undo[cur] \in Overlay
    BY <1>11 DEF remove_index
  <2>2. touched(undo[cur]) \subseteq Key
    BY <2>1 DEF touched, stored, Overlay
  <2>3. QED
    BY <1>11, <2>1, <2>2 DEF remove_index, without_number, Pcs
<1>12. CASE undone
  BY <1>12, EmptyOverlayType, TreeAssumption DEF undone, Return, disk, Node, Pcs
<1>13. CASE crash
  BY <1>13, EmptyOverlayType DEF crash, Return, disk, Node, Pcs
<1>14. CASE open
  BY <1>14 DEF open, last_indexed, disk, Node, Pcs
<1>15. CASE repair_database
  BY <1>15 DEF repair_database, Pcs
<1>16. CASE UNCHANGED vars
  BY <1>16 DEF vars, disk, memory
<1>17. QED
  BY <1>1, <1>2, <1>3, <1>4, <1>5, <1>6, <1>7, <1>8, <1>9, <1>10, <1>11,
     <1>12, <1>13, <1>14, <1>15, <1>16 DEF Next, Step

(* Every database and every local variable keeps its type, whatever block  *)
(* is extended, popped or repaired and wherever the process dies.          *)
THEOREM TypeCorrect == Spec => []TypeOK
<1>1. TypeOK /\ [Next]_vars => TypeOK'
  BY TypeStep
<1>2. QED
  BY TypeInit, <1>1, PTL DEF Spec

-----------------------------------------------------------------------------
(* The inductive invariant, action by action, as long as no block overtakes *)
(* a repair                                                                 *)

USE DEF Unrepaired, startup

LEMMA InvInit == Init => LedgerInv
<1> SUFFICES ASSUME Init PROVE LedgerInv
  OBVIOUS
<1>1. Branch[Genesis] = {Genesis} /\ Genesis \in Node
  BY BranchAssumption DEF Node
<1>2. ledger[Genesis] = GenesisLedger
  BY <1>1 DEF Init
<1>3. QED
  BY <1>1, <1>2, TypeInit DEF Init, LedgerInv, UndoReverts, RunningInv, Settled,
     ApplyInv, FinishInv, DownInv, RevertInv

LEMMA ExtendStep ==
  ASSUME LedgerInv, TypeOK', ~overtaken, ~overtaken', NEW b \in Block, extend_chain(b)
  PROVE  LedgerInv'
<1>1. pc \in {"idle", "switch"} /\ pc' = "evaluate" /\ cur' = b /\ Prev[b] = head
  BY DEF extend_chain, Calm
<1>2. /\ UNCHANGED <<db, undo, included, indexed, status, head, switching, ledger, committed>>
      /\ ~Unrepaired
  BY DEF extend_chain, disk
<1>3. UndoReverts'
  BY <1>2 DEF LedgerInv, UndoReverts
<1>4. RunningInv'
  BY <1>1, <1>2 DEF LedgerInv, RunningInv, Settled, Revertible
<1>5. QED
  BY <1>1, <1>3, <1>4 DEF LedgerInv, ApplyInv, FinishInv, DownInv, RevertInv

LEMMA EvaluateStep ==
  ASSUME LedgerInv, TypeOK', ~overtaken, ~overtaken', NEW k \in Key, evaluate(k)
  PROVE  LedgerInv'
<1>1. pc = "evaluate" /\ pc' = "evaluate"
  BY DEF evaluate
<1>2. UNCHANGED <<db, undo, included, indexed, status, head, cur, switching, ledger, committed, startup>>
  BY DEF evaluate, disk
<1>3. UndoReverts'
  BY <1>2 DEF LedgerInv, UndoReverts
<1>4. RunningInv'
  BY <1>1, <1>2 DEF LedgerInv, RunningInv, Settled, Revertible
<1>5. QED
  BY <1>1, <1>3, <1>4 DEF LedgerInv, ApplyInv, FinishInv, DownInv, RevertInv

LEMMA RefuseStep ==
  ASSUME LedgerInv, TypeOK', ~overtaken, ~overtaken', refuse
  PROVE  LedgerInv'
<1>1. /\ pc = "evaluate" /\ pc' = "idle" /\ ~switching'
      /\ status'.version = 2
      /\ UNCHANGED <<db, undo, included, indexed, head, ledger, committed, startup>>
  BY DEF refuse, Return
<1>2. UndoReverts'
  BY <1>1 DEF LedgerInv, UndoReverts
<1>3. RunningInv'
  BY <1>1 DEF LedgerInv, RunningInv, Settled
<1>4. QED
  BY <1>1, <1>2, <1>3 DEF LedgerInv, ApplyInv, FinishInv, DownInv, RevertInv

LEMMA SaveStep ==
  ASSUME LedgerInv, TypeOK', ~overtaken, ~overtaken', save_undo_state
  PROVE  LedgerInv'
<1> USE DEF TypeOK
<1>1. /\ pc = "evaluate" /\ pc' = "saved"
      /\ UNCHANGED <<db, included, indexed, status, head, cur, pending, switching, committed, startup>>
      /\ cur \in Block /\ Prev[cur] = head /\ head \in Node
      /\ Settled(head)
  BY DEF save_undo_state, LedgerInv, RunningInv
<1>2. /\ undo' = [undo EXCEPT ![cur] = get_undo_state(pending, db)]
      /\ ledger' = [ledger EXCEPT ![cur] = apply_changes(pending, db)]
      /\ TypeOK
  BY DEF save_undo_state, LedgerInv
<1>3. cur \notin Branch[head] /\ cur # head /\ cur \in Node
  BY <1>1, BranchOfBlock DEF Node
<1>4. /\ undo'[cur] = get_undo_state(pending, db)
      /\ ledger'[cur] = apply_changes(pending, db)
      /\ \A b \in Block \ {cur} : undo'[b] = undo[b]
      /\ \A b \in Node \ {cur} : ledger'[b] = ledger[b]
  BY <1>2, <1>1, <1>3
<1>5. UndoReverts'
  <2> SUFFICES ASSUME NEW b \in Branch[head] \ {Genesis}
               PROVE  undo'[b] # NoUndo
                      /\ apply_changes(undo'[b], ledger'[b]) = ledger'[Prev[b]]
    BY <1>1 DEF UndoReverts
  <2>1. b \in Block /\ b # cur /\ b \in Node
    BY <1>1, <1>3, BranchType DEF Node
  <2>2. Branch[b] \subseteq Branch[head]
    BY <1>1, PathAssumption
  <2>3. Prev[b] \in Branch[head] /\ Prev[b] \in Node /\ Prev[b] # cur
    BY <2>1, <2>2, <1>3, BranchOfBlock, BranchType
  <2>4. QED
    BY <1>4, <2>1, <2>3 DEF LedgerInv, UndoReverts
<1>6. get_undo_state(pending, db) \in Overlay
      /\ apply_changes(get_undo_state(pending, db), db) = db
  BY <1>2, UndoType, UndoInverse
<1>7. status.version = 1 /\ ~switching => Revertible(status.id)' /\ Prev[status.id] = head
  <2> SUFFICES ASSUME status.version = 1, ~switching
               PROVE  Revertible(status.id)' /\ Prev[status.id] = head
    OBVIOUS
  <2>1. Revertible(status.id) /\ Prev[status.id] = head
    BY <1>1 DEF LedgerInv, RunningInv
  <2>2. ledger'[head] = db
    BY <1>1, <1>3, <1>4 DEF Settled
  <2>3. CASE status.id = cur
    BY <2>1, <2>2, <2>3, <1>1, <1>4, <1>6, NoUndoAssumption DEF Revertible
  <2>4. CASE status.id # cur
    BY <2>1, <2>2, <2>4, <1>1, <1>4 DEF Revertible, Settled
  <2>5. QED
    BY <2>3, <2>4
<1>8. RunningInv'
  BY <1>1, <1>3, <1>4, <1>7 DEF LedgerInv, RunningInv, Settled
<1>9. QED
  BY <1>1, <1>5, <1>8 DEF LedgerInv, ApplyInv, FinishInv, DownInv, RevertInv

LEMMA StatusStep ==
  ASSUME LedgerInv, TypeOK', ~overtaken, ~overtaken', store_extend_status
  PROVE  LedgerInv'
<1>1. /\ pc = "saved" /\ pc' = "apply" /\ ~switching'
      /\ status' = [id |-> cur, version |-> 1]
      /\ todo' = touched(pending)
      /\ UNCHANGED <<db, undo, included, indexed, head, cur, pending, ledger, committed, startup>>
  BY DEF store_extend_status
<1>2. UndoReverts'
  BY <1>1 DEF LedgerInv, UndoReverts
<1>3. /\ Settled(head) /\ committed = head
      /\ cur \in Block /\ Prev[cur] = head
      /\ undo[cur] = get_undo_state(pending, db)
      /\ ledger[cur] = apply_changes(pending, db)
  BY <1>1 DEF LedgerInv, RunningInv
<1>4. \A k \in Key \ touched(pending) : ledger[cur][k] = db[k]
  BY <1>3 DEF apply_changes
<1>5. ApplyInv'
  BY <1>1, <1>3, <1>4 DEF ApplyInv, Settled, Open
<1>6. QED
  BY <1>1, <1>2, <1>5 DEF LedgerInv, RunningInv, FinishInv, DownInv, RevertInv

(* While a block is applied each key holds its old or its new entry. *)
LEMMA ApplyingIsRevertible ==
  ASSUME LedgerInv, pc = "apply"
  PROVE  Revertible(cur) /\ apply_changes(undo[cur], ledger[cur]) = ledger[head]
<1>1. /\ cur \in Block /\ Prev[cur] = head
      /\ undo[cur] = get_undo_state(pending, ledger[head])
      /\ ledger[cur] = apply_changes(pending, ledger[head])
      /\ \A k \in Key : db[k] = IF k \in todo THEN ledger[head][k] ELSE ledger[cur][k]
  BY DEF LedgerInv, ApplyInv
<1>2. pending \in Overlay /\ db \in Table /\ ledger[head] \in Table /\ ledger[cur] \in Table
  BY <1>1 DEF LedgerInv, TypeOK, Node
<1>3. undo[cur] \in Overlay
  BY <1>1, <1>2, UndoType
<1>4. apply_changes(undo[cur], db) = ledger[head]
  BY <1>1, <1>2, UndoInverse
<1>5. apply_changes(undo[cur], ledger[cur]) = ledger[head]
  BY <1>1, <1>2, UndoInverse
<1>6. QED
  BY <1>1, <1>3, <1>4, <1>5, NoUndoAssumption DEF Revertible

LEMMA WriteStep ==
  ASSUME LedgerInv, TypeOK', ~overtaken, ~overtaken', NEW k \in Key, apply_changes_step(k)
  PROVE  LedgerInv'
<1>1. /\ pc \in {"apply", "undo"} /\ k \in todo
      /\ db' = apply_entry(pending, db, k)
      /\ todo' = todo \ {k}
      /\ UNCHANGED <<undo, included, indexed, status, head, pc, cur, pending,
                     switching, ledger, committed, startup>>
  BY DEF apply_changes_step
<1>2. UndoReverts'
  BY <1>1 DEF LedgerInv, UndoReverts
<1>3. db \in Table /\ pending \in Overlay
  BY DEF LedgerInv, TypeOK
<1>4. /\ db'[k] = pending.store[k]
      /\ \A j \in Key \ {k} : db'[j] = db[j]
  BY <1>1, <1>3 DEF apply_entry, Table
<1>5. CASE pc = "apply"
  <2>1. k \in touched(pending) /\ ledger[head] \in Table
        /\ ledger[cur] = apply_changes(pending, ledger[head])
    BY <1>1, <1>5 DEF LedgerInv, ApplyInv, TypeOK
  <2>2. ledger[cur][k] = pending.store[k]
    BY <2>1 DEF apply_changes
  <2>3. ApplyInv'
    BY <1>1, <1>4, <1>5, <2>2 DEF LedgerInv, ApplyInv, Open
  <2>4. QED
    BY <1>1, <1>2, <1>5, <2>3 DEF LedgerInv, RunningInv, FinishInv, DownInv, RevertInv
<1>6. CASE pc = "undo"
  <2>1. k \in touched(pending) /\ pending = undo[cur] /\ Revertible(cur)
    BY <1>1, <1>6 DEF LedgerInv, RevertInv
  <2>2. apply_changes(pending, db') = ledger[Prev[cur]]
    BY <1>1, <1>3, <2>1, EntryAbsorbed DEF Revertible
  <2>3. Revertible(cur)'
    BY <1>1, <2>1, <2>2 DEF Revertible
  <2>4. apply_changes(pending, db')[k] = pending.store[k]
    BY <2>1 DEF apply_changes
  <2>5. db'[k] = ledger[Prev[cur]][k]
    BY <1>4, <2>2, <2>4
  <2>6. RevertInv'
    BY <1>1, <1>4, <1>6, <2>3, <2>5 DEF LedgerInv, RevertInv, Listed, Open
  <2>7. QED
    BY <1>1, <1>2, <1>6, <2>6 DEF LedgerInv, RunningInv, FinishInv, DownInv, ApplyInv
<1>7. QED
  BY <1>1, <1>5, <1>6

LEMMA IncludeStep ==
  ASSUME LedgerInv, TypeOK', ~overtaken, ~overtaken', mark_included
  PROVE  LedgerInv'
<1>1. /\ pc = "apply" /\ pc' = "included" /\ todo = {}
      /\ included' = included \union {cur} /\ head' = cur
      /\ UNCHANGED <<db, undo, indexed, status, cur, switching, ledger, committed, startup>>
  BY DEF mark_included
<1>2. cur \in Block /\ Prev[cur] = head
  BY <1>1 DEF LedgerInv, ApplyInv
<1>3. db = ledger[cur]
  <2>1. \A k \in Key : db[k] = ledger[cur][k]
    BY <1>1 DEF LedgerInv, ApplyInv
  <2>2. db \in Table /\ ledger[cur] \in Table
    BY <1>2 DEF LedgerInv, TypeOK, Node
  <2>3. QED
    BY <2>1, <2>2, TableEq
<1>4. undo[cur] # NoUndo /\ apply_changes(undo[cur], ledger[cur]) = ledger[Prev[cur]]
  BY <1>1, <1>2, ApplyingIsRevertible DEF Revertible
<1>5. UndoReverts'
  BY <1>1, <1>2, <1>4, BranchOfBlock DEF LedgerInv, UndoReverts
<1>6. FinishInv'
  BY <1>1, <1>2, <1>3, BranchOfBlock DEF LedgerInv, ApplyInv, FinishInv, Open
<1>7. QED
  BY <1>1, <1>5, <1>6 DEF LedgerInv, RunningInv, ApplyInv, DownInv, RevertInv

LEMMA IndexStep ==
  ASSUME LedgerInv, TypeOK', ~overtaken, ~overtaken', store_index
  PROVE  LedgerInv'
<1>1. /\ pc = "included" /\ pc' = "indexed"
      /\ indexed' = without_number(Num[cur]) \union {cur}
      /\ UNCHANGED <<db, undo, included, status, head, cur, switching, ledger, committed, startup>>
  BY DEF store_index
<1>2. cur \in Block /\ indexed = Branch[Prev[cur]] \ {Genesis}
  BY <1>1 DEF LedgerInv, FinishInv
<1>3. indexed' = Branch[cur] \ {Genesis}
  BY <1>1, <1>2, IndexRemoved, BranchOfBlock
<1>4. UndoReverts'
  BY <1>1 DEF LedgerInv, UndoReverts
<1>5. FinishInv'
  BY <1>1, <1>3 DEF LedgerInv, FinishInv, Open
<1>6. QED
  BY <1>1, <1>4, <1>5 DEF LedgerInv, RunningInv, ApplyInv, DownInv, RevertInv

LEMMA CompleteStep ==
  ASSUME LedgerInv, TypeOK', ~overtaken, ~overtaken', complete
  PROVE  LedgerInv'
<1>1. /\ pc = "indexed" /\ pc' = "idle" /\ committed' = cur
      /\ status'.version = 2
      /\ UNCHANGED <<db, undo, included, indexed, head, switching, ledger, startup>>
  BY DEF complete, Return
<1>2. UndoReverts'
  BY <1>1 DEF LedgerInv, UndoReverts
<1>3. RunningInv'
  BY <1>1 DEF LedgerInv, FinishInv, RunningInv, Settled
<1>4. QED
  BY <1>1, <1>2, <1>3 DEF LedgerInv, ApplyInv, FinishInv, DownInv, RevertInv

LEMMA PopStep ==
  ASSUME LedgerInv, TypeOK', ~overtaken, ~overtaken', pop_block
  PROVE  LedgerInv'
<1>1. /\ pc \in {"idle", "switch"} /\ pc' = "unindex" /\ head # Genesis
      /\ cur' = head /\ switching'
      /\ included' = included \ {head}
      /\ UNCHANGED <<db, undo, indexed, status, head, ledger, committed>>
      /\ ~Unrepaired
  BY DEF pop_block, Calm
<1>2. head \in Block /\ Settled(head)
  BY <1>1 DEF LedgerInv, RunningInv, TypeOK, Node
<1>3. UndoReverts'
  BY <1>1 DEF LedgerInv, UndoReverts
<1>4. Revertible(head)
  BY <1>1, <1>2, BranchOfBlock DEF LedgerInv, UndoReverts, Revertible, Settled
<1>5. RevertInv'
  BY <1>1, <1>2, <1>4, BranchOfBlock DEF RevertInv, Revertible, Listed, Settled
<1>6. QED
  BY <1>1, <1>3, <1>5 DEF LedgerInv, RunningInv, ApplyInv, FinishInv, DownInv

LEMMA UnindexStep ==
  ASSUME LedgerInv, TypeOK', ~overtaken, ~overtaken', remove_index
  PROVE  LedgerInv'
<1>1. /\ pc = "unindex" /\ pc' = "undo"
      /\ indexed' = without_number(Num[cur])
      /\ pending' = undo[cur] /\ todo' = touched(undo[cur])
      /\ UNCHANGED <<db, undo, included, status, head, cur, switching, ledger, committed, startup>>
  BY DEF remove_index
<1>2. Revertible(cur) /\ Listed(cur)
  BY <1>1 DEF LedgerInv, RevertInv
<1>3. indexed' = Branch[Prev[cur]] \ {Genesis}
  BY <1>1, <1>2, IndexRemoved DEF Revertible, Listed
<1>4. \A k \in Key \ touched(undo[cur]) : db[k] = ledger[Prev[cur]][k]
  BY <1>2 DEF Revertible, apply_changes
<1>5. UndoReverts'
  BY <1>1 DEF LedgerInv, UndoReverts
<1>6. RevertInv'
  BY <1>1, <1>2, <1>3, <1>4 DEF LedgerInv, RevertInv, Revertible, Listed, Open
<1>7. QED
  BY <1>1, <1>5, <1>6 DEF LedgerInv, RunningInv, ApplyInv, FinishInv, DownInv

LEMMA UndoneStep ==
  ASSUME LedgerInv, TypeOK', ~overtaken, ~overtaken', undone
  PROVE  LedgerInv'
<1>1. /\ pc = "undo" /\ todo = {} /\ head' = Prev[cur]
      /\ pc' = IF switching THEN "switch" ELSE "idle"
      /\ committed' = IF switching THEN Prev[cur] ELSE committed
      /\ UNCHANGED <<db, undo, included, indexed, status, switching, ledger, startup>>
  BY DEF undone, Return, disk
<1>2. /\ Revertible(cur) /\ cur \in Block
      /\ included = Branch[Prev[cur]] /\ indexed = Branch[Prev[cur]] \ {Genesis}
      /\ head \in {cur, Prev[cur]}
      /\ ~switching => Open(cur) /\ committed = Prev[cur] /\ ~repair_due
      /\ \A k \in Key : db[k] = ledger[Prev[cur]][k]
  BY <1>1 DEF LedgerInv, RevertInv, Revertible, Listed
<1>3. db = ledger[Prev[cur]]
  BY <1>2, TableEq, BranchOfBlock DEF LedgerInv, TypeOK
<1>4. UndoReverts'
  BY <1>1, <1>2, BranchOfBlock DEF LedgerInv, UndoReverts
<1>5. switching \in BOOLEAN
  BY DEF LedgerInv, TypeOK
<1>6. RunningInv'
  BY <1>1, <1>2, <1>3, <1>5 DEF RunningInv, Settled, Revertible, Open
<1>7. QED
  BY <1>1, <1>2, <1>4, <1>5, <1>6 DEF LedgerInv, ApplyInv, FinishInv, DownInv, RevertInv

(* Wherever the process dies, what is on disk is what DownInv says. *)
LEMMA CrashStep ==
  ASSUME LedgerInv, TypeOK', ~overtaken, ~overtaken', CrashInSwitch = FALSE, crash
  PROVE  LedgerInv'
<1>1. /\ pc' = "down" /\ ~switching /\ ~switching'
      /\ UNCHANGED <<db, undo, included, indexed, status, head, ledger, committed>>
  BY DEF crash, Return, disk
<1>2. UndoReverts'
  BY <1>1 DEF LedgerInv, UndoReverts
<1>3. status \in [id : Node, version : {0, 1, 2}]
  BY DEF LedgerInv, TypeOK
<1>4. DownInv'
  <2>1. CASE pc \in {"switch", "evaluate", "saved"} \/ (pc = "idle" /\ ~Unrepaired)
    <3>1. Settled(head) /\ committed = head
      BY <2>1 DEF LedgerInv, RunningInv
    <3>2. CASE status.version = 1
      <4>1. Revertible(status.id) /\ Prev[status.id] = head
        BY <1>1, <2>1, <3>2 DEF LedgerInv, RunningInv
      <4>2. QED
        BY <1>1, <3>1, <3>2, <4>1 DEF DownInv, Settled, Revertible, Listed
    <3>3. CASE status.version # 1
      BY <1>1, <3>1, <3>3 DEF DownInv, Settled
    <3>4. QED
      BY <3>2, <3>3
  <2>2. CASE pc = "apply"
    <3>1. Revertible(cur) /\ Open(cur)
      BY <2>2, ApplyingIsRevertible DEF LedgerInv, ApplyInv
    <3>2. QED
      BY <1>1, <2>2, <3>1 DEF LedgerInv, ApplyInv, DownInv, Open, Revertible, Listed
  <2>3. CASE pc \in {"included", "indexed"}
    <3>1. cur \in Block /\ head = cur /\ db = ledger[cur] /\ Open(cur)
      BY <2>3 DEF LedgerInv, FinishInv
    <3>2. Revertible(cur)
      BY <3>1, BranchOfBlock DEF LedgerInv, UndoReverts, Revertible
    <3>3. QED
      BY <1>1, <2>3, <3>1, <3>2 DEF LedgerInv, FinishInv, DownInv, Open, Revertible, Listed
  <2>4. CASE pc \in {"unindex", "undo"}
    BY <1>1, <2>4 DEF LedgerInv, RevertInv, DownInv, Open, Revertible, Listed
  <2>5. CASE pc = "down" \/ (pc = "idle" /\ Unrepaired)
    BY <1>1, <2>5 DEF LedgerInv, DownInv, Settled, Revertible, Listed
  <2>6. QED
    BY <2>1, <2>2, <2>3, <2>4, <2>5 DEF LedgerInv, TypeOK, Pcs
<1>5. QED
  BY <1>1, <1>2, <1>4 DEF LedgerInv, RunningInv, ApplyInv, FinishInv, RevertInv

LEMMA OpenStep ==
  ASSUME LedgerInv, TypeOK', ~overtaken, ~overtaken', open
  PROVE  LedgerInv'
<1>1. /\ pc = "down" /\ pc' = "idle" /\ Unrepaired' = (status.version = 1)
      /\ IF indexed = {} THEN head' = Genesis ELSE head' \in last_indexed
      /\ UNCHANGED <<db, undo, included, indexed, status, switching, ledger, committed>>
  BY DEF open, disk
<1>2. head \in Node /\ ~switching
  BY <1>1 DEF LedgerInv, TypeOK, DownInv
<1>3. ASSUME NEW b \in Node, indexed = Branch[b] \ {Genesis} PROVE head' = b
  BY <1>1, <1>3, LastIndexed
<1>4. CASE status.version = 1
  <2> DEFINE c == status.id
  <2>1. /\ Revertible(c) /\ c \in Block /\ Listed(c)
        /\ included \in {Branch[c], Branch[Prev[c]]} /\ committed = Prev[c]
    BY <1>1, <1>4 DEF LedgerInv, DownInv, Revertible
  <2>2. c \in Node /\ Prev[c] \in Node /\ Branch[Prev[c]] \subseteq Branch[c]
    BY <2>1, BranchOfBlock DEF Node
  <2>3. Listed(c)' /\ Branch[head'] \subseteq Branch[head]
    BY <1>1, <1>3, <2>1, <2>2 DEF Listed
  <2>4. UndoReverts'
    BY <1>1, <2>3 DEF LedgerInv, UndoReverts
  <2>5. DownInv'
    BY <1>1, <1>2, <1>4, <2>1, <2>3 DEF DownInv, Revertible
  <2>6. QED
    BY <1>1, <1>4, <2>4, <2>5 DEF LedgerInv, RunningInv, ApplyInv, FinishInv, RevertInv
<1>5. CASE status.version # 1
  <2>1. Settled(head) /\ committed = head
    BY <1>1, <1>5 DEF LedgerInv, DownInv
  <2>2. head' = head
    BY <1>2, <1>3, <2>1 DEF Settled
  <2>3. UndoReverts'
    BY <1>1, <2>2 DEF LedgerInv, UndoReverts
  <2>4. RunningInv'
    BY <1>1, <1>2, <1>5, <2>1, <2>2 DEF RunningInv, Settled
  <2>5. QED
    BY <1>1, <1>5, <2>3, <2>4 DEF LedgerInv, DownInv, ApplyInv, FinishInv, RevertInv
<1>6. QED
  BY <1>4, <1>5

LEMMA RepairStep ==
  ASSUME LedgerInv, TypeOK', ~overtaken, ~overtaken', repair_database
  PROVE  LedgerInv'
<1>1. /\ pc = "idle" /\ Unrepaired /\ status.version = 1
      /\ cur' = status.id /\ included' = included \ {status.id} /\ pc' = "unindex" /\ ~repair_due'
      /\ UNCHANGED <<db, undo, indexed, status, head, switching, ledger, committed>>
  BY DEF repair_database
<1>2. UndoReverts' /\ ~switching
  BY <1>1 DEF LedgerInv, UndoReverts, DownInv
<1>3. /\ Revertible(status.id) /\ status.id \in Block /\ Listed(status.id)
      /\ included \in {Branch[status.id], Branch[Prev[status.id]]}
      /\ committed = Prev[status.id]
  BY <1>1 DEF LedgerInv, DownInv, Revertible
<1>4. included' = Branch[Prev[status.id]]
  BY <1>1, <1>3, BranchOfBlock
<1>5. Open(status.id)
  BY <1>1 DEF LedgerInv, TypeOK, Open
<1>6. RevertInv'
  BY <1>1, <1>2, <1>3, <1>4, <1>5 DEF RevertInv, Revertible, Listed, Open
<1>7. QED
  BY <1>1, <1>2, <1>6 DEF LedgerInv, RunningInv, ApplyInv, FinishInv, DownInv

LEMMA InvStep ==
  ASSUME LedgerInv, ~overtaken, ~overtaken', CrashInSwitch = FALSE, [Next]_vars
  PROVE  LedgerInv'
<1>1. TypeOK'
  BY TypeStep DEF LedgerInv
<1>2. CASE UNCHANGED vars
  BY <1>2 DEF vars, disk, memory, LedgerInv, TypeOK, UndoReverts, RunningInv,
     ApplyInv, FinishInv, DownInv, RevertInv, Settled, Revertible, Listed, Open
<1>3. QED
  BY <1>1, <1>2, ExtendStep, EvaluateStep, RefuseStep, SaveStep, StatusStep,
     WriteStep, IncludeStep, IndexStep, CompleteStep, PopStep, UnindexStep,
     UndoneStep, CrashStep, OpenStep, RepairStep DEF Next, Step

(* Once a block overtook a repair, that is so for good. *)
LEMMA OvertakenStays ==
  ASSUME TypeOK, overtaken, [Next]_vars
  PROVE  overtaken'
BY DEF Next, Step, vars, extend_chain, evaluate, refuse, save_undo_state,
   store_extend_status, apply_changes_step, mark_included, store_index, complete,
   pop_block, remove_index, undone, crash, open, repair_database

LEMMA InvCorrect ==
  ASSUME CrashInSwitch = FALSE
  PROVE  Spec => [](overtaken \/ LedgerInv)
<1> DEFINE IInv == TypeOK /\ (overtaken \/ LedgerInv)
<1>1. Init => IInv
  BY InvInit, TypeInit
<1>2. IInv /\ [Next]_vars => IInv'
  <2> SUFFICES ASSUME IInv, [Next]_vars PROVE IInv'
    OBVIOUS
  <2>1. TypeOK'
    BY TypeStep
  <2>2. overtaken' \/ LedgerInv'
    BY InvStep, OvertakenStays
  <2>3. QED
    BY <2>1, <2>2
<1>3. IInv => overtaken \/ LedgerInv
  OBVIOUS
<1>4. QED
  BY <1>1, <1>2, <1>3, PTL DEF Spec

-----------------------------------------------------------------------------
(* After extensions, pops, crashes at any write of an extension or of a    *)
(* repair, any number of restarts and blocks taken before and after the    *)
(* repair, the tables are those of the head, unless a block came while an  *)
(* interrupted one was still to be repaired.                               *)
THEOREM LedgerRecovered ==
  ASSUME CrashInSwitch = FALSE
  PROVE  Spec => []LedgerIsHeads
<1>1. overtaken \/ LedgerInv => LedgerIsHeads
  BY DEF LedgerInv, RunningInv, Settled, Serving, LedgerIsHeads
<1>2. QED
  BY <1>1, InvCorrect, PTL

(* ... and so are the include flags and the number index. *)
THEOREM ListsRecovered ==
  ASSUME CrashInSwitch = FALSE
  PROVE  Spec => []ListsAreHeads
<1>1. overtaken \/ LedgerInv => ListsAreHeads
  BY DEF LedgerInv, RunningInv, Settled, Serving, ListsAreHeads
<1>2. QED
  BY <1>1, InvCorrect, PTL

(* No restart takes back a block whose extension was complete, under the   *)
(* same condition.                                                         *)
THEOREM CommittedKept ==
  ASSUME CrashInSwitch = FALSE
  PROVE  Spec => []CommittedSurvives
<1>1. overtaken \/ LedgerInv => CommittedSurvives
  BY DEF LedgerInv, RunningInv, Serving, CommittedSurvives
<1>2. QED
  BY <1>1, InvCorrect, PTL

(* Every block of the main chain can be popped, one after the other, in    *)
(* every state of every call and of the start-up, under the same condition. *)
THEOREM ChainReverts ==
  ASSUME CrashInSwitch = FALSE
  PROVE  Spec => []UndoReverts
<1>1. overtaken \/ LedgerInv => UndoReverts
  BY DEF LedgerInv, UndoReverts
<1>2. QED
  BY <1>1, InvCorrect, PTL

=============================================================================
