------------------------- MODULE ChainDatabaseProofs -------------------------
(***************************************************************************)
(* Proofs about ChainDatabase for every block tree, every undo window and  *)
(* every clock: the main chain and its number index, which blocks the      *)
(* marks of the fork database let through, what the search loop of         *)
(* push_block may settle on, and that the head it leaves implements        *)
(* MainChain.  Some theorems take from the environment that the undo state *)
(* of a block that has to be popped is there (UndoAvailable); the run      *)
(* deep_fork shows that the code does not ensure it by itself, and         *)
(* UndoSuffices says which forks are shallow enough.                       *)
(***************************************************************************)
EXTENDS ChainDatabaseProps, WellFoundedInduction, TLAPS

(* MarkAll keeps the type of the table of fork data it updates. *)
LEMMA MarkAllType ==
  ASSUME NEW R, NEW f \in [Node -> R], NEW S, NEW v \in R
  PROVE  MarkAll(f, S, v) \in [Node -> R]
BY DEF MarkAll

(* mark_as_unchecked keeps the type of the marks. *)
LEMMA UncheckedType ==
  ASSUME NEW K, NEW S, NEW f \in [Node -> Checked]
  PROVE  mark_as_unchecked(K, f, S) \in [Node -> Checked]
<1>1. "unchecked" \in Checked
  BY DEF Checked
<1> QED BY <1>1, MarkAllType DEF mark_as_unchecked

(* A call of push_block that is over, or goes on, leaves its variables typed. *)
LEMMA ReturnType == Return => CursorOK'
BY DEF Return, CursorOK, Node

LEMMA NextCandidateType == CursorOK /\ pc # "idle" /\ NextCandidate => CursorOK'
BY DEF NextCandidate, CursorOK, Node

LEMMA CursorUnchanged == CursorOK /\ UNCHANGED cursor => CursorOK'
BY DEF cursor, CursorOK

(* The initial database, as initialize_genesis leaves it, is well typed. *)
LEMMA InitTypeOK == Init => TypeOK
<1> SUFFICES ASSUME Init PROVE TypeOK
  OBVIOUS
<1>1. is_valid \in [Node -> Checked]
  BY DEF Init, Checked
<1>2. is_linked \in [Node -> BOOLEAN]
  BY DEF Init
<1>3. fork_number_db \in [Heights -> Seq(Block)]
  <2>1. <<>> \in Seq(Block)
    OBVIOUS
  <2> QED BY <2>1 DEF Init
<1>4. num_to_id \in [Heights -> Block \union {NoBlock}]
  BY DEF Init
<1>5. Genesis \in Node
  BY DEF Node
<1> QED BY <1>1, <1>2, <1>3, <1>4, <1>5 DEF Init, TypeOK, CursorOK

(* Every step of push_block, of the clock and of open keeps the types. *)
LEMMA NextTypeOK == TypeOK /\ [Next]_vars => TypeOK'
<1> SUFFICES ASSUME TypeOK, [Next]_vars PROVE TypeOK'
  OBVIOUS
<1> USE TreeAssumption
<1>g. Genesis \in Node /\ \A b \in Block : b \in Node /\ Num[b] \in Heights
  BY DEF Node, Heights
<1>c. CursorOK /\ head \in Node
  BY DEF TypeOK
<1>1. ASSUME NEW b \in Block, push_block(b) PROVE TypeOK'
  <2> DEFINE valid == MarkAll(is_valid, recursive_mark_as_invalid(b), is_valid[Prev[b]])
  <2>1. valid \in [Node -> Checked]
    <3>1. is_valid[Prev[b]] \in Checked
      BY DEF TypeOK
    <3> QED BY <3>1, MarkAllType DEF TypeOK
  <2>2. is_linked' \in [Node -> BOOLEAN]
    <3>1. is_linked' = MarkAll(is_linked, recursive_mark_as_linked(b), TRUE)
      BY <1>1 DEF push_block
    <3> QED BY <3>1, MarkAllType DEF TypeOK
  <2>3. PICK f \in longest_fork(b) :
          IF can_link(is_linked', valid, f)
          THEN /\ is_valid' = valid
               /\ UNCHANGED future_blocks
               /\ IF Num[f] > Num[head]
                  THEN /\ pc' = "try"
                       /\ pushed' = b
                       /\ start' = head
                       /\ level' = Num[f]
                       /\ idx' = 1
                       /\ UNCHANGED <<target, base>>
                  ELSE Return
          ELSE /\ future_blocks' = retained_future_blocks
               /\ is_valid' = mark_as_unchecked(known', valid, future_blocks')
               /\ Return
    BY <1>1 DEF push_block
  <2>4. f \in Block
    BY <2>3 DEF longest_fork, Descendants, TypeOK
  <2>5. is_valid' \in [Node -> Checked]
    <3> HIDE DEF valid
    <3> QED BY <2>1, <2>3, UncheckedType
  <2>6. future_blocks' \subseteq Block
    BY <2>3 DEF retained_future_blocks, TypeOK
  <2>7. fork_number_db' \in [Heights -> Seq(Block)]
    <3>1. fork_number_db[Num[b]] \in Seq(Block)
      BY <1>g DEF TypeOK
    <3>2. Append(fork_number_db[Num[b]], b) \in Seq(Block)
      BY <3>1
    <3> QED BY <1>1, <3>2 DEF push_block, TypeOK
  <2>8. CursorOK'
    <3>1. Num[f] \in Nat
      BY <1>g, <2>4
    <3>2. \/ Return
          \/ /\ pc' = "try" /\ pushed' = b /\ start' = head
             /\ level' = Num[f] /\ idx' = 1
             /\ UNCHANGED <<target, base>>
      BY <2>3
    <3>3. CASE Return
      BY <3>3, ReturnType
    <3>4. CASE /\ pc' = "try" /\ pushed' = b /\ start' = head
               /\ level' = Num[f] /\ idx' = 1
               /\ UNCHANGED <<target, base>>
      BY <1>g, <1>c, <3>1, <3>4 DEF CursorOK
    <3> QED BY <3>2, <3>3, <3>4
  <2>9. known' \subseteq Block
    BY <1>1 DEF push_block, TypeOK
  <2>10. UNCHANGED <<included, head, num_to_id, undo, applied, clock>>
    BY <1>1 DEF push_block, chain
  <2> QED BY <2>2, <2>5, <2>6, <2>7, <2>8, <2>9, <2>10 DEF TypeOK
<1>2. CASE next_number
  <2>1. CursorOK'
    <3>1. CASE Return
      BY <3>1, ReturnType
    <3>2. CASE level > 1 /\ level' = level - 1 /\ idx' = 1
               /\ UNCHANGED <<pc, pushed, start, target, base>>
      BY <1>c, <3>2 DEF CursorOK
    <3> QED BY <1>2, <3>1, <3>2 DEF next_number
  <2> QED BY <1>2, <2>1 DEF next_number, tree, chain, TypeOK
<1>3. CASE switch_to_fork
  <2>1. parallel_blocks[idx] \in Node
    <3>1. parallel_blocks \in Seq(Block)
      BY DEF parallel_blocks, TypeOK
    <3>2. idx \in 1..Len(parallel_blocks)
      BY <1>3, <3>1 DEF switch_to_fork, TypeOK, CursorOK
    <3> QED BY <1>g, <3>1, <3>2
  <2> DEFINE b == parallel_blocks[idx]
  <2>2. \/ NextCandidate
        \/ Return
        \/ \E a \in Node : /\ pc' = "pop"
                           /\ target' = b
                           /\ base' = a
                           /\ UNCHANGED <<pushed, start, level, idx>>
    BY <1>3 DEF switch_to_fork
  <2>3. UNCHANGED <<tree, chain, clock>>
    BY <1>3 DEF switch_to_fork
  <2>4. CursorOK'
    <3>1. pc # "idle"
      BY <1>3 DEF switch_to_fork
    <3>2. ASSUME NEW a \in Node,
                 pc' = "pop", target' = b, base' = a,
                 UNCHANGED <<pushed, start, level, idx>>
          PROVE  CursorOK'
      BY <1>c, <2>1, <3>1, <3>2 DEF CursorOK
    <3> QED BY <1>c, <2>2, <3>1, <3>2, ReturnType, NextCandidateType
  <2> QED BY <2>3, <2>4 DEF tree, chain, TypeOK
<1>4. CASE pop_block
  <2>1. head \in Block
    BY <1>4 DEF pop_block, TypeOK, Node
  <2>2. num_to_id' \in [Heights -> Block \union {NoBlock}]
    BY <1>4 DEF pop_block, remove_index, TypeOK
  <2>3. head' \in Node /\ applied' \subseteq Block /\ included' \subseteq Node
    BY <1>4, <2>1 DEF pop_block, TypeOK
  <2>4. CursorOK'
    BY <1>4, <1>c, NextCandidateType, CursorUnchanged DEF pop_block
  <2> QED BY <1>4, <2>2, <2>3, <2>4 DEF pop_block, tree, TypeOK
<1>5. ASSUME NEW b \in Block, extend_chain(b) PROVE TypeOK'
  <2>1. is_valid' \in [Node -> Checked]
    BY <1>5 DEF extend_chain, TypeOK, Checked
  <2>2. num_to_id' \in [Heights -> Block \union {NoBlock}]
    BY <1>5, <1>g DEF extend_chain, TypeOK
  <2>3. undo' \subseteq Block
    BY <1>5 DEF extend_chain, save_undo_state, TypeOK
  <2>4. CursorOK'
    <3>1. CASE Return
      BY <3>1, ReturnType
    <3>2. CASE pc' = "extend" /\ UNCHANGED <<pushed, start, level, idx, target, base>>
      BY <1>5, <1>c, <3>2 DEF extend_chain, Extending, CursorOK
    <3> QED BY <1>5, <3>1, <3>2 DEF extend_chain
  <2> QED BY <1>5, <1>g, <2>1, <2>2, <2>3, <2>4 DEF extend_chain, TypeOK
<1>6. ASSUME NEW b \in Block, mark_invalid(b) PROVE TypeOK'
  <2>1. is_valid' \in [Node -> Checked]
    <3>1. invalid_reason(b) \in Checked
      BY DEF invalid_reason, Checked
    <3> QED BY <1>6, <3>1, MarkAllType DEF mark_invalid, TypeOK
  <2>2. future_blocks' \subseteq Block
    <3>1. pushed \in Block
      BY <1>6 DEF mark_invalid, Extending, TypeOK, CursorOK
    <3> QED BY <1>6, <3>1 DEF mark_invalid, TypeOK
  <2>3. CursorOK'
    BY <1>6, <1>c, NextCandidateType DEF mark_invalid, Extending
  <2> QED BY <1>6, <2>1, <2>2, <2>3 DEF mark_invalid, chain, TypeOK
<1>7. CASE tick
  BY <1>7 DEF tick, tree, chain, cursor, TypeOK, CursorOK
<1>8. CASE open
  <2>1. head' \in Node
    BY <1>8, <1>g DEF open, last_indexed
  <2>2. future_blocks' \subseteq Block
    BY <1>8 DEF open, retained_future_blocks, TypeOK
  <2>3. is_valid' \in [Node -> Checked]
    BY <1>8, UncheckedType DEF open, TypeOK
  <2> QED BY <1>8, <2>1, <2>2, <2>3 DEF open, cursor, TypeOK, CursorOK
<1>9. CASE UNCHANGED vars
  BY <1>9 DEF vars, tree, chain, cursor, TypeOK, CursorOK
<1> QED BY <1>1, <1>2, <1>3, <1>4, <1>5, <1>6, <1>7, <1>8, <1>9 DEF Next, Step, pop_genesis

(* TypeOK holds in every reachable state of the chain database. *)
THEOREM TypeCorrect == Spec => []TypeOK
BY InitTypeOK, NextTypeOK, PTL DEF Spec

-----------------------------------------------------------------------------
(* Going one block back, or one block on, along a branch. *)
LEMMA BranchBack ==
  ASSUME NEW b \in Block
  PROVE  /\ Prev[b] \in Node
         /\ Branch[b] = {b} \union Branch[Prev[b]]
         /\ b \notin Branch[Prev[b]]
         /\ b \in Branch[b]
BY TreeAssumption, BranchAssumption

(* A main chain of one block less: what pop_block leaves. *)
LEMMA PopChain ==
  ASSUME ChainInv, head \in Block,
         included' = included \ {head},
         applied' = applied \ {head},
         num_to_id' = remove_index(Num[head]),
         head' = Prev[head]
  PROVE  MainChainConsistent' /\ HeadBranchSequential' /\ HeadBranchOrdered'
<1>1. /\ Branch[head] = {head} \union Branch[head']
      /\ head \notin Branch[head']
      /\ head \in Branch[head]
  BY BranchBack
<1>2. HeadBranchSequential' /\ HeadBranchOrdered'
  BY <1>1 DEF ChainInv, HeadBranchSequential, HeadBranchOrdered
<1>3. IncludedMatchesHead' /\ LedgerMatchesHead'
  BY <1>1 DEF ChainInv, MainChainConsistent, IncludedMatchesHead, LedgerMatchesHead
<1>4. NumberIndexMatchesHead'
  <2> SUFFICES ASSUME NEW n \in Heights, NEW b \in Block
               PROVE  num_to_id'[n] = b <=> b \in Branch[head'] /\ Num[b] = n
    BY DEF NumberIndexMatchesHead
  <2>1. num_to_id[n] = b <=> b \in Branch[head] /\ Num[b] = n
    BY DEF ChainInv, MainChainConsistent, NumberIndexMatchesHead
  <2>2. num_to_id'[n] = IF n = Num[head] THEN NoBlock ELSE num_to_id[n]
    BY DEF remove_index, ChainInv, TypeOK
  <2>3. \A a \in Branch[head'] : Num[a] < Num[head]
    BY <1>1 DEF ChainInv, HeadBranchOrdered
  <2>4. NoBlock # b /\ Num[b] \in Nat /\ Num[head] \in Nat
    BY GenesisAssumption, TreeAssumption DEF Node
  <2>5. CASE n = Num[head]
    BY <2>2, <2>3, <2>4, <2>5
  <2>6. CASE n # Num[head]
    BY <1>1, <2>1, <2>2, <2>6
  <2> QED BY <2>5, <2>6
<1> QED BY <1>2, <1>3, <1>4 DEF MainChainConsistent

(* A main chain of one block more: what extend_chain leaves. *)
LEMMA ExtendChain ==
  ASSUME ChainInv, NEW b \in Block, Num[b] = 1 => Prev[b] = Genesis,
         Prev[b] = head, sequential(b), b \in Good,
         included' = included \union {b},
         applied' = applied \union {b},
         num_to_id' = [num_to_id EXCEPT ![Num[b]] = b],
         head' = b
  PROVE  MainChainConsistent' /\ HeadBranchSequential' /\ HeadBranchOrdered'
<1>1. /\ Branch[b] = {b} \union Branch[head]
      /\ b \notin Branch[head]
      /\ b \in Branch[b]
      /\ b # Genesis
  BY BranchBack, GenesisAssumption
<1>2. Num[b] \in Nat /\ Num[head] \in Nat /\ Num[b] = Num[head] + 1
  <2>1. Num[b] \in Nat /\ Num[b] > 0 /\ Num[head] \in Nat
    BY TreeAssumption, NumAssumption DEF ChainInv, TypeOK, Node
  <2>2. CASE Num[b] > 1
    BY <2>1, <2>2 DEF sequential
  <2>3. CASE Num[b] = 1
    BY <2>1, <2>3, NumAssumption
  <2> QED BY <2>1, <2>2, <2>3
<1>3. \A a \in Branch[head] : Num[a] \in Nat /\ Num[a] < Num[b]
  <2>1. head \in Node /\ \A a \in Branch[head] : a \in Node
    BY BranchAssumption DEF ChainInv, TypeOK
  <2>2. head \in Branch[head]
    BY <2>1, BranchAssumption DEF Node
  <2>3. \A a \in Branch[head] \ {head} : Num[a] < Num[head]
    BY <2>2 DEF ChainInv, HeadBranchOrdered
  <2>4. \A a \in Branch[head] : Num[a] \in Nat
    BY <2>1, TreeAssumption
  <2> QED BY <1>2, <2>3, <2>4
<1>4. HeadBranchSequential'
  BY <1>1, <1>2 DEF ChainInv, HeadBranchSequential, sequential
<1>5. HeadBranchOrdered'
  BY <1>1, <1>3 DEF ChainInv, HeadBranchOrdered
<1>6. IncludedMatchesHead' /\ LedgerMatchesHead'
  BY <1>1 DEF ChainInv, MainChainConsistent, IncludedMatchesHead, LedgerMatchesHead
<1>7. NumberIndexMatchesHead'
  <2> SUFFICES ASSUME NEW n \in Heights, NEW c \in Block
               PROVE  num_to_id'[n] = c <=> c \in Branch[b] /\ Num[c] = n
    BY DEF NumberIndexMatchesHead
  <2>1. num_to_id[n] = c <=> c \in Branch[head] /\ Num[c] = n
    BY DEF ChainInv, MainChainConsistent, NumberIndexMatchesHead
  <2>2. num_to_id'[n] = IF n = Num[b] THEN b ELSE num_to_id[n]
    BY DEF ChainInv, TypeOK
  <2>3. CASE n = Num[b]
    BY <1>1, <1>2, <1>3, <2>2, <2>3
  <2>4. CASE n # Num[b]
    BY <1>1, <2>1, <2>2, <2>4
  <2> QED BY <2>3, <2>4
<1> QED BY <1>4, <1>5, <1>6, <1>7 DEF MainChainConsistent

(* After a clean restart the last entry of the number index is the old head. *)
LEMMA OpenKeepsHead ==
  ASSUME ChainInv, open
  PROVE  head' = head
<1>1. head \in Node /\ Branch[head] \subseteq Node
  BY BranchAssumption DEF ChainInv, TypeOK
<1>2. \A n \in Heights : \A b \in Block :
        num_to_id[n] = b <=> b \in Branch[head] /\ Num[b] = n
  BY DEF ChainInv, MainChainConsistent, NumberIndexMatchesHead
<1>3. CASE head = Genesis
  <2>1. last_indexed = {}
    BY <1>2, <1>3, BranchAssumption, GenesisAssumption DEF last_indexed
  <2> QED BY <1>3, <2>1 DEF open
<1>4. CASE head \in Block
  <2>1. head \in Branch[head] /\ Num[head] \in Heights /\ Num[head] \in Nat
    BY <1>1, <1>4, BranchBack, TreeAssumption DEF Heights
  <2>2. num_to_id[Num[head]] = head /\ head # NoBlock
    BY <1>1, <1>2, <1>4, <2>1, GenesisAssumption
  <2>3. ASSUME NEW b \in last_indexed PROVE b = head
    <3>1. PICK n \in Heights : /\ num_to_id[n] = b
                               /\ \A m \in Heights : num_to_id[m] # NoBlock => m <= n
      BY <2>3 DEF last_indexed
    <3>2. b \in Branch[head] /\ Num[b] = n /\ Num[head] <= n
      BY <1>2, <2>1, <2>2, <3>1, <2>3 DEF last_indexed
    <3>3. Num[b] \in Nat
      BY <1>1, <3>2, TreeAssumption
    <3>4. b # head => Num[b] < Num[head]
      BY <2>1, <3>2 DEF ChainInv, HeadBranchOrdered
    <3> QED BY <2>1, <3>2, <3>3, <3>4
  <2>4. head \in last_indexed
    <3>1. ASSUME NEW m \in Heights, num_to_id[m] # NoBlock PROVE m <= Num[head]
      <4>1. num_to_id[m] \in Block
        BY <3>1 DEF ChainInv, TypeOK
      <4>2. num_to_id[m] \in Branch[head] /\ Num[num_to_id[m]] = m
        BY <1>2, <4>1
      <4>3. m \in Nat
        BY <1>1, <4>2, TreeAssumption
      <4> QED BY <2>1, <4>2, <4>3 DEF ChainInv, HeadBranchOrdered
    <3> QED BY <1>4, <2>1, <2>2, <3>1 DEF last_indexed
  <2> QED BY <2>3, <2>4 DEF open
<1> QED BY <1>1, <1>3, <1>4 DEF Node

(* Steps that leave head, flags, ledger and index alone keep the invariants. *)
LEMMA ChainUnchanged ==
  ASSUME ChainInv, UNCHANGED <<included, applied, num_to_id, head>>
  PROVE  MainChainConsistent' /\ HeadBranchSequential' /\ HeadBranchOrdered'
BY DEF ChainInv, MainChainConsistent, IncludedMatchesHead, LedgerMatchesHead,
       NumberIndexMatchesHead, HeadBranchSequential, HeadBranchOrdered

(* The database initialize_genesis creates satisfies the invariant. *)
LEMMA InitChainInv == Init => ChainInv
<1> SUFFICES ASSUME Init PROVE ChainInv
  OBVIOUS
<1>1. head = Genesis /\ Branch[head] = {Genesis}
  BY BranchAssumption DEF Init
<1>2. NumberIndexMatchesHead
  BY <1>1, GenesisAssumption DEF Init, NumberIndexMatchesHead, Node
<1>3. IncludedMatchesHead /\ LedgerMatchesHead
  BY <1>1 DEF Init, IncludedMatchesHead, LedgerMatchesHead
<1>4. HeadBranchSequential /\ HeadBranchOrdered
  BY <1>1 DEF HeadBranchSequential, HeadBranchOrdered
<1> QED BY <1>2, <1>3, <1>4, InitTypeOK DEF ChainInv, MainChainConsistent

-----------------------------------------------------------------------------
(* What holds whether or not the undo states reach far enough back. *)

(* Every entry of the number index is a block of the main chain, at its number. *)
IndexOnHeadBranch ==
  \A n \in Heights : num_to_id[n] # NoBlock =>
    num_to_id[n] \in Branch[head] /\ Num[num_to_id[n]] = n

(* The link flag is closed under previous, and only stored blocks carry it. *)
LinkedDown ==
  \A b \in Node : is_linked[b] =>
    \A a \in Branch[b] : is_linked[a] /\ (a = Genesis \/ a \in known)

(* With link flags l and marks v, no block of the branch of t is refused. *)
NotRefused(l, v, t) == \A a \in Branch[t] : l[a] /\ v[a] \notin Bad
ValidOn(l, v) == \A b \in Node : v[b] = "valid" => NotRefused(l, v, b)

(* No block of the main chain is marked as refused, and genesis never is. *)
HeadNotRefused == NotRefused(is_linked, is_valid, head)
GenesisNotRefused == NotRefused(is_linked, is_valid, Genesis)

(* switch_to_fork runs for a block that is linked. *)
TargetLinked == pc \in {"pop", "extend"} => is_linked[target]

TreeInv ==
  /\ TypeOK
  /\ HeadBranchSequential
  /\ HeadBranchOrdered
  /\ IndexOnHeadBranch
  /\ LinkedDown
  /\ HeadNotRefused
  /\ GenesisNotRefused
  /\ TargetLinked
  /\ ValidOnValidBranch

-----------------------------------------------------------------------------
(* The search loop, as long as undo states reach far enough back. *)

(* A block that every check but the clock's accepts on top of its parent. *)
Sound(b) ==
  /\ b \in Good
  /\ Num[b] = Num[Prev[b]] + 1
  /\ Num[b] > 1 => Time[b] > Time[Prev[b]]

(* The main chain has a block at every number up to the head's. *)
HeadBranchDense ==
  \A n \in 1..Num[head] : \E b \in Branch[head] : b \in Block /\ Num[b] = n

(* _fork_number_db lists every stored block, under its own number. *)
ForkNumbersListed ==
  /\ \A n \in Heights : \A i \in 1..Len(fork_number_db[n]) :
       fork_number_db[n][i] \in known /\ Num[fork_number_db[n][i]] = n
  /\ \A b \in known : \E i \in 1..Len(fork_number_db[Num[b]]) :
       fork_number_db[Num[b]][i] = b

(* The candidate switch_to_fork was called with. *)
TargetListed ==
  pc \in {"pop", "extend"} =>
    /\ level \in Heights
    /\ idx \in 1..Len(fork_number_db[level])
    /\ target = fork_number_db[level][idx]

(* The loop has still to come to block b, or is trying it now. *)
Ahead(b) ==
  \/ Num[b] < level
  \/ /\ Num[b] = level
     /\ \E i \in 1..Len(fork_number_db[level]) :
          i >= idx /\ fork_number_db[level][i] = b

(* The branch the call found as the main chain stays one it can return to. *)
StartSound ==
  pc # "idle" => /\ NotRefused(is_linked, is_valid, start)
                 /\ \A a \in Branch[start] \ {Genesis} : Sound(a)
StartAhead == pc # "idle" /\ start # Genesis => Ahead(start)

SearchInv ==
  /\ TreeInv
  /\ ChainInv
  /\ HeadBranchDense
  /\ ForkNumbersListed
  /\ TargetListed
  /\ StartSound
  /\ StartAhead

(***************************************************************************)
(* While a call runs, the clock does not step back behind the main chain   *)
(* the call found: otherwise the call may be unable to return to it.       *)
(***************************************************************************)
StartNotAhead ==
  pc # "idle" => \A a \in Branch[start] \ {Genesis} : Time[a] <= clock + Drift

(* What RefusedForGood says of the marks, for the blocks of any tree. *)
InvalidUnacceptable ==
  \A b \in Node : is_valid[b] = "invalid" =>
    \E a \in Branch[b] \ {Genesis} : ~Acceptable(a)

-----------------------------------------------------------------------------
(* The longest branch, as long as no stored block is ahead of the clock. *)

NoneAhead == \A b \in known : Time[b] <= clock + Drift

(***************************************************************************)
(* Stored blocks are numbered above their parents.  push_block compares    *)
(* numbers only once a block is tried, and recursive_mark_as_linked looks  *)
(* for the longest fork among the descendants of a new block alone: a      *)
(* child with a low number that arrived first hides the block below it.    *)
(***************************************************************************)
NumbersGrow == \A b \in known : Num[b] > Num[Prev[b]]

(* Only blocks with an ancestor that can never be accepted are refused. *)
RefusedUnsound ==
  \A b \in Node : is_valid[b] \in Bad =>
    \E a \in Branch[b] \ {Genesis} : ~Sound(a)

(* A block is refused only once its whole branch is stored. *)
RefusedKnown ==
  \A b \in Node : is_valid[b] \in Bad => Branch[b] \ {Genesis} \subseteq known

(* A stored branch that is acceptable is linked. *)
AcceptableLinked == \A b \in known : AcceptableBranch(b) => is_linked[b]

(* While the loop runs it has still to come to every acceptable longer branch. *)
LongerAhead ==
  pc # "idle" =>
    \A b \in known : AcceptableBranch(b) /\ Num[b] > Num[start] => Ahead(b)

LongestInv ==
  /\ SearchInv
  /\ future_blocks = {}
  /\ RefusedUnsound
  /\ RefusedKnown
  /\ AcceptableLinked
  /\ LinkedComplete
  /\ LongerAhead
  /\ HeadIsLongest

-----------------------------------------------------------------------------

(* A bounded set of numbers that is not empty has a greatest element. *)
LEMMA GreatestNumber ==
  ASSUME NEW S, NEW m \in Nat, S \subseteq 0..m, S # {}
  PROVE  \E n \in S : \A k \in S : k <= n
<1> DEFINE T == {m - k : k \in S}
           R == {ss \in Nat \X Nat : ss[1] < ss[2]}
<1>1. IsWellFoundedOn(R, Nat)
  BY NatLessThanWellFounded, Zenon DEF OpToRel
<1>2. T \subseteq Nat /\ T # {}
  <2>1. \A k \in S : k \in 0..m
    OBVIOUS
  <2>2. \A k \in 0..m : m - k \in Nat
    OBVIOUS
  <2> QED BY <2>1, <2>2
<1>3. PICK x \in T : \A y \in T : ~(<<y, x>> \in R)
  <2> HIDE DEF T, R
  <2> QED BY <1>1, <1>2, WFMin
<1>4. PICK n \in S : x = m - n
  OBVIOUS
<1>5. ASSUME NEW k \in S PROVE k <= n
  <2>1. m - k \in T /\ ~(<<m - k, x>> \in R)
    BY <1>3
  <2>2. ~(m - k < m - n)
    BY <1>2, <1>4, <2>1
  <2>3. k \in 0..m /\ n \in 0..m
    OBVIOUS
  <2> QED BY <2>2, <2>3
<1> QED BY <1>5

(* A branch holds its tip, and the branches of all its blocks. *)
LEMMA BranchClosed ==
  ASSUME NEW t \in Node
  PROVE  /\ t \in Branch[t]
         /\ Branch[t] \subseteq Node
         /\ \A a \in Branch[t] : Branch[a] \subseteq Branch[t]
BY BranchAssumption, PathAssumption DEF Node

(* The genesis block is on no path that goes through a block above it. *)
LEMMA AboveBlock ==
  ASSUME NEW b \in Block, NEW a \in Node, b \in Branch[a]
  PROVE  a \in Block
BY BranchAssumption, GenesisAssumption DEF Node

(* The descendants of b are blocks above b. *)
LEMMA DescendantsAbove ==
  ASSUME NEW K \in SUBSET Block, NEW b \in Block, NEW d \in {b} \union Descendants(K, b)
  PROVE  d \in Block /\ b \in Branch[d]
BY BranchBack DEF Descendants

(* Clearing marks refuses no block and validates none. *)
LEMMA UncheckedMarks ==
  ASSUME NEW K, NEW S, NEW v \in [Node -> Checked], NEW a \in Node
  PROVE  \/ mark_as_unchecked(K, v, S)[a] = v[a]
         \/ mark_as_unchecked(K, v, S)[a] = "unchecked"
BY DEF mark_as_unchecked, MarkAll

LEMMA UncheckedNotRefused ==
  ASSUME NEW K, NEW S, NEW v \in [Node -> Checked], NEW l, NEW t \in Node,
         NotRefused(l, v, t)
  PROVE  NotRefused(l, mark_as_unchecked(K, v, S), t)
<1>1. ASSUME NEW a \in Branch[t] PROVE mark_as_unchecked(K, v, S)[a] \notin Bad
  <2>1. a \in Node /\ v[a] \notin Bad
    BY <1>1, BranchClosed DEF NotRefused
  <2> QED BY <2>1, UncheckedMarks DEF Bad
<1> QED BY <1>1 DEF NotRefused

LEMMA UncheckedValidOn ==
  ASSUME NEW K, NEW S, NEW v \in [Node -> Checked], NEW l, ValidOn(l, v)
  PROVE  ValidOn(l, mark_as_unchecked(K, v, S))
<1> SUFFICES ASSUME NEW b \in Node, mark_as_unchecked(K, v, S)[b] = "valid"
             PROVE  NotRefused(l, mark_as_unchecked(K, v, S), b)
  BY DEF ValidOn
<1>1. v[b] = "valid"
  BY UncheckedMarks
<1>2. NotRefused(l, v, b)
  BY <1>1 DEF ValidOn
<1> QED BY <1>2, UncheckedNotRefused

(* Refusing blocks above b leaves a branch without b alone. *)
LEMMA MarkNotRefused ==
  ASSUME NEW v \in [Node -> Checked], NEW l, NEW t \in Node, NEW b \in Block,
         NEW S, \A d \in S : b \in Branch[d], NEW r,
         b \notin Branch[t], NotRefused(l, v, t)
  PROVE  NotRefused(l, MarkAll(v, S, r), t)
<1>1. ASSUME NEW a \in Branch[t] PROVE a \in Node /\ a \notin S
  BY <1>1, BranchClosed
<1> QED BY <1>1 DEF NotRefused, MarkAll

(* Refusing b and its descendants refuses all valid blocks above b. *)
LEMMA MarkValidOn ==
  ASSUME NEW v \in [Node -> Checked], LinkedDown, TypeOK,
         ValidOn(is_linked, v), NEW b \in Block, NEW r \in Bad
  PROVE  ValidOn(is_linked, MarkAll(v, {b} \union Descendants(known, b), r))
<1> DEFINE S == {b} \union Descendants(known, b)
<1> SUFFICES ASSUME NEW c \in Node, MarkAll(v, S, r)[c] = "valid"
             PROVE  NotRefused(is_linked, MarkAll(v, S, r), c)
  BY DEF ValidOn
<1>1. r # "valid"
  BY DEF Bad
<1>2. c \notin S /\ v[c] = "valid"
  BY <1>1 DEF MarkAll
<1>3. NotRefused(is_linked, v, c)
  BY <1>2 DEF ValidOn
<1>4. b \notin Branch[c]
  <2> SUFFICES ASSUME b \in Branch[c] PROVE FALSE
    OBVIOUS
  <2>1. is_linked[c]
    BY <1>3, BranchClosed DEF NotRefused
  <2>2. ASSUME NEW x \in Branch[c], b \in Branch[x] PROVE x \in known
    <3>1. x \in Block
      BY <2>2, AboveBlock, BranchClosed
    <3> QED BY <2>1, <2>2, <3>1, GenesisAssumption DEF LinkedDown
  <2>3. c \in known
    BY <2>2, BranchClosed
  <2> QED BY <1>2, <2>2, <2>3 DEF Descendants
<1>5. \A d \in S : b \in Branch[d]
  BY DescendantsAbove DEF TypeOK
<1> HIDE DEF S
<1> QED BY <1>3, <1>4, <1>5, MarkNotRefused

(* More links refuse nothing. *)
LEMMA MoreLinks ==
  ASSUME NEW l, NEW l2, NEW v, NEW t \in Node,
         \A a \in Node : l[a] => l2[a],
         NotRefused(l, v, t)
  PROVE  NotRefused(l2, v, t)
BY BranchClosed DEF NotRefused

(* Storing a block links it and what it connects, on top of linked blocks only. *)
LEMMA PushLinkedDown ==
  ASSUME TypeOK, LinkedDown, NEW b \in Block,
         known' = known \union {b},
         is_linked' = MarkAll(is_linked, recursive_mark_as_linked(b), TRUE)
  PROVE  LinkedDown' /\ \A a \in Node : is_linked[a] => is_linked'[a]
<1> DEFINE M == recursive_mark_as_linked(b)
<1>1. \A a \in Node : is_linked'[a] = (a \in M \/ is_linked[a])
  BY DEF MarkAll, TypeOK
<1>2. M \in {{}, {b}, {b} \union Descendants(known, b)} /\ (M # {} => is_linked[Prev[b]])
  BY DEF recursive_mark_as_linked
<1>3. ASSUME is_linked[Prev[b]], b \in M, NEW a \in Branch[b]
      PROVE  is_linked'[a] /\ (a = Genesis \/ a \in known')
  <2>1. a = b \/ a \in Branch[Prev[b]]
    BY BranchBack
  <2>2. a \in Node /\ Prev[b] \in Node
    BY BranchBack, BranchClosed DEF Node
  <2> HIDE DEF M
  <2>3. CASE a = b
    BY <1>1, <1>3, <2>2, <2>3
  <2>4. CASE a \in Branch[Prev[b]]
    <3>1. is_linked[a] /\ (a = Genesis \/ a \in known)
      BY <1>3, <2>2, <2>4 DEF LinkedDown
    <3> QED BY <1>1, <2>2, <3>1
  <2> QED BY <2>1, <2>3, <2>4
<1>4. ASSUME NEW c \in Node, is_linked'[c], NEW a \in Branch[c]
      PROVE  is_linked'[a] /\ (a = Genesis \/ a \in known')
  <2>1. a \in Node
    BY BranchClosed
  <2>2. CASE c \notin M
    <3>1. is_linked[a] /\ (a = Genesis \/ a \in known)
      BY <1>1, <1>4, <2>2 DEF LinkedDown
    <3> HIDE DEF M
    <3> QED BY <1>1, <2>1, <3>1
  <2>3. CASE c = b /\ c \in M
    BY <1>2, <1>3, <1>4, <2>3
  <2>4. CASE c # b /\ c \in M
    <3>1. M = {b} \union Descendants(known, b) /\ c \in Descendants(known, b)
      BY <1>2, <2>4
    <3>2. /\ b \in Branch[c]
          /\ \A x \in Branch[c] : b \in Branch[x] /\ x # b => x \in known
      BY <3>1 DEF Descendants
    <3>3. a \in Branch[b] \/ b \in Branch[a]
      BY <3>2, PathAssumption
    <3>4. CASE a \in Branch[b]
      BY <1>2, <1>3, <3>1, <3>4
    <3>5. CASE a # b /\ b \in Branch[a]
      <4>1. a \in known
        BY <3>2, <3>5
      <4>2. \A x \in Branch[a] : x \in Branch[c]
        BY BranchClosed
      <4>3. a \in Descendants(known, b)
        BY <3>2, <3>5, <4>1, <4>2 DEF Descendants
      <4> HIDE DEF M
      <4> QED BY <1>1, <2>1, <3>1, <4>1, <4>3
    <3>6. b \in Branch[b]
      BY BranchBack
    <3> QED BY <3>3, <3>4, <3>5, <3>6
  <2> QED BY <2>2, <2>3, <2>4
<1> HIDE DEF M
<1> QED BY <1>1, <1>4 DEF LinkedDown

(* The marks store_and_index leaves: on an invalid parent, b and what is on it. *)
LEMMA PushMarks ==
  ASSUME TypeOK, LinkedDown, ValidOnValidBranch, NEW b \in Block, b \notin known,
         NEW valid,
         valid = MarkAll(is_valid, recursive_mark_as_invalid(b), is_valid[Prev[b]])
  PROVE  /\ valid \in [Node -> Checked]
         /\ ValidOn(is_linked, valid)
         /\ \A t \in Node : NotRefused(is_linked, is_valid, t)
                              => NotRefused(is_linked, valid, t)
<1> DEFINE S == recursive_mark_as_invalid(b)
<1>1. is_valid \in [Node -> Checked] /\ is_valid[Prev[b]] \in Checked
  BY TreeAssumption DEF TypeOK
<1>2. valid \in [Node -> Checked]
  BY <1>1, MarkAllType
<1>3. ValidOn(is_linked, is_valid)
  BY DEF ValidOnValidBranch, ValidOn, NotRefused
<1>4. CASE S = {}
  <2>1. valid = is_valid
    BY <1>1, <1>4 DEF MarkAll
  <2> HIDE DEF S
  <2> QED BY <1>2, <1>3, <2>1
<1>5. CASE S # {}
  <2>1. S = {b} \union Descendants(known, b) /\ is_valid[Prev[b]] \in Bad
    BY <1>5 DEF recursive_mark_as_invalid
  <2>2. ValidOn(is_linked, valid)
    BY <1>1, <1>3, <2>1, MarkValidOn
  <2>3. \A d \in S : b \in Branch[d]
    BY <2>1, DescendantsAbove DEF TypeOK
  <2>4. ASSUME NEW t \in Node, NotRefused(is_linked, is_valid, t)
        PROVE  NotRefused(is_linked, valid, t)
    <3>1. b \notin Branch[t]
      <4>1. is_linked[t] /\ b # Genesis
        BY <2>4, BranchClosed, GenesisAssumption DEF NotRefused
      <4> QED BY <4>1 DEF LinkedDown
    <3>2. NotRefused(is_linked, MarkAll(is_valid, S, is_valid[Prev[b]]), t)
      <4> HIDE DEF S
      <4> QED BY <1>1, <2>3, <2>4, <3>1, MarkNotRefused
    <3> QED BY <3>2
  <2> HIDE DEF S
  <2> QED BY <1>2, <2>2, <2>4
<1> QED BY <1>4, <1>5

(* A step that leaves the head's branch, or goes back along it, keeps these. *)
LEMMA ShorterHead ==
  ASSUME TreeInv, head' \in Branch[head] \union {Genesis}
  PROVE  HeadBranchSequential' /\ HeadBranchOrdered'
<1>1. head \in Node
  BY DEF TreeInv, TypeOK
<1>2. CASE head' \in Branch[head]
  <2>1. Branch[head'] \subseteq Branch[head] /\ Branch[head] \subseteq Node
    BY <1>1, <1>2, BranchClosed
  <2> QED BY <2>1 DEF TreeInv, HeadBranchSequential, HeadBranchOrdered
<1>3. CASE head' = Genesis
  BY <1>3, BranchAssumption DEF HeadBranchSequential, HeadBranchOrdered
<1> QED BY <1>2, <1>3

(* open takes the highest entry of the number index, a block of the main chain. *)
LEMMA OpenHead ==
  ASSUME TreeInv, open
  PROVE  head' \in Branch[head] \union {Genesis} /\ IndexOnHeadBranch'
<1>1. head \in Node /\ Branch[head] \subseteq Node /\ head \in Branch[head]
  BY BranchClosed DEF TreeInv, TypeOK
<1>2. \A n \in Heights : num_to_id[n] # NoBlock =>
        num_to_id[n] \in Branch[head] /\ Num[num_to_id[n]] = n
  BY DEF TreeInv, IndexOnHeadBranch
<1>3. Heights \subseteq Nat /\ Num[head] \in Nat
  BY <1>1, TreeAssumption DEF Heights
<1>4. num_to_id' = num_to_id
  BY DEF open
<1>5. CASE last_indexed = {}
  <2>1. head' = Genesis
    BY <1>5 DEF open
  <2> DEFINE S == {n \in Heights : num_to_id[n] # NoBlock}
  <2>2. S = {}
    <3> SUFFICES ASSUME S # {} PROVE FALSE
      OBVIOUS
    <3>1. ASSUME NEW n \in S PROVE n \in 0..Num[head]
      <4>1. n \in Heights /\ num_to_id[n] \in Branch[head] /\ Num[num_to_id[n]] = n
        BY <1>2
      <4>2. num_to_id[n] # head => n < Num[head]
        BY <1>1, <4>1 DEF TreeInv, HeadBranchOrdered
      <4> QED BY <1>3, <4>1, <4>2
    <3>2. PICK n \in S : \A k \in S : k <= n
      <4>1. S \subseteq 0..Num[head]
        BY <3>1
      <4> HIDE DEF S
      <4> QED BY <1>3, <4>1, GreatestNumber
    <3>3. num_to_id[n] \in Block
      BY DEF TreeInv, TypeOK
    <3>4. num_to_id[n] \in last_indexed
      BY <3>2, <3>3 DEF last_indexed
    <3> QED BY <1>5, <3>4
  <2> QED BY <1>4, <2>1, <2>2 DEF IndexOnHeadBranch
<1>6. CASE last_indexed # {}
  <2>1. head' \in last_indexed
    BY <1>6 DEF open
  <2>2. PICK n \in Heights : /\ num_to_id[n] = head'
                             /\ \A m \in Heights : num_to_id[m] # NoBlock => m <= n
    BY <2>1 DEF last_indexed
  <2>3. head' \in Block /\ head' # NoBlock
    BY <2>1, GenesisAssumption DEF last_indexed, Node
  <2>4. head' \in Branch[head] /\ Num[head'] = n
    BY <1>2, <2>2, <2>3
  <2>5. ASSUME NEW m \in Heights, num_to_id[m] # NoBlock
        PROVE  num_to_id[m] \in Branch[head'] /\ Num[num_to_id[m]] = m
    <3> DEFINE e == num_to_id[m]
    <3>1. e \in Branch[head] /\ Num[e] = m /\ m <= n
      BY <1>2, <2>2, <2>5
    <3>2. e \in Branch[head'] \/ head' \in Branch[e]
      BY <1>1, <2>4, <3>1, PathAssumption
    <3>3. CASE head' \in Branch[e] /\ head' # e
      <4>1. Num[head'] < Num[e]
        BY <3>1, <3>3 DEF TreeInv, HeadBranchOrdered
      <4> QED BY <1>3, <2>4, <3>1, <4>1
    <3>4. CASE head' = e
      BY <2>3, <3>1, <3>4, BranchBack
    <3> QED BY <3>1, <3>2, <3>3, <3>4
  <2> QED BY <1>4, <2>4, <2>5 DEF IndexOnHeadBranch
<1> QED BY <1>5, <1>6

(* The database initialize_genesis creates. *)
LEMMA InitTreeInv == Init => TreeInv
<1> SUFFICES ASSUME Init PROVE TreeInv
  OBVIOUS
<1>1. head = Genesis /\ Branch[head] = {Genesis} /\ Genesis \in Node
  BY BranchAssumption DEF Init, Node
<1>2. HeadBranchSequential /\ HeadBranchOrdered
  BY <1>1 DEF HeadBranchSequential, HeadBranchOrdered
<1>3. IndexOnHeadBranch
  BY DEF Init, IndexOnHeadBranch
<1>4. \A b \in Node : (is_linked[b] <=> b = Genesis)
  BY DEF Init
<1>5. LinkedDown
  BY <1>1, <1>4 DEF LinkedDown
<1>6. \A b \in Node : is_valid[b] = IF b = Genesis THEN "valid" ELSE "unchecked"
  BY DEF Init
<1>7. HeadNotRefused /\ GenesisNotRefused
  BY <1>1, <1>4, <1>6 DEF HeadNotRefused, GenesisNotRefused, NotRefused, Bad
<1>8. ValidOnValidBranch
  BY <1>1, <1>4, <1>6 DEF ValidOnValidBranch, Bad
<1>9. TargetLinked
  BY DEF Init, TargetLinked
<1> QED BY <1>2, <1>3, <1>5, <1>7, <1>8, <1>9, InitTypeOK DEF TreeInv

(* The parts of TreeInv that a step which moves only the cursor keeps. *)
LEMMA TreeUnchanged ==
  ASSUME TreeInv, UNCHANGED <<known, is_linked, is_valid, head, num_to_id>>,
         TypeOK', TargetLinked'
  PROVE  TreeInv'
<1>1. head' \in Branch[head]
  BY BranchClosed DEF TreeInv, TypeOK
<1>2. HeadBranchSequential' /\ HeadBranchOrdered'
  BY <1>1, ShorterHead
<1>3. IndexOnHeadBranch' /\ LinkedDown' /\ ValidOnValidBranch'
  BY DEF TreeInv, IndexOnHeadBranch, LinkedDown, ValidOnValidBranch
<1>4. HeadNotRefused' /\ GenesisNotRefused'
  BY DEF TreeInv, HeadNotRefused, GenesisNotRefused, NotRefused
<1> QED BY <1>2, <1>3, <1>4 DEF TreeInv

(* The branch of a head that extends the head by an accepted block. *)
LEMMA ExtendBranch ==
  ASSUME TypeOK, HeadBranchSequential, HeadBranchOrdered, NEW b \in Block,
         Num[b] = 1 => Prev[b] = Genesis, Prev[b] = head, sequential(b), b \in Good, head' = b
  PROVE  /\ HeadBranchSequential' /\ HeadBranchOrdered'
         /\ Num[b] = Num[head] + 1 /\ Num[head] \in Nat
<1>1. /\ Branch[b] = {b} \union Branch[head]
      /\ b \notin Branch[head] /\ b # Genesis
      /\ head \in Node /\ head \in Branch[head] /\ Branch[head] \subseteq Node
  BY BranchBack, BranchClosed, GenesisAssumption DEF TypeOK
<1>2. Num[b] \in Nat /\ Num[head] \in Nat /\ Num[b] = Num[head] + 1
  <2>1. Num[b] \in Nat /\ Num[b] > 0 /\ Num[head] \in Nat
    BY <1>1, TreeAssumption, NumAssumption DEF Node
  <2>2. CASE Num[b] > 1
    BY <2>1, <2>2 DEF sequential
  <2>3. CASE Num[b] = 1
    BY <2>1, <2>3, NumAssumption
  <2> QED BY <2>1, <2>2, <2>3
<1>3. HeadBranchSequential'
  BY <1>1, <1>2 DEF HeadBranchSequential, sequential
<1>4. \A a \in Branch[head] : Num[a] \in Nat
  BY <1>1, TreeAssumption
<1>5. \A a \in Branch[head] \ {head} : Num[a] < Num[head]
  BY <1>1 DEF HeadBranchOrdered
<1>6. \A a \in Branch[head] : Num[a] < Num[b]
  BY <1>2, <1>4, <1>5
<1>7. HeadBranchOrdered'
  BY <1>1, <1>6 DEF HeadBranchOrdered
<1> QED BY <1>2, <1>3, <1>7

(* The block extend_chain is called for is stored and linked. *)
LEMMA ExtendingKnown ==
  ASSUME TreeInv, NEW b \in Block, Extending(b)
  PROVE  b \in known /\ is_linked[b] /\ Branch[b] \ {Genesis} \subseteq known
<1>1. target \in Node /\ is_linked[target] /\ b \in Branch[target] /\ b \in Node
  BY DEF TreeInv, TypeOK, CursorOK, TargetLinked, Extending, Node
<1>2. is_linked[b] /\ b \in known
  BY <1>1, GenesisAssumption DEF TreeInv, LinkedDown
<1> QED BY <1>1, <1>2 DEF TreeInv, LinkedDown

(* One step, whether or not undo states are there. *)
LEMMA NextTreeInv == TreeInv /\ FirstOnGenesis /\ [Next]_vars => TreeInv'
<1> SUFFICES ASSUME TreeInv, FirstOnGenesis, [Next]_vars PROVE TreeInv'
  OBVIOUS
<1>t. TypeOK /\ TypeOK'
  BY NextTypeOK DEF TreeInv
<1>c. /\ clock \in Nat /\ head \in Node /\ Genesis \in Node
      /\ head \in Branch[head] /\ Branch[head] \subseteq Node
      /\ is_valid \in [Node -> Checked] /\ is_linked \in [Node -> BOOLEAN]
      /\ known \subseteq Block
  BY <1>t, BranchClosed DEF TypeOK, Node
<1>v. ValidOn(is_linked, is_valid)
  BY DEF TreeInv, ValidOnValidBranch, ValidOn, NotRefused
<1>n. NotRefused(is_linked, is_valid, head) /\ NotRefused(is_linked, is_valid, Genesis)
  BY DEF TreeInv, HeadNotRefused, GenesisNotRefused
<1>1. ASSUME NEW b \in Block, push_block(b) PROVE TreeInv'
  <2>1. /\ b \notin known
        /\ known' = known \union {b}
        /\ is_linked' = MarkAll(is_linked, recursive_mark_as_linked(b), TRUE)
        /\ UNCHANGED <<head, num_to_id, clock>>
    BY <1>1 DEF push_block, chain
  <2>2. LinkedDown' /\ \A a \in Node : is_linked[a] => is_linked'[a]
    BY <2>1, <1>t, PushLinkedDown DEF TreeInv
  <2> DEFINE valid == MarkAll(is_valid, recursive_mark_as_invalid(b), is_valid[Prev[b]])
  <2>3. /\ valid \in [Node -> Checked]
        /\ ValidOn(is_linked, valid)
        /\ \A t \in Node : NotRefused(is_linked, is_valid, t)
                             => NotRefused(is_linked, valid, t)
    <3>1. \A v : v = valid =>
            /\ v \in [Node -> Checked]
            /\ ValidOn(is_linked, v)
            /\ \A t \in Node : NotRefused(is_linked, is_valid, t)
                                 => NotRefused(is_linked, v, t)
      BY <2>1, <1>t, PushMarks DEF TreeInv
    <3> QED BY <3>1
  <2>4. is_valid' = valid \/ is_valid' = mark_as_unchecked(known', valid, future_blocks')
    BY <1>1 DEF push_block
  <2>5. pc' \in {"try", "idle"}
    BY <1>1 DEF push_block, Return
  <2> HIDE DEF valid
  <2>6. /\ ValidOn(is_linked, is_valid')
        /\ NotRefused(is_linked, is_valid', head)
        /\ NotRefused(is_linked, is_valid', Genesis)
    <3>1. NotRefused(is_linked, valid, head) /\ NotRefused(is_linked, valid, Genesis)
      BY <1>c, <1>n, <2>3
    <3>2. CASE is_valid' = valid
      BY <2>3, <3>1, <3>2
    <3>3. CASE is_valid' = mark_as_unchecked(known', valid, future_blocks')
      BY <1>c, <2>3, <3>1, <3>3, UncheckedValidOn, UncheckedNotRefused
    <3> QED BY <2>4, <3>2, <3>3
  <2>7. HeadNotRefused' /\ GenesisNotRefused'
    <3>1. NotRefused(is_linked', is_valid', head) /\ NotRefused(is_linked', is_valid', Genesis)
      BY <1>c, <2>2, <2>6, MoreLinks
    <3> QED BY <2>1, <3>1 DEF HeadNotRefused, GenesisNotRefused, NotRefused
  <2>8. ValidOnValidBranch'
    <3>1. ASSUME NEW a \in Node, is_valid'[a] = "valid"
          PROVE  NotRefused(is_linked', is_valid', a)
      <4>1. NotRefused(is_linked, is_valid', a)
        BY <2>6, <3>1 DEF ValidOn
      <4> QED BY <2>2, <4>1, MoreLinks
    <3> QED BY <3>1 DEF ValidOnValidBranch, NotRefused
  <2>9. HeadBranchSequential' /\ HeadBranchOrdered'
    BY <1>c, <2>1, ShorterHead
  <2>10. IndexOnHeadBranch' /\ TargetLinked'
    BY <2>1, <2>5 DEF TreeInv, IndexOnHeadBranch, TargetLinked
  <2> QED BY <1>t, <2>2, <2>7, <2>8, <2>9, <2>10 DEF TreeInv
<1>2. CASE next_number \/ tick \/ UNCHANGED vars
  <2>1. UNCHANGED <<known, is_linked, is_valid, head, num_to_id>>
    BY <1>2 DEF next_number, tick, vars, tree, chain
  <2>2. TargetLinked'
    <3>1. pc' = "idle" \/ UNCHANGED <<pc, target, is_linked>>
      BY <1>2 DEF next_number, tick, vars, cursor, tree, Return
    <3> QED BY <3>1 DEF TreeInv, TargetLinked
  <2> QED BY <1>t, <2>1, <2>2, TreeUnchanged
<1>3. CASE switch_to_fork
  <2>1. UNCHANGED <<known, is_linked, is_valid, head, num_to_id, clock>>
    BY <1>3 DEF switch_to_fork, tree, chain
  <2>2. \/ pc' \in {"idle", "try"}
        \/ can_link(is_linked, is_valid, parallel_blocks[idx]) /\ target' = parallel_blocks[idx]
    BY <1>3 DEF switch_to_fork, NextCandidate, Return
  <2>3. TargetLinked'
    BY <2>1, <2>2 DEF TargetLinked, can_link
  <2> QED BY <1>t, <1>c, <2>1, <2>3, TreeUnchanged
<1>4. CASE pop_block
  <2>1. head \in Block /\ Prev[head] \in Node
    BY <1>4, <1>c, TreeAssumption DEF pop_block, Node
  <2>2. UNCHANGED <<known, is_linked, is_valid, clock>>
    BY <1>4 DEF pop_block, tree
  <2>3. num_to_id' = [num_to_id EXCEPT ![Num[head]] = NoBlock] /\ head' \in {head, Prev[head]}
    BY <1>4 DEF pop_block, remove_index
  <2>4. Branch[head] = {head} \union Branch[Prev[head]] /\ Prev[head] \in Branch[Prev[head]]
    BY <2>1, BranchBack, BranchClosed
  <2>5. head' \in Branch[head] /\ Branch[head'] \subseteq Branch[head]
    BY <1>c, <2>3, <2>4
  <2>6. HeadBranchSequential' /\ HeadBranchOrdered'
    BY <1>c, <2>2, <2>5, ShorterHead
  <2>7. IndexOnHeadBranch'
    <3> SUFFICES ASSUME NEW n \in Heights, num_to_id'[n] # NoBlock
                 PROVE  num_to_id'[n] \in Branch[head'] /\ Num[num_to_id'[n]] = n
      BY DEF IndexOnHeadBranch
    <3>1. num_to_id'[n] = IF n = Num[head] THEN NoBlock ELSE num_to_id[n]
      BY <2>3, <1>t DEF TypeOK
    <3>2. n # Num[head] /\ num_to_id[n] \in Branch[head] /\ Num[num_to_id[n]] = n
      BY <3>1 DEF TreeInv, IndexOnHeadBranch
    <3> QED BY <2>3, <2>4, <3>1, <3>2
  <2>8. HeadNotRefused' /\ GenesisNotRefused'
    BY <2>2, <2>5 DEF TreeInv, HeadNotRefused, GenesisNotRefused, NotRefused
  <2>9. LinkedDown' /\ ValidOnValidBranch'
    BY <2>2 DEF TreeInv, LinkedDown, ValidOnValidBranch
  <2>10. TargetLinked'
    <3>1. pc' = "try" \/ UNCHANGED <<pc, target>>
      BY <1>4 DEF pop_block, NextCandidate, cursor
    <3> QED BY <2>2, <3>1 DEF TreeInv, TargetLinked
  <2> QED BY <1>t, <2>6, <2>7, <2>8, <2>9, <2>10 DEF TreeInv
<1>5. ASSUME NEW b \in Block, extend_chain(b) PROVE TreeInv'
  <2>1. /\ b \in Branch[target] /\ Prev[b] = head /\ pc \in {"pop", "extend"}
        /\ sequential(b) /\ ~time_in_future(b) /\ b \in Good
        /\ is_valid' = [is_valid EXCEPT ![b] = "valid"]
        /\ head' = b
        /\ num_to_id' = [num_to_id EXCEPT ![Num[b]] = b]
        /\ UNCHANGED <<known, is_linked, clock>>
    BY <1>5 DEF extend_chain, Extending, accepted
  <2>2. Branch[b] = {b} \union Branch[head] /\ b \notin Branch[head] /\ b \in Node
    BY <2>1, BranchBack DEF Node
  <2>3. HeadBranchSequential' /\ HeadBranchOrdered'
    <3>1. b \in known
      BY <1>5, ExtendingKnown DEF extend_chain
    <3> QED BY <2>1, <3>1, <1>t, ExtendBranch DEF TreeInv, FirstOnGenesis
  <2>5. IndexOnHeadBranch'
    <3> SUFFICES ASSUME NEW n \in Heights, num_to_id'[n] # NoBlock
                 PROVE  num_to_id'[n] \in Branch[head'] /\ Num[num_to_id'[n]] = n
      BY DEF IndexOnHeadBranch
    <3>1. num_to_id'[n] = IF n = Num[b] THEN b ELSE num_to_id[n]
      BY <2>1, <1>t DEF TypeOK
    <3> QED BY <2>1, <2>2, <3>1 DEF TreeInv, IndexOnHeadBranch
  <2>6. is_linked[b]
    <3>1. is_linked[target] /\ target \in Node
      BY <2>1, <1>t DEF TreeInv, TargetLinked, TypeOK, CursorOK
    <3> QED BY <2>1, <3>1 DEF TreeInv, LinkedDown
  <2>7. \A a \in Node : is_valid'[a] = IF a = b THEN "valid" ELSE is_valid[a]
    BY <1>c, <2>1
  <2>8. ASSUME NEW t \in Node, NotRefused(is_linked, is_valid, t)
        PROVE  NotRefused(is_linked', is_valid', t)
    BY <2>1, <2>7, <2>8, BranchClosed DEF NotRefused, Bad
  <2>9. NotRefused(is_linked', is_valid', head)
    BY <1>c, <1>n, <2>8
  <2>10. NotRefused(is_linked', is_valid', b)
    BY <2>1, <2>2, <2>6, <2>7, <2>9 DEF NotRefused, Bad
  <2>11. HeadNotRefused' /\ GenesisNotRefused'
    <3>1. NotRefused(is_linked', is_valid', Genesis)
      BY <1>c, <1>n, <2>8
    <3> QED BY <2>1, <2>10, <3>1 DEF HeadNotRefused, GenesisNotRefused, NotRefused
  <2>12. ValidOnValidBranch'
    <3>1. ASSUME NEW a \in Node, is_valid'[a] = "valid"
          PROVE  NotRefused(is_linked', is_valid', a)
      BY <1>v, <2>7, <2>8, <2>10, <3>1 DEF ValidOn
    <3> QED BY <3>1 DEF ValidOnValidBranch, NotRefused
  <2>13. LinkedDown'
    BY <2>1 DEF TreeInv, LinkedDown
  <2>14. TargetLinked'
    <3>1. pc' = "idle" \/ UNCHANGED target
      BY <1>5 DEF extend_chain, Return
    <3> QED BY <2>1, <3>1 DEF TreeInv, TargetLinked
  <2> QED BY <1>t, <2>3, <2>5, <2>11, <2>12, <2>13, <2>14 DEF TreeInv
<1>6. ASSUME NEW b \in Block, mark_invalid(b) PROVE TreeInv'
  <2> DEFINE S == {b} \union Descendants(known, b)
  <2>1. /\ Prev[b] = head
        /\ is_valid' = MarkAll(is_valid, S, invalid_reason(b))
        /\ pc' = "try"
        /\ UNCHANGED <<known, is_linked, head, num_to_id, clock>>
    BY <1>6 DEF mark_invalid, Extending, invalidated, NextCandidate, chain
  <2>2. invalid_reason(b) \in Bad
    BY DEF invalid_reason, Bad
  <2>3. ValidOn(is_linked, is_valid')
    BY <1>t, <1>c, <1>v, <2>1, <2>2, MarkValidOn DEF TreeInv
  <2>4. \A d \in S : b \in Branch[d]
    BY <1>c, DescendantsAbove
  <2>5. b \notin Branch[head] /\ b \notin Branch[Genesis]
    BY <2>1, BranchBack, BranchAssumption, GenesisAssumption
  <2> HIDE DEF S
  <2>6. NotRefused(is_linked, is_valid', head) /\ NotRefused(is_linked, is_valid', Genesis)
    BY <1>c, <1>n, <2>1, <2>4, <2>5, MarkNotRefused
  <2>7. HeadNotRefused' /\ GenesisNotRefused'
    BY <2>1, <2>6 DEF HeadNotRefused, GenesisNotRefused, NotRefused
  <2>8. ValidOnValidBranch'
    BY <2>1, <2>3 DEF ValidOn, ValidOnValidBranch, NotRefused
  <2>9. HeadBranchSequential' /\ HeadBranchOrdered'
    BY <1>c, <2>1, ShorterHead
  <2>10. IndexOnHeadBranch' /\ LinkedDown' /\ TargetLinked'
    BY <2>1 DEF TreeInv, IndexOnHeadBranch, LinkedDown, TargetLinked
  <2> QED BY <1>t, <2>7, <2>8, <2>9, <2>10 DEF TreeInv
<1>7. CASE open
  <2>1. /\ is_valid' = mark_as_unchecked(known, is_valid, future_blocks')
        /\ UNCHANGED <<known, is_linked, clock, pc, target>>
    BY <1>7 DEF open, cursor
  <2>2. head' \in Branch[head] \union {Genesis} /\ IndexOnHeadBranch'
    BY <1>7, OpenHead
  <2>3. HeadBranchSequential' /\ HeadBranchOrdered'
    BY <1>c, <2>1, <2>2, ShorterHead
  <2>4. NotRefused(is_linked, is_valid', head) /\ NotRefused(is_linked, is_valid', Genesis)
    BY <1>c, <1>n, <2>1, UncheckedNotRefused
  <2>5. HeadNotRefused' /\ GenesisNotRefused'
    BY <1>c, <2>1, <2>2, <2>4, BranchClosed DEF HeadNotRefused, GenesisNotRefused, NotRefused
  <2>6. ValidOn(is_linked, is_valid')
    BY <1>c, <1>v, <2>1, UncheckedValidOn
  <2>7. ValidOnValidBranch'
    BY <2>1, <2>6 DEF ValidOn, ValidOnValidBranch, NotRefused
  <2>8. LinkedDown' /\ TargetLinked'
    BY <2>1 DEF TreeInv, LinkedDown, TargetLinked
  <2> QED BY <1>t, <2>2, <2>3, <2>5, <2>7, <2>8 DEF TreeInv
<1> QED BY <1>1, <1>2, <1>3, <1>4, <1>5, <1>6, <1>7 DEF Next, Step, pop_genesis

(***************************************************************************)
(* Every block of the main chain, and of the branch of every block the     *)
(* number index names: open may take any of those as the head.             *)
(***************************************************************************)
AcceptedInv ==
  /\ TypeOK
  /\ HeadBranchAccepted
  /\ \A n \in Heights : num_to_id[n] # NoBlock =>
       \A b \in Branch[num_to_id[n]] \ {Genesis} : Acceptable(b)

LEMMA NextAcceptedInv == AcceptedInv /\ [Next]_vars => AcceptedInv'
<1> SUFFICES ASSUME AcceptedInv, [Next]_vars PROVE AcceptedInv'
  OBVIOUS
<1>t. TypeOK /\ TypeOK'
  BY NextTypeOK DEF AcceptedInv
<1>1. ASSUME UNCHANGED <<head, num_to_id>> PROVE AcceptedInv'
  BY <1>1, <1>t DEF AcceptedInv, HeadBranchAccepted, Acceptable
<1>2. ASSUME NEW b \in Block, push_block(b) \/ mark_invalid(b)
      PROVE  UNCHANGED <<head, num_to_id>>
  BY <1>2 DEF push_block, mark_invalid, chain
<1>3. ASSUME next_number \/ switch_to_fork \/ tick \/ UNCHANGED vars
      PROVE  UNCHANGED <<head, num_to_id>>
  BY <1>3 DEF next_number, switch_to_fork, tick, vars, chain
<1>4. CASE pop_block
  <2>1. head \in Block /\ head' \in {head, Prev[head]}
    BY <1>4, <1>t DEF pop_block, TypeOK, Node
  <2>2. Branch[head'] \subseteq Branch[head]
    BY <2>1, BranchBack
  <2>3. \A n \in Heights : num_to_id'[n] # NoBlock => num_to_id'[n] = num_to_id[n]
    BY <1>4, <1>t DEF pop_block, remove_index, TypeOK
  <2> QED BY <1>t, <2>2, <2>3 DEF AcceptedInv, HeadBranchAccepted, Acceptable
<1>5. ASSUME NEW b \in Block, extend_chain(b) PROVE AcceptedInv'
  <2>1. /\ Prev[b] = head /\ sequential(b) /\ b \in Good /\ head' = b
        /\ num_to_id' = [num_to_id EXCEPT ![Num[b]] = b]
    BY <1>5 DEF extend_chain, Extending, accepted
  <2>2. Branch[b] = {b} \union Branch[head] /\ Acceptable(b)
    BY <2>1, BranchBack DEF sequential, Acceptable
  <2>3. \A a \in Branch[b] \ {Genesis} : Acceptable(a)
    BY <2>2 DEF AcceptedInv, HeadBranchAccepted
  <2>4. \A n \in Heights : num_to_id'[n] \in {b, num_to_id[n]}
    BY <2>1, <1>t DEF TypeOK
  <2> QED BY <1>t, <2>1, <2>3, <2>4 DEF AcceptedInv, HeadBranchAccepted, Acceptable
<1>6. CASE open
  <2>1. UNCHANGED num_to_id /\ head' \in last_indexed \union {Genesis}
    BY <1>6 DEF open
  <2>2. \A a \in Branch[head'] \ {Genesis} : Acceptable(a)
    <3>1. CASE head' = Genesis
      BY <3>1, BranchAssumption
    <3>2. CASE head' \in last_indexed
      BY <3>2, GenesisAssumption DEF last_indexed, AcceptedInv, Node
    <3> QED BY <2>1, <3>1, <3>2
  <2> QED BY <1>t, <2>1, <2>2 DEF AcceptedInv, HeadBranchAccepted, Acceptable
<1> QED BY <1>1, <1>2, <1>3, <1>4, <1>5, <1>6 DEF Next, Step, pop_genesis

(***************************************************************************)
(* Every block of the main chain was accepted on top of the block it       *)
(* follows, after every fork switch, failed pop and restart, for every     *)
(* block tree (also one with several blocks numbered 1 on one branch),     *)
(* every clock, and whether or not the undo states reach far enough back.  *)
(***************************************************************************)
THEOREM ChainAccepted == Spec => []HeadBranchAccepted
<1>1. Init => AcceptedInv
  BY InitTypeOK, BranchAssumption DEF Init, AcceptedInv, HeadBranchAccepted
<1>2. AcceptedInv => HeadBranchAccepted
  BY DEF AcceptedInv
<1> QED BY <1>1, <1>2, NextAcceptedInv, PTL DEF Spec

-----------------------------------------------------------------------------
(***************************************************************************)
(* As long as blocks numbered 1 extend genesis, a block marked valid is on *)
(* a linked branch without a refused block, whatever order blocks arrive   *)
(* in, however marks are cleared again and however the clock moves.        *)
(***************************************************************************)
THEOREM MarksConsistent == Spec /\ []FirstOnGenesis => []ValidOnValidBranch
<1>1. TreeInv => ValidOnValidBranch
  BY DEF TreeInv
<1> QED BY <1>1, InitTreeInv, NextTreeInv, PTL DEF Spec

-----------------------------------------------------------------------------
(* One step, from a state in which a block to be popped has its undo state. *)
LEMMA NextChainInv ==
  ChainInv /\ TreeInv /\ FirstOnGenesis /\ UndoAvailable /\ [Next]_vars => ChainInv'
<1> SUFFICES ASSUME ChainInv, TreeInv, FirstOnGenesis, UndoAvailable, [Next]_vars
             PROVE  ChainInv'
  OBVIOUS
<1>t. TypeOK'
  BY NextTypeOK DEF ChainInv
<1> SUFFICES MainChainConsistent' /\ HeadBranchSequential' /\ HeadBranchOrdered'
  BY <1>t DEF ChainInv
<1>1. ASSUME NEW b \in Block, push_block(b) PROVE UNCHANGED <<included, applied, num_to_id, head>>
  BY <1>1 DEF push_block, chain
<1>2. ASSUME next_number \/ switch_to_fork \/ tick PROVE UNCHANGED <<included, applied, num_to_id, head>>
  BY <1>2 DEF next_number, switch_to_fork, tick, chain
<1>3. CASE pop_block
  <2>1. head \in Block
    BY <1>3 DEF pop_block, ChainInv, TypeOK, Node
  <2>2. head \in undo
    BY <1>3 DEF pop_block, UndoAvailable
  <2> QED BY <1>3, <2>1, <2>2, PopChain DEF pop_block
<1>4. ASSUME NEW b \in Block, extend_chain(b)
      PROVE  MainChainConsistent' /\ HeadBranchSequential' /\ HeadBranchOrdered'
  <2>1. b \in known
    BY <1>4, ExtendingKnown DEF extend_chain
  <2> QED BY <1>4, <2>1, ExtendChain DEF extend_chain, Extending, accepted, FirstOnGenesis
<1>5. ASSUME NEW b \in Block, mark_invalid(b) PROVE UNCHANGED <<included, applied, num_to_id, head>>
  BY <1>5 DEF mark_invalid, chain
<1>6. ASSUME open PROVE UNCHANGED <<included, applied, num_to_id, head>>
  BY <1>6, OpenKeepsHead DEF open
<1>7. ASSUME UNCHANGED vars PROVE UNCHANGED <<included, applied, num_to_id, head>>
  BY <1>7 DEF vars, chain
<1> QED BY <1>1, <1>2, <1>3, <1>4, <1>5, <1>6, <1>7, ChainUnchanged DEF Next, Step, pop_genesis

(***************************************************************************)
(* As long as every block that has to be popped has its undo state and     *)
(* blocks numbered 1 extend genesis, the include flags, the ledger and the *)
(* number index agree with the head, in the middle of every fork switch    *)
(* and after every failed one, however the clock moves.                    *)
(***************************************************************************)
THEOREM ChainConsistent ==
  Spec /\ []UndoAvailable /\ []FirstOnGenesis => []MainChainConsistent
<1>1. ChainInv => MainChainConsistent
  BY DEF ChainInv
<1> QED BY <1>1, InitChainInv, NextChainInv, InitTreeInv, NextTreeInv, PTL DEF Spec

-----------------------------------------------------------------------------
(* A block that follows the head has its undo state saved. *)
LEMMA DenseSaved ==
  ASSUME ChainInv, HeadBranchDense, NEW b \in Block, Num[b] = Num[head] + 1
  PROVE  undo_saved(b)
<1>1. Num[head] \in Nat /\ MaxUndo \in Nat \ {0}
  BY TreeAssumption, BoundsAssumption DEF ChainInv, TypeOK
<1> SUFFICES ASSUME Num[b] > MaxUndo
             PROVE  /\ Num[b] - MaxUndo \in Heights
                    /\ num_to_id[Num[b] - MaxUndo] # NoBlock
  BY DEF undo_saved
<1>2. Num[b] - MaxUndo \in 1..Num[head]
  BY <1>1
<1>3. PICK c \in Branch[head] : c \in Block /\ Num[c] = Num[b] - MaxUndo
  BY <1>2 DEF HeadBranchDense
<1>4. Num[c] \in Heights /\ c # NoBlock
  BY <1>3, GenesisAssumption DEF Heights, Node
<1>5. num_to_id[Num[c]] = c
  BY <1>3, <1>4 DEF ChainInv, MainChainConsistent, NumberIndexMatchesHead
<1> QED BY <1>3, <1>4, <1>5

(* The numbers of the main chain stay without holes. *)
LEMMA NextDense ==
  TreeInv /\ ChainInv /\ HeadBranchDense /\ FirstOnGenesis /\ UndoAvailable /\ [Next]_vars
    => HeadBranchDense'
<1> SUFFICES ASSUME TreeInv, ChainInv, HeadBranchDense, FirstOnGenesis, UndoAvailable,
                    [Next]_vars
             PROVE  HeadBranchDense'
  OBVIOUS
<1>1. ASSUME UNCHANGED head PROVE HeadBranchDense'
  BY <1>1 DEF HeadBranchDense
<1>2. ASSUME NEW b \in Block, push_block(b) \/ mark_invalid(b) PROVE UNCHANGED head
  BY <1>2 DEF push_block, mark_invalid, chain
<1>3. ASSUME next_number \/ switch_to_fork \/ tick \/ UNCHANGED vars PROVE UNCHANGED head
  BY <1>3 DEF next_number, switch_to_fork, tick, vars, chain
<1>4. CASE pop_block
  <2>1. head' = Prev[head] /\ head \in Block
    BY <1>4 DEF pop_block, UndoAvailable, ChainInv, TypeOK, Node
  <2>2. /\ Branch[head] = {head} \union Branch[Prev[head]]
        /\ head \in Branch[head]
        /\ Prev[head] \in Node
    BY <2>1, BranchBack
  <2>3. Num[head] = Num[Prev[head]] + 1
    BY <2>1, <2>2, GenesisAssumption DEF TreeInv, HeadBranchSequential
  <2>4. Num[Prev[head]] \in Nat
    BY <2>2, TreeAssumption
  <2> SUFFICES ASSUME NEW n \in 1..Num[Prev[head]]
               PROVE  \E b \in Branch[Prev[head]] : b \in Block /\ Num[b] = n
    BY <2>1 DEF HeadBranchDense
  <2>5. n \in 1..Num[head] /\ n # Num[head]
    BY <2>3, <2>4
  <2>6. PICK b \in Branch[head] : b \in Block /\ Num[b] = n
    BY <2>5 DEF HeadBranchDense
  <2> QED BY <2>2, <2>5, <2>6
<1>5. ASSUME NEW b \in Block, extend_chain(b) PROVE HeadBranchDense'
  <2>1. Prev[b] = head /\ sequential(b) /\ b \in Good /\ head' = b /\ b \in known
    BY <1>5, ExtendingKnown DEF extend_chain, Extending, accepted
  <2>2. Num[b] = Num[head] + 1 /\ Num[head] \in Nat
    BY <2>1, ExtendBranch DEF TreeInv, FirstOnGenesis
  <2>3. Branch[b] = {b} \union Branch[head]
    BY <2>1, BranchBack
  <2> SUFFICES ASSUME NEW n \in 1..Num[b]
               PROVE  \E a \in Branch[b] : a \in Block /\ Num[a] = n
    BY <2>1 DEF HeadBranchDense
  <2>4. CASE n = Num[b]
    BY <2>3, <2>4
  <2>5. CASE n # Num[b]
    <3>1. n \in 1..Num[head]
      BY <2>2, <2>5
    <3> QED BY <2>3, <3>1 DEF HeadBranchDense
  <2> QED BY <2>4, <2>5
<1>6. ASSUME open PROVE UNCHANGED head
  BY <1>6, OpenKeepsHead
<1> QED BY <1>1, <1>2, <1>3, <1>4, <1>5, <1>6 DEF Next, Step, pop_genesis

(* Marks that only lift invalidations, or carry a parent's on, keep their reasons. *)
LEMMA NextInvalid ==
  TreeInv /\ ChainInv /\ HeadBranchDense /\ InvalidUnacceptable /\ FirstOnGenesis /\ [Next]_vars
    => InvalidUnacceptable'
<1> SUFFICES ASSUME TreeInv, ChainInv, HeadBranchDense, InvalidUnacceptable,
                    FirstOnGenesis, [Next]_vars,
                    NEW d \in Node, is_valid'[d] = "invalid"
             PROVE  \E a \in Branch[d] \ {Genesis} : ~Acceptable(a)
  BY DEF InvalidUnacceptable, Acceptable
<1>c. is_valid \in [Node -> Checked] /\ known \subseteq Block /\ clock \in Nat
  BY DEF TreeInv, TypeOK
<1>1. ASSUME is_valid[d] = "invalid"
      PROVE  \E a \in Branch[d] \ {Genesis} : ~Acceptable(a)
  BY <1>1 DEF InvalidUnacceptable
<1>2. ASSUME NEW K, NEW v, NEW S, is_valid' = mark_as_unchecked(K, v, S)
      PROVE  v[d] = "invalid"
  BY <1>2 DEF mark_as_unchecked, MarkAll
<1>3. ASSUME NEW b \in Block, push_block(b)
      PROVE  \E a \in Branch[d] \ {Genesis} : ~Acceptable(a)
  <2> DEFINE M == recursive_mark_as_invalid(b)
             valid == MarkAll(is_valid, M, is_valid[Prev[b]])
  <2>1. is_valid' = valid \/ is_valid' = mark_as_unchecked(known', valid, future_blocks')
    BY <1>3 DEF push_block
  <2>2. valid[d] = "invalid"
    <3> HIDE DEF valid
    <3> QED BY <1>2, <2>1
  <2>3. CASE d \in M
    <3>1. b \in Branch[d]
      BY <1>c, <2>3, DescendantsAbove DEF recursive_mark_as_invalid
    <3>2. is_valid[Prev[b]] = "invalid"
      BY <2>2, <2>3 DEF MarkAll
    <3>3. Prev[b] \in Node /\ Branch[Prev[b]] \subseteq Branch[b] /\ b \in Node
      BY BranchBack DEF Node
    <3>4. Branch[b] \subseteq Branch[d]
      BY <3>1, BranchClosed
    <3> QED BY <3>2, <3>3, <3>4 DEF InvalidUnacceptable
  <2>4. CASE d \notin M
    BY <1>1, <2>2, <2>4 DEF MarkAll
  <2> QED BY <2>3, <2>4
<1>4. ASSUME next_number \/ switch_to_fork \/ pop_block \/ tick \/ UNCHANGED vars
      PROVE  is_valid[d] = "invalid"
  BY <1>4 DEF next_number, switch_to_fork, pop_block, tick, vars, tree
<1>5. ASSUME NEW b \in Block, extend_chain(b) PROVE is_valid[d] = "invalid"
  BY <1>5, <1>c DEF extend_chain
<1>6. ASSUME NEW b \in Block, mark_invalid(b)
      PROVE  \E a \in Branch[d] \ {Genesis} : ~Acceptable(a)
  <2>1. /\ Prev[b] = head /\ ~accepted(b) /\ Extending(b)
        /\ is_valid' = MarkAll(is_valid, invalidated(b), invalid_reason(b))
    BY <1>6 DEF mark_invalid, Extending
  <2>2. CASE d \in invalidated(b)
    <3>1. invalid_reason(b) = "invalid"
      BY <2>1, <2>2 DEF MarkAll
    <3>2. b \in Branch[d]
      BY <1>c, <2>2, DescendantsAbove DEF invalidated
    <3>3. ~Acceptable(b)
      <4> SUFFICES ASSUME Acceptable(b) PROVE FALSE
        OBVIOUS
      <4>1. sequential(b) /\ b \in Good
        BY <2>1 DEF Acceptable, sequential
      <4>2. ~time_in_future(b)
        BY <3>1, <4>1 DEF invalid_reason
      <4>3. Num[b] = Num[head] + 1
        <5>1. b \in known /\ Num[b] \in Nat /\ Num[b] > 0
          BY <2>1, ExtendingKnown, TreeAssumption, NumAssumption DEF Node
        <5>2. CASE Num[b] > 1
          BY <4>1, <5>2 DEF sequential
        <5>3. CASE Num[b] = 1
          BY <2>1, <5>1, <5>3, NumAssumption DEF FirstOnGenesis
        <5> QED BY <5>1, <5>2, <5>3
      <4>4. undo_saved(b)
        BY <4>3, DenseSaved
      <4> QED BY <2>1, <4>1, <4>2, <4>4 DEF accepted
    <3> QED BY <3>2, <3>3, GenesisAssumption DEF Node
  <2>3. CASE d \notin invalidated(b)
    BY <1>1, <2>1, <2>3 DEF MarkAll
  <2> QED BY <2>2, <2>3
<1>7. ASSUME open PROVE is_valid[d] = "invalid"
  BY <1>2, <1>7 DEF open
<1> QED BY <1>1, <1>3, <1>4, <1>5, <1>6, <1>7 DEF Next, Step, pop_genesis

(***************************************************************************)
(* For every block tree, order of arrival and movement of the clock: a     *)
(* block is refused for good only if a block of its branch fails a check   *)
(* that does not depend on the clock, as long as blocks to be popped have  *)
(* their undo states and blocks numbered 1 extend genesis.                 *)
(***************************************************************************)
THEOREM ReasonsKept == Spec /\ []UndoAvailable /\ []FirstOnGenesis => []RefusedForGood
<1>1. Init => HeadBranchDense /\ InvalidUnacceptable
  BY NumAssumption DEF Init, HeadBranchDense, InvalidUnacceptable
<1>2. InvalidUnacceptable => RefusedForGood
  BY DEF InvalidUnacceptable, RefusedForGood
<1> QED BY <1>1, <1>2, InitTreeInv, NextTreeInv, InitChainInv, NextChainInv, NextDense,
           NextInvalid, PTL DEF Spec

(* A block of the branch the call started from is accepted again. *)
LEMMA StartAccepted ==
  ASSUME SearchInv, StartNotAhead, pc # "idle", NEW b \in Block, b \in Branch[start],
         Prev[b] = head
  PROVE  accepted(b)
<1>1. Sound(b) /\ Time[b] <= clock + Drift
  BY GenesisAssumption DEF SearchInv, StartSound, StartNotAhead
<1>2. undo_saved(b)
  BY <1>1, DenseSaved DEF SearchInv, Sound
<1>3. Time[b] \in Nat /\ clock \in Nat /\ Drift \in Nat
  BY FieldsAssumption, BoundsAssumption DEF SearchInv, ChainInv, TypeOK, Node
<1> QED BY <1>1, <1>2, <1>3 DEF accepted, Sound, sequential, time_in_future

(* Going to the next candidate passes only the current one. *)
LEMMA NextAhead ==
  ASSUME TypeOK, NEW c, Ahead(c), fork_number_db[level][idx] # c,
         NextCandidate, UNCHANGED fork_number_db
  PROVE  Ahead(c)'
<1>1. level' = level /\ idx' = idx + 1 /\ idx \in Nat
  BY DEF NextCandidate, TypeOK, CursorOK
<1>2. CASE Num[c] < level
  BY <1>1, <1>2 DEF Ahead
<1>3. CASE /\ Num[c] = level
           /\ \E i \in 1..Len(fork_number_db[level]) :
                i >= idx /\ fork_number_db[level][i] = c
  <2>1. PICK i \in 1..Len(fork_number_db[level]) :
               i >= idx /\ fork_number_db[level][i] = c
    BY <1>3
  <2>2. i >= idx + 1
    BY <1>1, <2>1
  <2> QED BY <1>1, <1>3, <2>1, <2>2 DEF Ahead
<1> QED BY <1>2, <1>3 DEF Ahead

(* The loop that has run out of candidates goes on with the number below. *)
LEMMA NumberAhead ==
  ASSUME TypeOK, ForkNumbersListed, NEW c \in known, Ahead(c),
         idx > Len(parallel_blocks)
  PROVE  /\ Num[c] < level
         /\ level' = level - 1 /\ idx' = 1 /\ UNCHANGED fork_number_db => Ahead(c)'
<1>1. c \in Block /\ Num[c] \in Heights /\ Num[c] \in Nat /\ level \in Nat /\ idx \in Nat
  BY TreeAssumption DEF TypeOK, CursorOK, Heights, Node
<1>2. Num[c] < level
  <2> SUFFICES ASSUME NEW i \in 1..Len(fork_number_db[level]), i >= idx, Num[c] = level
               PROVE  FALSE
    BY DEF Ahead
  <2>1. parallel_blocks = fork_number_db[level] /\ fork_number_db[level] \in Seq(Block)
    BY <1>1 DEF parallel_blocks, TypeOK
  <2>2. Len(fork_number_db[level]) \in Nat
    BY <2>1
  <2> QED BY <1>1, <2>1, <2>2
<1>3. ASSUME level' = level - 1, idx' = 1, UNCHANGED fork_number_db
      PROVE  Ahead(c)'
  <2>1. CASE Num[c] < level'
    BY <2>1 DEF Ahead
  <2>2. CASE Num[c] = level'
    <3>1. PICK i \in 1..Len(fork_number_db[Num[c]]) : fork_number_db[Num[c]][i] = c
      BY DEF ForkNumbersListed
    <3> QED BY <1>3, <2>2, <3>1 DEF Ahead
  <2> QED BY <1>1, <1>2, <1>3, <2>1, <2>2
<1> QED BY <1>2, <1>3

(* Storing a block lists it under its number, after the others. *)
LEMMA PushListed ==
  ASSUME TypeOK, ForkNumbersListed, NEW b \in Block,
         known' = known \union {b},
         fork_number_db' = [fork_number_db EXCEPT ![Num[b]] = Append(@, b)]
  PROVE  ForkNumbersListed'
<1>1. Num[b] \in Heights /\ fork_number_db \in [Heights -> Seq(Block)]
  BY DEF TypeOK, Heights, Node
<1> DEFINE s == fork_number_db[Num[b]]
<1>2. s \in Seq(Block) /\ Len(s) \in Nat
  BY <1>1
<1>3. \A n \in Heights : fork_number_db'[n] = IF n = Num[b] THEN Append(s, b)
                                              ELSE fork_number_db[n]
  BY <1>1
<1>4. /\ Len(Append(s, b)) = Len(s) + 1
      /\ Append(s, b)[Len(s) + 1] = b
      /\ \A i \in 1..Len(s) : Append(s, b)[i] = s[i]
  BY <1>2
<1>5. ASSUME NEW n \in Heights, NEW i \in 1..Len(fork_number_db'[n])
      PROVE  fork_number_db'[n][i] \in known' /\ Num[fork_number_db'[n][i]] = n
  <2>1. CASE n # Num[b]
    BY <1>3, <1>5, <2>1 DEF ForkNumbersListed
  <2>2. CASE n = Num[b]
    <3>1. i \in 1..Len(s) + 1 /\ fork_number_db'[n][i] = Append(s, b)[i]
      BY <1>3, <1>4, <1>5, <2>2
    <3>2. CASE i = Len(s) + 1
      <4> HIDE DEF s
      <4> QED BY <1>4, <2>2, <3>1, <3>2
    <3>3. CASE i # Len(s) + 1
      <4>1. i \in 1..Len(s)
        BY <1>2, <3>1, <3>3
      <4>2. s[i] \in known /\ Num[s[i]] = n
        BY <1>1, <2>2, <4>1 DEF ForkNumbersListed
      <4> HIDE DEF s
      <4> QED BY <1>4, <3>1, <4>1, <4>2
    <3> QED BY <3>2, <3>3
  <2> QED BY <2>1, <2>2
<1>6. ASSUME NEW c \in known'
      PROVE  \E i \in 1..Len(fork_number_db'[Num[c]]) : fork_number_db'[Num[c]][i] = c
  <2>1. c \in Block /\ Num[c] \in Heights
    BY <1>6 DEF TypeOK, Heights, Node
  <2>2. CASE c = b
    <3>1. Len(s) + 1 \in 1..(Len(s) + 1)
      BY <1>2
    <3> HIDE DEF s
    <3> QED BY <1>1, <1>3, <1>4, <2>2, <3>1
  <2>3. CASE c \in known
    <3>1. PICK i \in 1..Len(fork_number_db[Num[c]]) : fork_number_db[Num[c]][i] = c
      BY <2>3 DEF ForkNumbersListed
    <3>2. CASE Num[c] # Num[b]
      BY <1>3, <2>1, <3>1, <3>2
    <3>3. CASE Num[c] = Num[b]
      <4>1. i \in 1..Len(s) /\ s[i] = c /\ i \in 1..(Len(s) + 1)
        BY <1>2, <3>1, <3>3
      <4> HIDE DEF s
      <4> QED BY <1>1, <1>3, <1>4, <3>3, <4>1
    <3> QED BY <3>2, <3>3
  <2> QED BY <1>6, <2>2, <2>3
<1> QED BY <1>5, <1>6 DEF ForkNumbersListed

(* No call of push_block is under way in the first state. *)
LEMMA InitSearchInv == Init => SearchInv
<1> SUFFICES ASSUME Init PROVE SearchInv
  OBVIOUS
<1>1. HeadBranchDense
  BY NumAssumption DEF Init, HeadBranchDense
<1>2. ForkNumbersListed
  <2>1. \A n \in Heights : fork_number_db[n] = <<>>
    BY DEF Init
  <2>2. \A n \in Heights : 1..Len(fork_number_db[n]) = {}
    BY <2>1
  <2> QED BY <2>2 DEF Init, ForkNumbersListed
<1>3. TargetListed /\ StartSound /\ StartAhead
  BY DEF Init, TargetListed, StartSound, StartAhead
<1> QED BY <1>1, <1>2, <1>3, InitTreeInv, InitChainInv DEF SearchInv

(* A step outside the loop body leaves the candidates and the start alone. *)
LEMMA SearchUnchanged ==
  ASSUME SearchInv, TreeInv', ChainInv', HeadBranchDense',
         UNCHANGED <<known, is_linked, fork_number_db>>, UNCHANGED cursor,
         \A t \in Node : NotRefused(is_linked, is_valid, t)
                           => NotRefused(is_linked', is_valid', t)
  PROVE  SearchInv'
<1>1. start \in Node
  BY DEF SearchInv, ChainInv, TypeOK, CursorOK
<1>3. UNCHANGED <<pc, start, level, idx, target, base>>
  BY DEF cursor
<1>4. ForkNumbersListed' /\ TargetListed' /\ StartAhead'
  BY <1>3 DEF SearchInv, ForkNumbersListed, TargetListed, StartAhead, Ahead
<1>5. StartSound'
  <2> SUFFICES ASSUME pc # "idle"
               PROVE  /\ NotRefused(is_linked', is_valid', start)
                      /\ \A a \in Branch[start] \ {Genesis} : Sound(a)
    BY <1>3 DEF StartSound, NotRefused, Sound
  <2>1. /\ NotRefused(is_linked, is_valid, start)
        /\ \A a \in Branch[start] \ {Genesis} : Sound(a)
    BY DEF SearchInv, StartSound
  <2> QED BY <1>1, <2>1
<1> QED BY <1>4, <1>5 DEF SearchInv

(* One step of the loop that goes to the next candidate. *)
LEMMA SearchNextCandidate ==
  ASSUME SearchInv, pc # "idle", TreeInv', ChainInv', NextCandidate,
         UNCHANGED <<known, is_linked, fork_number_db, head, clock>>,
         fork_number_db[level][idx] # start,
         NotRefused(is_linked', is_valid', start)
  PROVE  SearchInv'
<1>1. pc' = "try" /\ start' = start
  BY DEF NextCandidate
<1>2. HeadBranchDense' /\ ForkNumbersListed' /\ TargetListed'
  BY <1>1 DEF SearchInv, HeadBranchDense, ForkNumbersListed, TargetListed
<1>3. StartSound'
  BY <1>1 DEF SearchInv, StartSound, NotRefused, Sound
<1>4. StartAhead'
  <2> SUFFICES ASSUME start # Genesis PROVE Ahead(start)'
    BY <1>1 DEF StartAhead
  <2>1. Ahead(start) /\ TypeOK
    BY DEF SearchInv, StartAhead, ChainInv
  <2> QED BY <1>1, <2>1, NextAhead DEF Ahead
<1> QED BY <1>2, <1>3, <1>4 DEF SearchInv

(* One step of the search, with the undo states it needs. *)
LEMMA NextSearchInv ==
  SearchInv /\ FirstOnGenesis /\ UndoAvailable /\ StartNotAhead /\ [Next]_vars
    => SearchInv'
<1> SUFFICES ASSUME SearchInv, FirstOnGenesis, UndoAvailable, StartNotAhead, [Next]_vars
             PROVE  SearchInv'
  OBVIOUS
<1>i. /\ TreeInv /\ ChainInv /\ TypeOK
      /\ TreeInv' /\ ChainInv' /\ TypeOK' /\ HeadBranchDense'
  BY NextTreeInv, NextChainInv, NextDense DEF SearchInv, ChainInv
<1>c. /\ head \in Node /\ start \in Node /\ clock \in Nat /\ CursorOK
      /\ is_valid \in [Node -> Checked] /\ known \subseteq Block
  BY <1>i DEF TypeOK, CursorOK
<1>k. pc # "idle" /\ start # Genesis => start \in known
  BY <1>c, <1>i, BranchClosed DEF SearchInv, StartSound, NotRefused, TreeInv, LinkedDown
<1>1. ASSUME NEW b \in Block, push_block(b) PROVE SearchInv'
  <2>1. /\ known' = known \union {b}
        /\ fork_number_db' = [fork_number_db EXCEPT ![Num[b]] = Append(@, b)]
        /\ UNCHANGED <<head, clock>>
    BY <1>1 DEF push_block, chain
  <2>2. ForkNumbersListed'
    BY <1>i, <2>1, PushListed DEF SearchInv
  <2>3. HeadBranchDense'
    BY <2>1 DEF SearchInv, HeadBranchDense
  <2>4. \/ pc' = "idle"
        \/ pc' = "try" /\ start' = head /\ level' > Num[head]
    BY <1>1 DEF push_block, Return
  <2>5. TargetListed'
    BY <2>4 DEF TargetListed
  <2>6. StartSound'
    <3>1. pc' # "idle" => start' = head'
      BY <2>1, <2>4
    <3>2. HeadNotRefused' /\ HeadBranchSequential'
      BY <1>i DEF TreeInv
    <3> QED BY <3>1, <3>2 DEF StartSound, HeadNotRefused, HeadBranchSequential,
                              NotRefused, Sound
  <2>7. StartAhead'
    <3>1. Num[head] \in Nat /\ level' \in Nat
      BY <1>c, <1>i, TreeAssumption DEF TypeOK, CursorOK
    <3> QED BY <2>1, <2>4, <3>1 DEF StartAhead, Ahead
  <2> QED BY <1>i, <2>2, <2>3, <2>5, <2>6, <2>7 DEF SearchInv
<1>2. CASE next_number
  <2>1. /\ pc = "try" /\ idx > Len(parallel_blocks)
        /\ UNCHANGED <<known, is_linked, is_valid, fork_number_db, head, clock>>
    BY <1>2 DEF next_number, tree, chain
  <2>2. HeadBranchDense' /\ ForkNumbersListed'
    BY <2>1 DEF SearchInv, HeadBranchDense, ForkNumbersListed
  <2>3. CASE pc' = "idle"
    BY <1>i, <2>2, <2>3 DEF SearchInv, TargetListed, StartSound, StartAhead
  <2>4. CASE level' = level - 1 /\ idx' = 1 /\ UNCHANGED <<pc, start>>
    <3>1. TargetListed' /\ StartSound'
      BY <2>1, <2>4 DEF SearchInv, TargetListed, StartSound, NotRefused, Sound
    <3>2. StartAhead'
      <4> SUFFICES ASSUME start # Genesis PROVE Ahead(start)'
        BY <2>4 DEF StartAhead
      <4>1. Ahead(start) /\ start \in known /\ ForkNumbersListed
        BY <1>k, <2>1 DEF SearchInv, StartAhead
      <4> QED BY <1>i, <2>1, <2>4, <4>1, NumberAhead DEF Ahead
    <3> QED BY <1>i, <2>2, <3>1, <3>2 DEF SearchInv
  <2> QED BY <1>2, <2>3, <2>4 DEF next_number, Return
<1>3. CASE switch_to_fork
  <2> DEFINE c == parallel_blocks[idx]
  <2>1. /\ pc = "try" /\ idx <= Len(parallel_blocks)
        /\ UNCHANGED <<known, is_linked, is_valid, fork_number_db, head, clock>>
    BY <1>3 DEF switch_to_fork, tree, chain
  <2>2. /\ level \in Heights /\ parallel_blocks = fork_number_db[level]
        /\ idx \in 1..Len(fork_number_db[level])
    <3>1. CASE level \in Heights
      <4>1. Len(fork_number_db[level]) \in Nat
        BY <1>i, <3>1 DEF TypeOK
      <4> QED BY <1>c, <2>1, <3>1, <4>1 DEF parallel_blocks, CursorOK
    <3>2. CASE level \notin Heights
      BY <1>c, <2>1, <3>2 DEF parallel_blocks, CursorOK
    <3> QED BY <3>1, <3>2
  <2>3. c \in known /\ c = fork_number_db[level][idx]
    BY <2>2 DEF SearchInv, ForkNumbersListed
  <2>4. \/ ~can_link(is_linked, is_valid, c) /\ NextCandidate
        \/ pc' = "idle"
        \/ /\ can_link(is_linked, is_valid, c)
           /\ \E a \in Node : dead_end(a, c) /\ NextCandidate
        \/ /\ pc' = "pop" /\ target' = c
           /\ UNCHANGED <<pushed, start, level, idx>>
    BY <1>3 DEF switch_to_fork, Return
  <2> HIDE DEF c
  <2>5. HeadBranchDense' /\ ForkNumbersListed'
    BY <2>1 DEF SearchInv, HeadBranchDense, ForkNumbersListed
  <2>6. CASE ~can_link(is_linked, is_valid, c) /\ NextCandidate
    <3>1. NotRefused(is_linked, is_valid, start)
      BY <2>1 DEF SearchInv, StartSound
    <3>2. c # start
      BY <1>c, <2>6, <3>1, BranchClosed DEF NotRefused, can_link
    <3>3. NotRefused(is_linked', is_valid', start)
      BY <2>1, <3>1
    <3> QED BY <1>i, <2>1, <2>3, <2>6, <3>2, <3>3, SearchNextCandidate
  <2>7. CASE pc' = "idle"
    BY <1>i, <2>5, <2>7 DEF SearchInv, TargetListed, StartSound, StartAhead
  <2>8. ASSUME can_link(is_linked, is_valid, c), NEW a \in Node, dead_end(a, c)
        PROVE  FALSE
    <3>1. c \in Block /\ c \in Node /\ Branch[Prev[c]] \subseteq Branch[c] /\ is_linked[c]
      BY <1>c, <2>3, <2>8, BranchBack DEF Node, can_link
    <3>2. \A x \in Branch[c] : is_linked[x]
      BY <1>i, <3>1 DEF TreeInv, LinkedDown
    <3> QED BY <2>8, <3>1, <3>2 DEF dead_end
  <2>9. CASE pc' = "pop" /\ target' = c /\ UNCHANGED <<pushed, start, level, idx>>
    <3>1. TargetListed'
      BY <2>1, <2>2, <2>3, <2>9 DEF TargetListed
    <3>2. StartSound' /\ StartAhead'
      BY <2>1, <2>9 DEF SearchInv, StartSound, StartAhead, NotRefused, Sound, Ahead
    <3> QED BY <1>i, <2>5, <3>1, <3>2 DEF SearchInv
  <2> QED BY <2>4, <2>6, <2>7, <2>8, <2>9
<1>4. CASE pop_block
  <2>1. head \in undo
    BY <1>4 DEF pop_block, UndoAvailable
  <2>2. /\ UNCHANGED <<known, is_linked, is_valid, fork_number_db, clock>>
        /\ UNCHANGED cursor
        /\ head' = Prev[head]
        /\ head \in Block
    BY <1>4, <1>c, <2>1 DEF pop_block, tree, Node
  <2> QED BY <1>c, <1>i, <2>2, SearchUnchanged
<1>5. ASSUME NEW b \in Block, extend_chain(b) PROVE SearchInv'
  <2>1. /\ Prev[b] = head /\ sequential(b) /\ b \in Good
        /\ head' = b
        /\ is_valid' = [is_valid EXCEPT ![b] = "valid"]
        /\ UNCHANGED <<known, is_linked, fork_number_db, clock>>
    BY <1>5 DEF extend_chain, Extending, accepted
  <2>4. \A t \in Node : NotRefused(is_linked, is_valid, t)
                          => NotRefused(is_linked', is_valid', t)
    BY <1>c, <2>1, BranchClosed DEF NotRefused, Bad
  <2>5. CASE pc' = "idle"
    <3>1. ForkNumbersListed'
      BY <2>1 DEF SearchInv, ForkNumbersListed
    <3> QED BY <1>i, <2>5, <3>1 DEF SearchInv, TargetListed, StartSound, StartAhead
  <2>6. CASE pc' = "extend" /\ UNCHANGED <<pushed, start, level, idx, target, base>>
    <3>1. pc \in {"pop", "extend"}
      BY <1>5 DEF extend_chain, Extending
    <3>2. ForkNumbersListed' /\ TargetListed' /\ StartAhead'
      BY <2>1, <2>6, <3>1 DEF SearchInv, ForkNumbersListed, TargetListed, StartAhead, Ahead
    <3>3. StartSound'
      <4>1. /\ NotRefused(is_linked, is_valid, start)
            /\ \A a \in Branch[start] \ {Genesis} : Sound(a)
        BY <3>1 DEF SearchInv, StartSound
      <4>2. NotRefused(is_linked', is_valid', start)
        BY <1>c, <2>4, <4>1
      <4> QED BY <2>1, <2>6, <4>1, <4>2 DEF StartSound, NotRefused, Sound
    <3> QED BY <1>i, <3>2, <3>3 DEF SearchInv
  <2> QED BY <1>5, <2>5, <2>6 DEF extend_chain, Return
<1>6. ASSUME NEW b \in Block, mark_invalid(b) PROVE SearchInv'
  <2> DEFINE S == {b} \union Descendants(known, b)
  <2>1. /\ b \in Branch[target] /\ Prev[b] = head /\ pc \in {"pop", "extend"}
        /\ ~accepted(b)
        /\ is_valid' = MarkAll(is_valid, S, invalid_reason(b))
        /\ NextCandidate
        /\ UNCHANGED <<known, is_linked, fork_number_db, head, clock>>
    BY <1>6 DEF mark_invalid, Extending, invalidated, chain
  <2>2. b \notin Branch[start]
    BY <2>1, StartAccepted
  <2>3. fork_number_db[level][idx] # start
    BY <2>1, <2>2 DEF SearchInv, TargetListed
  <2>4. \A d \in S : b \in Branch[d]
    BY <1>c, DescendantsAbove
  <2>5. NotRefused(is_linked, is_valid, start)
    BY <2>1 DEF SearchInv, StartSound
  <2> HIDE DEF S
  <2>6. NotRefused(is_linked, is_valid', start)
    BY <1>c, <2>1, <2>2, <2>4, <2>5, MarkNotRefused
  <2>7. NotRefused(is_linked', is_valid', start)
    BY <2>1, <2>6
  <2> QED BY <1>i, <2>1, <2>3, <2>7, SearchNextCandidate
<1>7. CASE tick \/ UNCHANGED vars
  <2>1. /\ UNCHANGED <<known, is_linked, is_valid, fork_number_db, head>>
        /\ UNCHANGED cursor
    BY <1>7 DEF tick, vars, tree, chain
  <2>2. HeadBranchDense'
    BY <2>1 DEF SearchInv, HeadBranchDense
  <2> QED BY <1>i, <2>1, <2>2, SearchUnchanged
<1>8. CASE open
  <2>1. head' = head
    BY <1>8, <1>i, OpenKeepsHead
  <2>2. pc' = "idle" /\ UNCHANGED <<known, fork_number_db>>
    BY <1>8 DEF open, cursor
  <2>3. HeadBranchDense' /\ ForkNumbersListed'
    BY <2>1, <2>2 DEF SearchInv, HeadBranchDense, ForkNumbersListed
  <2> QED BY <1>i, <2>2, <2>3 DEF SearchInv, TargetListed, StartSound, StartAhead
<1> QED BY <1>1, <1>2, <1>3, <1>4, <1>5, <1>6, <1>7, <1>8 DEF Next, Step, pop_genesis

-----------------------------------------------------------------------------
(***************************************************************************)
(* When push_block returns, the loop ran out of numbers, or the head is    *)
(* the candidate it was looking at.                                        *)
(***************************************************************************)
LEMMA ReturnPosition ==
  ASSUME SearchInv, UndoAvailable, [Next]_vars, pc # "idle", pc' = "idle"
  PROVE  /\ UNCHANGED known
         /\ \/ level <= 1 /\ idx > Len(parallel_blocks) /\ head' = head
            \/ Num[head'] = level
<1>1. TypeOK
  BY DEF SearchInv, ChainInv
<1>2. CASE next_number
  BY <1>2, <1>1 DEF next_number, TypeOK, CursorOK, tree, chain
<1>3. CASE switch_to_fork
  <2> DEFINE c == parallel_blocks[idx]
  <2>1. UNCHANGED <<known, head>> /\ c = head /\ idx <= Len(parallel_blocks)
    BY <1>3 DEF switch_to_fork, NextCandidate, tree, chain
  <2>2. level \in Heights /\ parallel_blocks = fork_number_db[level]
    BY <1>1, <2>1 DEF parallel_blocks, TypeOK, CursorOK
  <2>3. Len(fork_number_db[level]) \in Nat /\ idx \in Nat \ {0}
    BY <1>1, <2>2 DEF TypeOK, CursorOK
  <2>4. idx \in 1..Len(fork_number_db[level])
    BY <2>1, <2>2, <2>3
  <2>5. Num[c] = level
    BY <2>2, <2>4 DEF SearchInv, ForkNumbersListed
  <2> QED BY <2>1, <2>5
<1>4. ASSUME NEW b \in Block, extend_chain(b)
      PROVE  UNCHANGED known /\ Num[head'] = level
  <2>1. b = target /\ head' = b /\ UNCHANGED known /\ pc \in {"pop", "extend"}
    BY <1>4 DEF extend_chain, Extending
  <2>2. /\ level \in Heights /\ idx \in 1..Len(fork_number_db[level])
        /\ target = fork_number_db[level][idx]
    BY <2>1 DEF SearchInv, TargetListed
  <2>3. Num[target] = level
    BY <2>2 DEF SearchInv, ForkNumbersListed
  <2> QED BY <2>1, <2>3
<1>5. ASSUME NEW b \in Block PROVE ~mark_invalid(b) /\ ~push_block(b)
  BY DEF mark_invalid, push_block, NextCandidate
<1>6. ~pop_block
  <2> SUFFICES ASSUME pop_block PROVE FALSE
    OBVIOUS
  <2> QED BY DEF pop_block, NextCandidate, cursor
<1>7. ~tick /\ ~open /\ ~UNCHANGED vars
  BY DEF tick, open, vars, cursor
<1> QED BY <1>2, <1>3, <1>4, <1>5, <1>6, <1>7 DEF Next, Step, pop_genesis

(* The loop is never past the number of a branch it has still to come to. *)
LEMMA AheadBound ==
  ASSUME TypeOK, NEW c \in Node, Ahead(c)
  PROVE  Num[c] <= level /\ Num[c] \in Nat /\ level \in Nat
BY TreeAssumption DEF Ahead, TypeOK, CursorOK

(* push_block never returns with a head below the one it found. *)
LEMMA NotShorter ==
  ASSUME SearchInv, UndoAvailable, [Next]_vars, pc # "idle", pc' = "idle"
  PROVE  Num[head'] >= Num[start]
<1>1. TypeOK /\ TypeOK'
  BY NextTypeOK DEF SearchInv, ChainInv
<1>2. start \in Node /\ head' \in Node /\ Num[start] \in Nat /\ Num[head'] \in Nat
  BY <1>1, TreeAssumption DEF TypeOK, CursorOK
<1>3. CASE start = Genesis
  BY <1>2, <1>3, NumAssumption
<1>4. CASE start # Genesis
  <2>1. Ahead(start) /\ ForkNumbersListed
    BY <1>4 DEF SearchInv, StartAhead
  <2>2. start \in known /\ start \in Block
    BY <1>2, <1>4, BranchClosed
       DEF SearchInv, StartSound, NotRefused, TreeInv, LinkedDown, Node
  <2>3. Num[start] <= level /\ level \in Nat
    BY <1>1, <1>2, <2>1, AheadBound
  <2>4. CASE Num[head'] = level
    BY <1>2, <2>3, <2>4
  <2>5. CASE level <= 1 /\ idx > Len(parallel_blocks)
    <3>1. Num[start] < level
      BY <1>1, <2>1, <2>2, <2>5, NumberAhead
    <3>2. Num[start] > 0
      BY <2>2, NumAssumption
    <3> QED BY <1>2, <2>3, <2>5, <3>1, <3>2
  <2> QED BY <2>4, <2>5, ReturnPosition
<1> QED BY <1>3, <1>4

(* Every step of push_block is a step of MainChain, or leaves its tip alone. *)
LEMMA PublicStep ==
  SearchInv /\ FirstOnGenesis /\ UndoAvailable /\ StartNotAhead /\ [Next]_vars
    => [Public!Next]_(IF pc = "idle" THEN head ELSE start)
<1> SUFFICES ASSUME SearchInv, FirstOnGenesis, UndoAvailable, StartNotAhead, [Next]_vars
             PROVE  \/ Public!Next
                    \/ (IF pc' = "idle" THEN head' ELSE start')
                         = (IF pc = "idle" THEN head ELSE start)
  OBVIOUS
<1>1. SearchInv'
  BY NextSearchInv
<1>2. TypeOK /\ TypeOK' /\ HeadBranchSequential' /\ ChainInv
  BY <1>1 DEF SearchInv, ChainInv
<1>3. CASE pc = "idle" /\ pc' = "idle"
  <2>1. ASSUME NEW b \in Block, push_block(b) PROVE head' = head
    BY <2>1 DEF push_block, chain
  <2>2. ASSUME open PROVE head' = head
    BY <1>2, <2>2, OpenKeepsHead
  <2>3. ASSUME tick \/ UNCHANGED vars PROVE head' = head
    BY <2>3 DEF tick, vars, chain
  <2>4. ~Step
    BY <1>3 DEF Step, next_number, switch_to_fork, pop_block, pop_genesis, extend_chain,
                mark_invalid, Extending
  <2> QED BY <1>3, <2>1, <2>2, <2>3, <2>4 DEF Next
<1>4. CASE pc = "idle" /\ pc' # "idle"
  <2>1. PICK b \in Block : push_block(b)
    BY <1>4 DEF Next, Step, next_number, switch_to_fork, pop_block, pop_genesis, extend_chain,
                mark_invalid, Extending, open, tick, vars, cursor
  <2>2. start' = head
    BY <1>4, <2>1 DEF push_block, Return
  <2> QED BY <1>4, <2>2
<1>5. CASE pc # "idle" /\ pc' # "idle"
  <2>1. ASSUME NEW b \in Block PROVE ~push_block(b)
    BY <1>5 DEF push_block
  <2>2. start' = start
    BY <1>5, <2>1 DEF Next, Step, next_number, switch_to_fork, pop_block, pop_genesis, extend_chain,
                mark_invalid, open, tick, vars, cursor, Return, NextCandidate
  <2> QED BY <1>5, <2>2
<1>6. CASE pc # "idle" /\ pc' = "idle"
  <2>1. Num[head'] >= Num[start] /\ head' \in Node /\ start \in Node
    BY <1>2, <1>6, NotShorter DEF TypeOK, CursorOK
  <2>2. CASE head' \in Block
    <3>1. \A b \in Branch[head'] \ {Genesis} :
            /\ b \in Good
            /\ Num[b] = Num[Prev[b]] + 1
            /\ Num[b] > 1 => Time[b] > Time[Prev[b]]
      BY <1>2 DEF HeadBranchSequential
    <3>2. Public!AcceptableBranch(head')
      BY <3>1 DEF Public!AcceptableBranch, Public!Acceptable
    <3>3. Public!Adopt(head')
      BY <1>6, <2>1, <3>2 DEF Public!Adopt
    <3> QED BY <2>2, <3>3 DEF Public!Next
  <2>3. CASE head' = Genesis
    <3>1. Num[start] \in Nat /\ Num[start] <= 0
      BY <2>1, <2>3, NumAssumption, TreeAssumption
    <3>2. start = Genesis
      BY <2>1, <3>1, NumAssumption DEF Node
    <3> QED BY <1>6, <2>3, <3>2
  <2> QED BY <2>1, <2>2, <2>3 DEF Node
<1> QED BY <1>3, <1>4, <1>5, <1>6

(***************************************************************************)
(* Seen between two calls of push_block the chain database implements      *)
(* MainChain, for every block tree and order of arrival: the head moves    *)
(* only to the tip of an acceptable branch that is not shorter than the    *)
(* one it leaves, as long as a block to be popped has its undo state,      *)
(* blocks numbered 1 extend genesis, and the clock does not step back      *)
(* behind the main chain while a call runs.                                *)
(***************************************************************************)
THEOREM ImplementsMainChain ==
  Spec /\ []UndoAvailable /\ []FirstOnGenesis /\ []StartNotAhead => PublicHead
<1>1. Init => Public!Init
  BY DEF Init, Public!Init
<1> QED BY <1>1, InitSearchInv, NextSearchInv, PublicStep, PTL
        DEF Spec, PublicHead, Public!Spec

-----------------------------------------------------------------------------
(* A stored child of a descendant of b is a descendant of b. *)
LEMMA ChildDescends ==
  ASSUME NEW K \in SUBSET Block, NEW b \in Block, NEW c \in K, c # b,
         Prev[c] \in {b} \union Descendants(K, b)
  PROVE  c \in Descendants(K, b)
<1>1. c \in Block /\ Branch[c] = {c} \union Branch[Prev[c]]
  BY BranchBack
<1>2. Prev[c] \in Block /\ b \in Branch[Prev[c]]
  BY DescendantsAbove
<1>3. ASSUME NEW x \in Branch[c], b \in Branch[x], x # b PROVE x \in K
  <2>1. CASE x = c
    BY <2>1
  <2>2. CASE x \in Branch[Prev[c]] /\ Prev[c] = b
    <3>1. x \in Branch[Prev[b]] /\ Prev[b] \in Node
      BY <1>3, <2>2, BranchBack
    <3>2. b \in Branch[Prev[b]]
      BY <1>3, <3>1, BranchClosed
    <3> QED BY <3>2, BranchBack
  <2>3. CASE x \in Branch[Prev[c]] /\ Prev[c] \in Descendants(K, b)
    BY <1>3, <2>3 DEF Descendants
  <2> QED BY <1>1, <1>3, <2>1, <2>2, <2>3
<1> QED BY <1>1, <1>2, <1>3 DEF Descendants

(* Blocks without a descendant listed as future keep their marks. *)
LEMMA NothingUnchecked ==
  ASSUME NEW K, NEW v \in [Node -> Checked]
  PROVE  mark_as_unchecked(K, v, {}) = v
BY DEF mark_as_unchecked, MarkAll

(* An acceptable branch is never refused. *)
LEMMA AcceptableNotRefused ==
  ASSUME TypeOK, RefusedUnsound, NEW t \in Node, AcceptableBranch(t)
  PROVE  is_valid[t] \notin Bad
BY DEF RefusedUnsound, AcceptableBranch, Sound

(* A block that is not accepted on its parent, the head, is not sound. *)
LEMMA RefusedNotSound ==
  ASSUME SearchInv, NoneAhead, NEW b \in known, Prev[b] = head, ~accepted(b)
  PROVE  ~Sound(b) /\ ~time_in_future(b)
<1>1. b \in Block /\ Time[b] \in Nat /\ clock \in Nat /\ Drift \in Nat
  BY FieldsAssumption, BoundsAssumption DEF SearchInv, ChainInv, TypeOK, Node
<1>2. ~time_in_future(b)
  BY <1>1 DEF NoneAhead, time_in_future
<1>3. ASSUME Sound(b) PROVE FALSE
  <2>1. undo_saved(b)
    BY <1>1, <1>3, DenseSaved DEF SearchInv, Sound
  <2> QED BY <1>2, <1>3, <2>1 DEF accepted, sequential, Sound
<1> QED BY <1>2, <1>3

(***************************************************************************)
(* A branch that a new block b completes hangs on a linked parent that is  *)
(* not refused, and everything on it above b was waiting for b.            *)
(***************************************************************************)
LEMMA NewAcceptable ==
  ASSUME LongestInv, NEW b \in Block, b \notin known, known' = known \union {b},
         NEW c \in known', AcceptableBranch(c)'
  PROVE  \/ c \in known /\ AcceptableBranch(c) /\ b \notin Branch[c]
         \/ /\ c \in {b} \union Descendants(known, b)
            /\ is_linked[Prev[b]] /\ is_valid[Prev[b]] \notin Bad
<1>1. TypeOK /\ TreeInv
  BY DEF LongestInv, SearchInv, TreeInv
<1>2. known \subseteq Block /\ c \in Block /\ c \in Node
  BY <1>1 DEF TypeOK, Node
<1>3. \A a \in Branch[c] \ {Genesis} : a \in known \union {b} /\ Sound(a)
  BY DEF AcceptableBranch, Sound
<1>4. CASE b \notin Branch[c]
  <2>1. AcceptableBranch(c)
    BY <1>3, <1>4 DEF AcceptableBranch, Sound
  <2>2. c \in known
    BY <1>2, <1>4, BranchClosed
  <2> QED BY <1>4, <2>1, <2>2
<1>5. CASE b \in Branch[c]
  <2>1. c \in {b} \union Descendants(known, b)
    <3>1. ASSUME NEW x \in Branch[c], b \in Branch[x], x # b PROVE x \in known
      <4>1. x \in Node
        BY <1>2, BranchClosed
      <4>2. x \in Block /\ x # Genesis
        BY <3>1, <4>1, AboveBlock, GenesisAssumption
      <4> QED BY <1>3, <3>1, <4>2
    <3> QED BY <1>2, <1>5, <3>1, BranchClosed DEF Descendants
  <2> DEFINE p == Prev[b]
  <2>2. p \in Node /\ Branch[b] = {b} \union Branch[p] /\ b \notin Branch[p]
    BY BranchBack
  <2>3. Branch[p] \subseteq Branch[c] /\ p \in Branch[p]
    BY <1>2, <1>5, <2>2, BranchClosed
  <2>4. AcceptableBranch(p)
    BY <1>3, <2>2, <2>3 DEF AcceptableBranch, Sound
  <2>5. is_linked[p]
    <3>1. CASE p = Genesis
      BY <1>1, <2>3, <3>1 DEF TreeInv, GenesisNotRefused, NotRefused
    <3>2. CASE p # Genesis
      BY <2>3, <2>4, <3>2 DEF LongestInv, AcceptableLinked, AcceptableBranch
    <3> QED BY <3>1, <3>2
  <2>6. is_valid[p] \notin Bad
    <3> HIDE DEF p
    <3> QED BY <1>1, <2>2, <2>4, AcceptableNotRefused DEF LongestInv
  <2> QED BY <2>1, <2>5, <2>6
<1> QED BY <1>4, <1>5

(* The longest fork is above all that a new block completes, and can be linked. *)
LEMMA LongestFork ==
  ASSUME LongestInv, NumbersGrow, NEW b \in Block, b \notin known,
         is_linked[Prev[b]], is_valid[Prev[b]] \notin Bad,
         NEW f \in longest_fork(b),
         NEW c \in {b} \union Descendants(known, b)
  PROVE  /\ Num[c] <= Num[f]
         /\ f \in {b} \union Descendants(known, b)
         /\ is_valid[f] \notin Bad
<1>1. TypeOK /\ known \subseteq Block
  BY DEF LongestInv, SearchInv, TreeInv, TypeOK
<1>2. c \in Block /\ Num[c] \in Nat /\ Num[b] \in Nat
  BY <1>1, DescendantsAbove, TreeAssumption DEF Node
<1>3. f \in {b} \union Descendants(known, b)
  BY DEF longest_fork
<1>4. f \in Block /\ b \in Branch[f] /\ Num[f] \in Nat
  BY <1>1, <1>3, DescendantsAbove, TreeAssumption DEF Node
<1>5. is_valid[f] \notin Bad
  BY <1>4, GenesisAssumption DEF LongestInv, RefusedKnown, Node
<1>6. CASE is_placeholder(b)
  <2>1. f \in Descendants(known, b) /\ \A e \in Descendants(known, b) : Num[e] <= Num[f]
    BY <1>6 DEF longest_fork
  <2>2. PICK e \in known : Prev[e] = b
    BY <1>6 DEF is_placeholder, next_blocks
  <2>3. e \in Descendants(known, b)
    BY <1>1, <2>2, ChildDescends
  <2>4. Num[e] > Num[b] /\ Num[e] \in Nat
    BY <1>1, <2>2, TreeAssumption DEF NumbersGrow, Node
  <2>5. Num[b] <= Num[f]
    BY <1>2, <1>4, <2>1, <2>3, <2>4
  <2> QED BY <1>3, <1>5, <2>1, <2>5
<1>7. CASE ~is_placeholder(b)
  <2>1. f = b
    BY <1>7 DEF longest_fork
  <2>2. c = b
    <3> SUFFICES ASSUME c # b PROVE FALSE
      OBVIOUS
    <3>1. /\ c \in known /\ b \in Branch[c]
          /\ \A x \in Branch[c] : b \in Branch[x] /\ x # b => x \in known
      BY DEF Descendants
    <3>2. PICK x \in Block : x \in Branch[c] /\ Prev[x] = b
      BY <1>2, <3>1, PathAssumption DEF Node
    <3>3. b \in Branch[x] /\ x # b
      BY <3>2, BranchBack
    <3>4. x \in known
      BY <3>1, <3>2, <3>3
    <3> QED BY <1>7, <3>2, <3>4 DEF is_placeholder, next_blocks
  <2> QED BY <1>2, <1>3, <1>5, <2>1, <2>2
<1> QED BY <1>6, <1>7

(* Storing a block keeps the links complete, when none was listed as future. *)
LEMMA PushLinks ==
  ASSUME TreeInv, LinkedComplete, future_blocks = {}, NEW b \in Block, push_block(b)
  PROVE  /\ LinkedComplete' /\ future_blocks' = {}
         /\ is_valid' = MarkAll(is_valid, recursive_mark_as_invalid(b), is_valid[Prev[b]])
<1>1. TypeOK
  BY DEF TreeInv
<1>2. /\ b \notin known
      /\ known' = known \union {b}
      /\ is_linked' = MarkAll(is_linked, recursive_mark_as_linked(b), TRUE)
  BY DEF push_block
<1>3. /\ known \subseteq Block /\ Prev[b] \in Node /\ b \in Node
      /\ is_valid \in [Node -> Checked] /\ is_linked \in [Node -> BOOLEAN]
  BY <1>1, BranchBack DEF TypeOK, Node
<1> DEFINE S == recursive_mark_as_invalid(b)
           M == recursive_mark_as_linked(b)
           D == {b} \union Descendants(known, b)
<1>4. /\ S \in {{}, D} /\ (S # {} => is_valid[Prev[b]] \in Bad)
      /\ (is_linked[Prev[b]] /\ is_valid[Prev[b]] \in Bad => S = D)
  BY DEF recursive_mark_as_invalid
<1>5. /\ M \in {{}, {b}, D}
      /\ M # {} <=> is_linked[Prev[b]]
      /\ M = {b} => is_valid[Prev[b]] \in Bad \/ M = D
  BY DEF recursive_mark_as_linked
<1>6. \A d \in D : d \in Block /\ b \in Branch[d]
  BY <1>3, DescendantsAbove
<1>7. is_valid' = MarkAll(is_valid, S, is_valid[Prev[b]]) /\ future_blocks' = {}
  <2> DEFINE valid == MarkAll(is_valid, S, is_valid[Prev[b]])
  <2>1. valid \in [Node -> Checked]
    BY <1>3, MarkAllType
  <2>2. future_blocks' = {}
    BY DEF push_block, retained_future_blocks
  <2>3. is_valid' = valid \/ is_valid' = mark_as_unchecked(known', valid, {})
    BY <2>2 DEF push_block
  <2> HIDE DEF valid
  <2>4. is_valid' = valid
    BY <2>1, <2>3, NothingUnchecked
  <2> QED BY <2>2, <2>4 DEF valid
<1>8. \A a \in Node : is_valid'[a] = IF a \in S THEN is_valid[Prev[b]] ELSE is_valid[a]
  BY <1>7 DEF MarkAll
<1>9. \A a \in Node : is_linked'[a] = (a \in M \/ is_linked[a])
  BY <1>2, <1>3 DEF MarkAll
<1> HIDE DEF S, M, D
<1>10. LinkedComplete'
  <2> SUFFICES ASSUME NEW c \in known', is_linked'[Prev[c]], is_valid'[c] \notin Bad
               PROVE  is_linked'[c]
    BY DEF LinkedComplete
  <2>1. c \in Block /\ c \in Node /\ Prev[c] \in Node
    BY <1>2, <1>3, BranchBack DEF Node
  <2>2. CASE c = b
    <3>1. Prev[b] \notin M
      <4>1. Prev[b] \notin D
        BY <1>3, <1>6, BranchBack
      <4>2. b \in D
        BY DEF D
      <4> QED BY <1>5, <4>1, <4>2
    <3>2. is_linked[Prev[b]]
      BY <1>3, <1>9, <2>2, <3>1
    <3>3. b \in D
      BY DEF D
    <3> QED BY <1>5, <1>9, <2>1, <2>2, <3>2, <3>3
  <2>3. CASE c # b
    <3>1. c \in known
      BY <1>2, <2>3
    <3>2. c \notin S /\ is_valid[c] \notin Bad
      BY <1>4, <1>8, <2>1
    <3>3. CASE is_linked[Prev[c]]
      <4>1. is_linked[c]
        BY <3>1, <3>2, <3>3 DEF LinkedComplete
      <4> QED BY <1>9, <2>1, <4>1
    <3>4. CASE ~is_linked[Prev[c]]
      <4>1. Prev[c] \in M
        BY <1>9, <2>1, <3>4
      <4>2. Prev[c] \in D
        BY <1>5, <4>1 DEF D
      <4>3. c \in D
        BY <1>3, <2>3, <3>1, <4>2, ChildDescends DEF D
      <4>4. M = D
        <5>1. is_linked[Prev[b]]
          BY <1>5, <4>1
        <5>2. is_valid[Prev[b]] \notin Bad
          BY <1>4, <3>2, <4>3, <5>1
        <5> QED BY <1>5, <4>1, <5>2
      <4> QED BY <1>9, <2>1, <4>3, <4>4
    <3> QED BY <3>3, <3>4
  <2> QED BY <2>2, <2>3
<1> QED BY <1>7, <1>10 DEF S

(* What store_and_index leaves, when no block was ever listed as future. *)
LEMMA PushLongest ==
  ASSUME LongestInv, NumbersGrow, NEW b \in Block, push_block(b), SearchInv'
  PROVE  LongestInv'
<1>1. TypeOK /\ TreeInv /\ SearchInv /\ TypeOK'
  BY DEF LongestInv, SearchInv, TreeInv
<1>2. /\ b \notin known /\ pc = "idle"
      /\ known' = known \union {b}
      /\ is_linked' = MarkAll(is_linked, recursive_mark_as_linked(b), TRUE)
      /\ head' = head
  BY DEF push_block, chain
<1>3. /\ known \subseteq Block /\ head \in Node /\ Prev[b] \in Node /\ b \in Node
      /\ is_valid \in [Node -> Checked] /\ is_linked \in [Node -> BOOLEAN]
      /\ future_blocks = {}
  BY <1>1, BranchBack DEF TypeOK, LongestInv, Node
<1> DEFINE S == recursive_mark_as_invalid(b)
           M == recursive_mark_as_linked(b)
           D == {b} \union Descendants(known, b)
<1>4. /\ S \in {{}, D} /\ (S # {} => is_valid[Prev[b]] \in Bad)
      /\ (is_linked[Prev[b]] /\ is_valid[Prev[b]] \in Bad => S = D)
  BY DEF recursive_mark_as_invalid
<1>5. /\ M \in {{}, {b}, D}
      /\ M # {} <=> is_linked[Prev[b]]
      /\ M = {b} => is_valid[Prev[b]] \in Bad \/ M = D
  BY DEF recursive_mark_as_linked
<1>6. \A d \in D : d \in Block /\ b \in Branch[d]
  BY <1>3, DescendantsAbove
<1>7. is_valid' = MarkAll(is_valid, S, is_valid[Prev[b]]) /\ future_blocks' = {}
  BY <1>1, <1>3, PushLinks DEF LongestInv
<1>8. \A a \in Node : is_valid'[a] = IF a \in S THEN is_valid[Prev[b]] ELSE is_valid[a]
  BY <1>7 DEF MarkAll
<1>9. \A a \in Node : is_linked'[a] = (a \in M \/ is_linked[a])
  BY <1>2, <1>3 DEF MarkAll
<1> HIDE DEF S, M, D
<1>10. RefusedUnsound' /\ RefusedKnown'
  <2> SUFFICES ASSUME NEW a \in Node, is_valid'[a] \in Bad
               PROVE  /\ \E x \in Branch[a] \ {Genesis} : ~Sound(x)
                      /\ Branch[a] \ {Genesis} \subseteq known'
    BY DEF RefusedUnsound, RefusedKnown, Sound
  <2>1. CASE a \notin S
    BY <1>2, <1>8, <2>1 DEF LongestInv, RefusedUnsound, RefusedKnown
  <2>2. CASE a \in S
    <3>1. is_valid[Prev[b]] \in Bad /\ a \in D
      BY <1>4, <2>2
    <3>2. b \in Branch[a] /\ Branch[Prev[b]] \subseteq Branch[b] /\ Branch[b] \subseteq Branch[a]
      BY <1>6, <3>1, BranchBack, BranchClosed
    <3>3. PICK x \in Branch[Prev[b]] \ {Genesis} : ~Sound(x)
      BY <1>3, <3>1 DEF LongestInv, RefusedUnsound
    <3>4. ASSUME NEW y \in Branch[a] \ {Genesis} PROVE y \in known'
      <4>1. y \in Branch[b] \/ b \in Branch[y]
        BY <3>2, PathAssumption
      <4>2. CASE y = b
        BY <1>2, <4>2
      <4>3. CASE y # b /\ y \in Branch[b]
        <5>1. y \in Branch[Prev[b]]
          BY <4>3, BranchBack
        <5> QED BY <1>2, <1>3, <3>1, <5>1 DEF LongestInv, RefusedKnown
      <4>4. CASE y # b /\ b \in Branch[y]
        <5>1. CASE a = b
          BY <4>3, <4>4, <5>1
        <5>2. CASE a # b
          BY <1>2, <3>1, <4>4, <5>2 DEF D, Descendants
        <5> QED BY <5>1, <5>2
      <4> QED BY <4>1, <4>2, <4>3, <4>4
    <3> QED BY <3>2, <3>3, <3>4
  <2> QED BY <2>1, <2>2
<1>11. AcceptableLinked'
  <2> SUFFICES ASSUME NEW c \in known', AcceptableBranch(c)' PROVE is_linked'[c]
    BY DEF AcceptableLinked
  <2>1. c \in Node
    BY <1>2, <1>3 DEF Node
  <2>2. CASE c \in known /\ AcceptableBranch(c)
    BY <1>9, <2>1, <2>2 DEF LongestInv, AcceptableLinked
  <2>3. CASE c \in D /\ is_linked[Prev[b]] /\ is_valid[Prev[b]] \notin Bad
    BY <1>5, <1>9, <2>1, <2>3
  <2> QED BY <1>2, <2>2, <2>3, NewAcceptable DEF D
<1>12. LinkedComplete'
  BY <1>1, <1>3, PushLinks DEF LongestInv
<1>13. ASSUME NEW c \in known', AcceptableBranch(c)', Num[c] > Num[head]
       PROVE  pc' = "try" /\ start' = head /\ Ahead(c)'
  <2>1. c \in Block /\ Num[c] \in Nat /\ Num[head] \in Nat
    BY <1>2, <1>3, TreeAssumption DEF Node
  <2>2. ~(c \in known /\ AcceptableBranch(c))
    BY <1>2, <1>13, <2>1 DEF LongestInv, HeadIsLongest
  <2>3. c \in D /\ is_linked[Prev[b]] /\ is_valid[Prev[b]] \notin Bad
    BY <1>2, <1>13, <2>2, NewAcceptable DEF D
  <2>4. S = {} /\ M = D
    BY <1>4, <1>5, <2>3
  <2>5. is_valid' = is_valid
    BY <1>3, <1>7, <2>4 DEF MarkAll
  <2>6. PICK f \in longest_fork(b) :
          can_link(is_linked', is_valid, f) /\ Num[f] > Num[head]
            => pc' = "try" /\ start' = head /\ level' = Num[f] /\ idx' = 1
    <3>1. MarkAll(is_valid, recursive_mark_as_invalid(b), is_valid[Prev[b]]) = is_valid
      BY <1>7, <2>5 DEF S
    <3> QED BY <3>1 DEF push_block
  <2>7. Num[c] <= Num[f] /\ f \in D /\ is_valid[f] \notin Bad
    BY <1>2, <2>3, LongestFork DEF D
  <2>8. f \in Node /\ Num[f] \in Nat
    BY <1>6, <2>7, TreeAssumption DEF Node
  <2>9. can_link(is_linked', is_valid, f)
    BY <1>9, <2>4, <2>7, <2>8 DEF can_link
  <2>10. pc' = "try" /\ start' = head /\ level' = Num[f] /\ idx' = 1
    BY <1>13, <2>1, <2>6, <2>7, <2>8, <2>9
  <2>11. Ahead(c)'
    <3>1. CASE Num[c] < Num[f]
      BY <2>10, <3>1 DEF Ahead
    <3>2. CASE Num[c] = Num[f]
      <4>1. PICK i \in 1..Len(fork_number_db'[Num[c]]) : fork_number_db'[Num[c]][i] = c
        BY DEF SearchInv, ForkNumbersListed
      <4> QED BY <2>10, <3>2, <4>1 DEF Ahead
    <3> QED BY <2>1, <2>7, <2>8, <3>1, <3>2
  <2> QED BY <2>10, <2>11
<1>14. LongerAhead'
  <2>1. pc' # "idle" => start' = head
    BY DEF push_block, Return
  <2> QED BY <1>13, <2>1 DEF LongerAhead
<1>15. HeadIsLongest'
  <2> SUFFICES ASSUME pc' = "idle", NEW c \in known', AcceptableBranch(c)'
               PROVE  Num[c] <= Num[head]
    BY <1>2 DEF HeadIsLongest
  <2>1. Num[c] \in Nat /\ Num[head] \in Nat
    BY <1>2, <1>3, TreeAssumption DEF Node
  <2> QED BY <1>13, <2>1
<1> QED BY <1>7, <1>10, <1>11, <1>12, <1>14, <1>15 DEF LongestInv

(* A step that goes to the next candidate passes no acceptable branch. *)
LEMMA LongerNextCandidate ==
  ASSUME LongestInv, pc # "idle", NextCandidate, UNCHANGED <<known, fork_number_db>>,
         ~AcceptableBranch(fork_number_db[level][idx])
  PROVE  LongerAhead' /\ HeadIsLongest'
<1>1. pc' = "try" /\ start' = start /\ TypeOK
  BY DEF NextCandidate, LongestInv, SearchInv, TreeInv
<1>2. ASSUME NEW c \in known', AcceptableBranch(c)', Num[c] > Num[start]
      PROVE  Ahead(c)'
  <2>1. c \in known /\ AcceptableBranch(c) /\ Ahead(c)
    BY <1>2 DEF LongestInv, LongerAhead, AcceptableBranch
  <2>2. fork_number_db[level][idx] # c
    BY <2>1
  <2> QED BY <1>1, <2>1, <2>2, NextAhead
<1> QED BY <1>1, <1>2 DEF LongerAhead, HeadIsLongest

(* When the call returns, no acceptable branch is longer than the head. *)
LEMMA ReturnLongest ==
  ASSUME LongestInv, UndoAvailable, [Next]_vars, pc # "idle", pc' = "idle"
  PROVE  LongerAhead' /\ HeadIsLongest'
<1>1. SearchInv /\ TypeOK /\ TypeOK'
  BY NextTypeOK DEF LongestInv, SearchInv, TreeInv
<1>2. known' = known /\ Num[head'] >= Num[start]
  BY <1>1, ReturnPosition, NotShorter
<1> SUFFICES ASSUME NEW c \in known, AcceptableBranch(c)
             PROVE  Num[c] <= Num[head']
  BY <1>2 DEF LongerAhead, HeadIsLongest, AcceptableBranch
<1>3. /\ Num[c] \in Nat /\ Num[c] > 0 /\ Num[start] \in Nat /\ Num[head'] \in Nat
      /\ c \in Node
  BY <1>1, TreeAssumption, NumAssumption DEF TypeOK, CursorOK, Node
<1>4. CASE Num[c] <= Num[start]
  BY <1>2, <1>3, <1>4
<1>5. CASE Num[c] > Num[start]
  <2>1. Ahead(c)
    BY <1>5 DEF LongestInv, LongerAhead
  <2>2. Num[c] <= level /\ level \in Nat
    BY <1>1, <1>3, <2>1, AheadBound
  <2>3. CASE Num[head'] = level
    BY <1>3, <2>2, <2>3
  <2>4. CASE level <= 1 /\ idx > Len(parallel_blocks)
    <3>1. Num[c] < level
      BY <1>1, <2>1, <2>4, NumberAhead DEF SearchInv
    <3> QED BY <1>3, <2>2, <2>4, <3>1
  <2> QED BY <1>1, <2>3, <2>4, ReturnPosition
<1> QED BY <1>3, <1>4, <1>5

(* Steps that store, link and refuse nothing keep what the marks mean. *)
LEMMA MarksUnchanged ==
  ASSUME LongestInv, UNCHANGED <<known, is_linked, future_blocks>>,
         \A a \in Node : is_valid'[a] \in Bad => is_valid[a] \in Bad,
         \A a \in Node : is_valid[a] \in Bad /\ is_valid'[a] \notin Bad => is_linked[a]
  PROVE  /\ RefusedUnsound' /\ RefusedKnown' /\ AcceptableLinked' /\ LinkedComplete'
         /\ future_blocks' = {}
<1>1. RefusedUnsound'
  BY DEF LongestInv, RefusedUnsound, Sound
<1>2. RefusedKnown'
  BY DEF LongestInv, RefusedKnown
<1>3. AcceptableLinked'
  BY DEF LongestInv, AcceptableLinked, AcceptableBranch
<1>4. LinkedComplete'
  <2>1. known \subseteq Node
    BY DEF LongestInv, SearchInv, TreeInv, TypeOK, Node
  <2> QED BY <2>1 DEF LongestInv, LinkedComplete
<1> QED BY <1>1, <1>2, <1>3, <1>4 DEF LongestInv

LEMMA InitLongestInv == Init => LongestInv
<1> SUFFICES ASSUME Init PROVE LongestInv
  OBVIOUS
<1>1. known = {} /\ future_blocks = {} /\ pc = "idle"
  BY DEF Init
<1>2. \A b \in Node : is_valid[b] \notin Bad
  BY DEF Init, Bad
<1> QED BY <1>1, <1>2, InitSearchInv
        DEF LongestInv, RefusedUnsound, RefusedKnown, AcceptableLinked,
            LinkedComplete, LongerAhead, HeadIsLongest

(* One step, while no stored block is ahead of the clock. *)
LEMMA NextLongestInv ==
  LongestInv /\ UndoAvailable /\ NoneAhead /\ NumbersGrow /\ [Next]_vars => LongestInv'
<1> SUFFICES ASSUME LongestInv, UndoAvailable, NoneAhead, NumbersGrow, [Next]_vars
             PROVE  LongestInv'
  OBVIOUS
<1>f. FirstOnGenesis
  <2> SUFFICES ASSUME NEW b \in known, Num[b] = 1 PROVE Prev[b] = Genesis
    BY DEF FirstOnGenesis
  <2>1. b \in Block /\ Prev[b] \in Node
    BY BranchBack DEF LongestInv, SearchInv, TreeInv, TypeOK
  <2>2. Num[Prev[b]] \in Nat /\ Num[b] > Num[Prev[b]]
    BY <2>1, TreeAssumption DEF NumbersGrow
  <2> QED BY <2>1, <2>2, NumAssumption DEF Node
<1>n. StartNotAhead
  <2> SUFFICES ASSUME pc # "idle", NEW a \in Branch[start] \ {Genesis}
               PROVE  Time[a] <= clock + Drift
    BY DEF StartNotAhead
  <2>1. NotRefused(is_linked, is_valid, start) /\ start \in Node /\ LinkedDown
    BY DEF LongestInv, SearchInv, StartSound, TreeInv, TypeOK, CursorOK
  <2>2. is_linked[start]
    BY <2>1, BranchClosed DEF NotRefused
  <2> QED BY <2>1, <2>2 DEF LinkedDown, NoneAhead
<1>s. SearchInv /\ SearchInv' /\ TreeInv /\ TypeOK /\ ChainInv
  BY <1>f, <1>n, NextSearchInv DEF LongestInv, SearchInv, TreeInv
<1>c. /\ is_valid \in [Node -> Checked] /\ known \subseteq Block
  BY <1>s DEF TypeOK
<1>1. ASSUME NEW b \in Block, push_block(b) PROVE LongestInv'
  BY <1>1, <1>s, PushLongest
<1>2. CASE next_number
  <2>1. /\ UNCHANGED <<known, is_linked, is_valid, future_blocks, fork_number_db, head>>
        /\ pc = "try" /\ idx > Len(parallel_blocks)
    BY <1>2 DEF next_number, tree, chain
  <2>2. /\ RefusedUnsound' /\ RefusedKnown' /\ AcceptableLinked' /\ LinkedComplete'
        /\ future_blocks' = {}
    BY <2>1, MarksUnchanged
  <2>3. LongerAhead' /\ HeadIsLongest'
    <3>1. CASE pc' = "idle"
      BY <2>1, <3>1, ReturnLongest
    <3>2. CASE level' = level - 1 /\ idx' = 1 /\ UNCHANGED <<pc, start>>
      <4>1. ASSUME NEW c \in known, AcceptableBranch(c), Num[c] > Num[start]
            PROVE  Ahead(c)'
        <5>1. Ahead(c)
          BY <2>1, <4>1 DEF LongestInv, LongerAhead
        <5> QED BY <1>s, <2>1, <3>2, <5>1, NumberAhead DEF SearchInv
      <4> QED BY <2>1, <3>2, <4>1 DEF LongerAhead, HeadIsLongest, AcceptableBranch
    <3> QED BY <1>2, <3>1, <3>2 DEF next_number, Return
  <2> QED BY <1>s, <2>2, <2>3 DEF LongestInv
<1>3. CASE switch_to_fork
  <2>1. /\ UNCHANGED <<known, is_linked, is_valid, future_blocks, fork_number_db, head>>
        /\ pc = "try" /\ idx <= Len(parallel_blocks)
    BY <1>3 DEF switch_to_fork, tree, chain
  <2>2. /\ RefusedUnsound' /\ RefusedKnown' /\ AcceptableLinked' /\ LinkedComplete'
        /\ future_blocks' = {}
    BY <2>1, MarksUnchanged
  <2>3. LongerAhead' /\ HeadIsLongest'
    <3> DEFINE c == parallel_blocks[idx]
    <3>1. level \in Heights /\ parallel_blocks = fork_number_db[level]
      BY <1>s, <2>1 DEF parallel_blocks, TypeOK, CursorOK
    <3>2. Len(fork_number_db[level]) \in Nat /\ idx \in Nat \ {0}
      BY <1>s, <3>1 DEF TypeOK, CursorOK
    <3>3. idx \in 1..Len(fork_number_db[level])
      BY <2>1, <3>1, <3>2
    <3>4. c \in known /\ c = fork_number_db[level][idx] /\ c \in Node /\ c \in Block
      BY <1>s, <1>c, <3>1, <3>3 DEF SearchInv, ForkNumbersListed, Node
    <3>5. \/ ~can_link(is_linked, is_valid, c) /\ NextCandidate
          \/ pc' = "idle"
          \/ /\ can_link(is_linked, is_valid, c)
             /\ \E a \in Node : dead_end(a, c) /\ NextCandidate
          \/ /\ pc' = "pop" /\ UNCHANGED <<start, level, idx>>
      BY <1>3 DEF switch_to_fork, Return
    <3> HIDE DEF c
    <3>6. CASE ~can_link(is_linked, is_valid, c) /\ NextCandidate
      <4>1. ~AcceptableBranch(c)
        BY <1>s, <3>4, <3>6, AcceptableNotRefused DEF LongestInv, AcceptableLinked, can_link
      <4> QED BY <2>1, <3>4, <3>6, <4>1, LongerNextCandidate
    <3>7. CASE pc' = "idle"
      BY <2>1, <3>7, ReturnLongest
    <3>8. ASSUME can_link(is_linked, is_valid, c), NEW a \in Node, dead_end(a, c)
          PROVE  FALSE
      <4>1. Branch[Prev[c]] \subseteq Branch[c] /\ is_linked[c]
        BY <3>4, <3>8, BranchBack DEF can_link
      <4>2. \A x \in Branch[c] : is_linked[x]
        BY <1>s, <3>4, <4>1 DEF TreeInv, LinkedDown
      <4> QED BY <3>8, <4>1, <4>2 DEF dead_end
    <3>9. CASE pc' = "pop" /\ UNCHANGED <<start, level, idx>>
      BY <2>1, <3>9 DEF LongestInv, LongerAhead, HeadIsLongest, AcceptableBranch, Ahead
    <3> QED BY <3>5, <3>6, <3>7, <3>8, <3>9
  <2> QED BY <1>s, <2>2, <2>3 DEF LongestInv
<1>4. CASE pop_block
  <2>1. /\ UNCHANGED <<known, is_linked, is_valid, future_blocks, fork_number_db>>
        /\ UNCHANGED cursor /\ pc = "pop"
    BY <1>4 DEF pop_block, tree, UndoAvailable
  <2>2. /\ RefusedUnsound' /\ RefusedKnown' /\ AcceptableLinked' /\ LinkedComplete'
        /\ future_blocks' = {}
    BY <2>1, MarksUnchanged
  <2>3. LongerAhead' /\ HeadIsLongest'
    BY <2>1 DEF LongestInv, LongerAhead, HeadIsLongest, AcceptableBranch, Ahead, cursor
  <2> QED BY <1>s, <2>2, <2>3 DEF LongestInv
<1>5. ASSUME NEW b \in Block, extend_chain(b) PROVE LongestInv'
  <2>1. /\ UNCHANGED <<known, is_linked, future_blocks, fork_number_db>>
        /\ is_valid' = [is_valid EXCEPT ![b] = "valid"]
        /\ Extending(b) /\ pc \in {"pop", "extend"}
    BY <1>5 DEF extend_chain, Extending
  <2>2. \A a \in Node : is_valid'[a] = IF a = b THEN "valid" ELSE is_valid[a]
    BY <1>c, <2>1
  <2>3. is_linked[b]
    BY <1>s, <2>1, ExtendingKnown
  <2>4. /\ RefusedUnsound' /\ RefusedKnown' /\ AcceptableLinked' /\ LinkedComplete'
        /\ future_blocks' = {}
    <3>1. \A a \in Node : is_valid'[a] \in Bad => is_valid[a] \in Bad
      BY <2>2 DEF Bad
    <3>2. \A a \in Node : is_valid[a] \in Bad /\ is_valid'[a] \notin Bad => is_linked[a]
      BY <2>2, <2>3
    <3> QED BY <2>1, <3>1, <3>2, MarksUnchanged
  <2>5. LongerAhead' /\ HeadIsLongest'
    <3>1. CASE pc' = "idle"
      BY <2>1, <3>1, ReturnLongest
    <3>2. CASE pc' = "extend" /\ UNCHANGED <<start, level, idx>>
      BY <2>1, <3>2 DEF LongestInv, LongerAhead, HeadIsLongest, AcceptableBranch, Ahead
    <3> QED BY <1>5, <3>1, <3>2 DEF extend_chain, Return
  <2> QED BY <1>s, <2>4, <2>5 DEF LongestInv
<1>6. ASSUME NEW b \in Block, mark_invalid(b) PROVE LongestInv'
  <2> DEFINE S == {b} \union Descendants(known, b)
  <2>1. /\ Extending(b) /\ pc \in {"pop", "extend"} /\ ~accepted(b)
        /\ Prev[b] = head /\ b \in Branch[target]
        /\ is_valid' = MarkAll(is_valid, S, invalid_reason(b))
        /\ NextCandidate
        /\ UNCHANGED <<known, is_linked, fork_number_db>>
    BY <1>6 DEF mark_invalid, Extending, invalidated
  <2>2. b \in known /\ is_linked[b] /\ Branch[b] \ {Genesis} \subseteq known
    BY <1>s, <2>1, ExtendingKnown
  <2>3. ~Sound(b) /\ ~time_in_future(b) /\ b # Genesis
    BY <1>s, <2>1, <2>2, RefusedNotSound, GenesisAssumption
  <2>4. future_blocks' = {}
    BY <1>6, <2>3 DEF mark_invalid, invalid_reason, LongestInv
  <2>5. \A d \in S : d \in Node /\ b \in Branch[d]
    BY <1>c, DescendantsAbove DEF Node
  <2>6. \A a \in Node : is_valid'[a] = IF a \in S THEN invalid_reason(b) ELSE is_valid[a]
    BY <2>1 DEF MarkAll
  <2>7. invalid_reason(b) \in Bad
    BY DEF invalid_reason, Bad
  <2>8. ASSUME NEW a \in S PROVE Branch[a] \ {Genesis} \subseteq known
    <3>1. ASSUME NEW y \in Branch[a] \ {Genesis} PROVE y \in known
      <4>1. y \in Branch[b] \/ b \in Branch[y]
        BY <2>5, PathAssumption
      <4>2. CASE y \in Branch[b]
        BY <2>2, <4>2
      <4>3. CASE y \notin Branch[b] /\ b \in Branch[y]
        BY <4>3, BranchBack DEF Descendants
      <4> QED BY <4>1, <4>2, <4>3
    <3> QED BY <3>1
  <2> HIDE DEF S
  <2>9. RefusedUnsound'
    <3> SUFFICES ASSUME NEW a \in Node, is_valid'[a] \in Bad
                 PROVE  \E x \in Branch[a] \ {Genesis} : ~Sound(x)
      BY DEF RefusedUnsound, Sound
    <3> QED BY <2>3, <2>5, <2>6 DEF LongestInv, RefusedUnsound
  <2>10. RefusedKnown'
    <3> SUFFICES ASSUME NEW a \in Node, is_valid'[a] \in Bad
                 PROVE  Branch[a] \ {Genesis} \subseteq known
      BY <2>1 DEF RefusedKnown
    <3>1. CASE a \in S
      BY <2>8, <3>1
    <3>2. CASE a \notin S
      BY <2>6, <3>2 DEF LongestInv, RefusedKnown
    <3> QED BY <3>1, <3>2
  <2>11. AcceptableLinked'
    BY <2>1 DEF LongestInv, AcceptableLinked, AcceptableBranch
  <2>12. LinkedComplete'
    <3>1. \A c \in known : c \in Node /\ (is_valid'[c] \notin Bad => is_valid[c] \notin Bad)
      BY <1>c, <2>6, <2>7 DEF Node
    <3> QED BY <2>1, <3>1 DEF LongestInv, LinkedComplete
  <2>13. LongerAhead' /\ HeadIsLongest'
    <3>1. target = fork_number_db[level][idx]
      BY <1>s, <2>1 DEF SearchInv, TargetListed
    <3>2. ~AcceptableBranch(target)
      BY <2>1, <2>3 DEF AcceptableBranch, Sound
    <3> QED BY <2>1, <3>1, <3>2, LongerNextCandidate
  <2> QED BY <1>s, <2>4, <2>9, <2>10, <2>11, <2>12, <2>13 DEF LongestInv
<1>7. CASE tick \/ UNCHANGED vars
  <2>1. /\ UNCHANGED <<known, is_linked, is_valid, future_blocks, fork_number_db, head>>
        /\ UNCHANGED cursor
    BY <1>7 DEF tick, vars, tree, chain
  <2>2. /\ RefusedUnsound' /\ RefusedKnown' /\ AcceptableLinked' /\ LinkedComplete'
        /\ future_blocks' = {}
    BY <2>1, MarksUnchanged
  <2>3. LongerAhead' /\ HeadIsLongest'
    BY <2>1 DEF LongestInv, LongerAhead, HeadIsLongest, AcceptableBranch, Ahead, cursor
  <2> QED BY <1>s, <2>2, <2>3 DEF LongestInv
<1>8. CASE open
  <2>1. head' = head /\ pc = "idle" /\ pc' = "idle"
    BY <1>8, <1>s, OpenKeepsHead DEF open, cursor
  <2>2. future_blocks' = {} /\ future_blocks = {}
    BY <1>8 DEF open, LongestInv, retained_future_blocks
  <2>3. is_valid' = mark_as_unchecked(known, is_valid, {})
    BY <1>8, <2>2 DEF open
  <2>4. is_valid' = is_valid
    BY <1>c, <2>3, NothingUnchecked
  <2>5. UNCHANGED <<known, is_linked, fork_number_db>>
    BY <1>8 DEF open
  <2>6. /\ RefusedUnsound' /\ RefusedKnown' /\ AcceptableLinked' /\ LinkedComplete'
    BY <2>2, <2>4, <2>5, MarksUnchanged
  <2>7. LongerAhead' /\ HeadIsLongest'
    BY <2>1, <2>5 DEF LongestInv, LongerAhead, HeadIsLongest, AcceptableBranch
  <2> QED BY <1>s, <2>2, <2>6, <2>7 DEF LongestInv
<1> QED BY <1>1, <1>2, <1>3, <1>4, <1>5, <1>6, <1>7, <1>8 DEF Next, Step, pop_genesis

(***************************************************************************)
(* The fork choice rule.  Between two calls of push_block no stored branch *)
(* that is acceptable from genesis on is longer than the main chain, for   *)
(* every block tree and order of arrival, as long as undo states reach far *)
(* enough back, no stored block is ahead of the clock and stored blocks    *)
(* are numbered above their parents.                                       *)
(***************************************************************************)
THEOREM LongestBranchChosen ==
  Spec /\ []UndoAvailable /\ []NoneAhead /\ []NumbersGrow => []HeadIsLongest
<1>1. LongestInv => HeadIsLongest
  BY DEF LongestInv
<1> QED BY <1>1, InitLongestInv, NextLongestInv, PTL DEF Spec

-----------------------------------------------------------------------------
LinkInv == TreeInv /\ LinkedComplete /\ future_blocks = {}

(* One step, whether or not undo states are there. *)
LEMMA NextLinkInv == LinkInv /\ FirstOnGenesis /\ NoneAhead /\ [Next]_vars => LinkInv'
<1> SUFFICES ASSUME LinkInv, FirstOnGenesis, NoneAhead, [Next]_vars PROVE LinkInv'
  OBVIOUS
<1>t. TreeInv /\ TreeInv' /\ TypeOK
  BY NextTreeInv DEF LinkInv, TreeInv
<1>c. is_valid \in [Node -> Checked] /\ known \subseteq Node /\ known \subseteq Block
  BY <1>t DEF TypeOK, Node
<1>1. ASSUME NEW b \in Block, push_block(b) PROVE LinkInv'
  BY <1>1, <1>t, PushLinks DEF LinkInv
<1>2. CASE next_number \/ switch_to_fork \/ pop_block \/ tick \/ UNCHANGED vars
  <2>1. UNCHANGED <<known, is_linked, is_valid, future_blocks>>
    BY <1>2 DEF next_number, switch_to_fork, pop_block, tick, vars, tree
  <2> QED BY <1>t, <2>1 DEF LinkInv, LinkedComplete
<1>3. ASSUME NEW b \in Block, extend_chain(b) PROVE LinkInv'
  <2>1. /\ UNCHANGED <<known, is_linked, future_blocks>> /\ Extending(b)
        /\ is_valid' = [is_valid EXCEPT ![b] = "valid"]
    BY <1>3 DEF extend_chain
  <2>2. \A a \in Node : a # b => is_valid'[a] = is_valid[a]
    BY <1>c, <2>1
  <2>3. is_linked[b]
    BY <1>t, <2>1, ExtendingKnown
  <2> QED BY <1>t, <1>c, <2>1, <2>2, <2>3 DEF LinkInv, LinkedComplete
<1>4. ASSUME NEW b \in Block, mark_invalid(b) PROVE LinkInv'
  <2>1. /\ UNCHANGED <<known, is_linked>> /\ Extending(b)
        /\ is_valid' = MarkAll(is_valid, invalidated(b), invalid_reason(b))
    BY <1>4 DEF mark_invalid
  <2>2. invalid_reason(b) \in Bad
    BY DEF invalid_reason, Bad
  <2>3. \A a \in Node : is_valid'[a] \notin Bad => is_valid[a] \notin Bad
    BY <2>1, <2>2 DEF MarkAll
  <2>4. ~time_in_future(b)
    <3>1. b \in known /\ Time[b] \in Nat /\ clock \in Nat /\ Drift \in Nat
      BY <1>t, <2>1, ExtendingKnown, FieldsAssumption, BoundsAssumption DEF TypeOK, Node
    <3> QED BY <3>1 DEF NoneAhead, time_in_future
  <2>5. future_blocks' = {}
    BY <1>4, <2>4 DEF mark_invalid, invalid_reason, LinkInv
  <2> QED BY <1>t, <1>c, <2>1, <2>3, <2>5 DEF LinkInv, LinkedComplete
<1>5. CASE open
  <2>1. UNCHANGED <<known, is_linked>> /\ future_blocks' = {}
    BY <1>5 DEF open, LinkInv, retained_future_blocks
  <2>2. is_valid' = mark_as_unchecked(known, is_valid, {})
    BY <1>5, <2>1 DEF open
  <2>3. is_valid' = is_valid
    BY <1>c, <2>2, NothingUnchecked
  <2> QED BY <1>t, <2>1, <2>3 DEF LinkInv, LinkedComplete
<1> QED BY <1>1, <1>2, <1>3, <1>4, <1>5 DEF Next, Step, pop_genesis

(***************************************************************************)
(* As long as no stored block is ahead of the clock and blocks numbered 1  *)
(* extend genesis, a block that is not refused and extends a linked block  *)
(* is linked, whatever order the blocks arrive in and whichever forks were *)
(* tried.                                                                  *)
(***************************************************************************)
THEOREM LinksComplete == Spec /\ []NoneAhead /\ []FirstOnGenesis => []LinkedComplete
<1>1. LinkInv => LinkedComplete
  BY DEF LinkInv
<1>2. Init => LinkInv
  BY InitTreeInv, InitLongestInv DEF LinkInv, LongestInv
<1> QED BY <1>1, <1>2, NextLinkInv, PTL DEF Spec

-----------------------------------------------------------------------------
(* When undo states reach far enough back. *)

(* No fork starts more than the undo window below the highest stored block. *)
ShallowForks == pc = "pop" => \A b \in known : Num[b] <= Num[base] + MaxUndo

(* A main chain block without undo state left the window below a stored block. *)
UndoKept ==
  \A b \in Branch[head] \ {Genesis} :
    b \notin undo => \E k \in known : Num[k] >= Num[b] + MaxUndo

(* switch_to_fork pops down to a block of the main chain. *)
BaseOnHeadBranch == Genesis \in Branch[head] /\ (pc = "pop" => base \in Branch[head])

UndoInv ==
  /\ TreeInv
  /\ ChainInv
  /\ UndoKept
  /\ BaseOnHeadBranch

(* A block to be popped is above the fork point, hence in the window. *)
LEMMA ShallowUndo == UndoInv /\ ShallowForks => UndoAvailable
<1> SUFFICES ASSUME UndoInv, ShallowForks, pc = "pop", head # base, head \notin undo
             PROVE  FALSE
  BY DEF UndoAvailable
<1>1. /\ head \in Node /\ head \in Branch[head] /\ Branch[head] \subseteq Node
      /\ known \subseteq Block /\ MaxUndo \in Nat
  BY BranchClosed, BoundsAssumption DEF UndoInv, ChainInv, TypeOK
<1>2. base \in Branch[head]
  BY DEF UndoInv, BaseOnHeadBranch
<1>3. Num[base] < Num[head] /\ Num[base] \in Nat /\ Num[head] \in Nat
  BY <1>1, <1>2, TreeAssumption DEF UndoInv, ChainInv, HeadBranchOrdered
<1>4. head # Genesis
  BY <1>3, NumAssumption
<1>5. PICK k \in known : Num[k] >= Num[head] + MaxUndo
  BY <1>1, <1>4 DEF UndoInv, UndoKept
<1>6. Num[k] <= Num[base] + MaxUndo /\ Num[k] \in Nat
  BY <1>1, TreeAssumption DEF ShallowForks, Node
<1> QED BY <1>1, <1>3, <1>5, <1>6

LEMMA NextUndoInv == UndoInv /\ FirstOnGenesis /\ ShallowForks /\ [Next]_vars => UndoInv'
<1> SUFFICES ASSUME UndoInv, FirstOnGenesis, ShallowForks, [Next]_vars PROVE UndoInv'
  OBVIOUS
<1>i. TreeInv /\ ChainInv /\ TreeInv' /\ ChainInv' /\ UndoAvailable
  BY ShallowUndo, NextTreeInv, NextChainInv DEF UndoInv
<1>c. head \in Node /\ known \subseteq Block /\ Branch[head] \subseteq Node
  BY <1>i, BranchClosed DEF ChainInv, TypeOK
<1> SUFFICES UndoKept' /\ BaseOnHeadBranch'
  BY <1>i DEF UndoInv
<1>1. ASSUME UNCHANGED <<head, undo>>, known \subseteq known',
             pc' = "pop" => base' \in Branch[head]
      PROVE  UndoKept' /\ BaseOnHeadBranch'
  BY <1>1 DEF UndoInv, UndoKept, BaseOnHeadBranch
<1>2. ASSUME NEW b \in Block, push_block(b) PROVE UndoKept' /\ BaseOnHeadBranch'
  BY <1>1, <1>2 DEF push_block, chain, Return
<1>3. CASE next_number
  <2>1. UNCHANGED <<head, undo, known>>
    BY <1>3 DEF next_number, tree, chain
  <2>2. pc' # "pop"
    BY <1>3 DEF next_number, Return
  <2> QED BY <1>1, <2>1, <2>2
<1>4. CASE switch_to_fork
  <2>1. UNCHANGED <<head, undo, known>>
    BY <1>4 DEF switch_to_fork, tree, chain
  <2>2. ASSUME pc' = "pop" PROVE base' \in Branch[head]
    <3>1. base' \in included \/ base' = Genesis
      BY <1>4, <2>2 DEF switch_to_fork, NextCandidate, Return, is_fork_base
    <3> QED BY <1>i, <3>1 DEF UndoInv, BaseOnHeadBranch, ChainInv,
                              MainChainConsistent, IncludedMatchesHead
  <2> QED BY <1>1, <2>1, <2>2
<1>5. CASE pop_block
  <2>1. /\ head \in undo /\ head # base /\ head \in Block /\ head # Genesis
        /\ pc = "pop"
    BY <1>5, <1>c, <1>i DEF pop_block, UndoAvailable, Node
  <2>2. head' = Prev[head] /\ UNCHANGED <<undo, known, base, pc>>
    BY <1>5, <2>1 DEF pop_block, tree, cursor
  <2>3. Branch[head] = {head} \union Branch[Prev[head]]
    BY <2>1, BranchBack
  <2> QED BY <2>1, <2>2, <2>3 DEF UndoInv, UndoKept, BaseOnHeadBranch
<1>6. ASSUME NEW b \in Block, extend_chain(b) PROVE UndoKept' /\ BaseOnHeadBranch'
  <2>1. /\ Prev[b] = head /\ head' = b /\ undo' = save_undo_state(b)
        /\ UNCHANGED known /\ Extending(b) /\ undo_saved(b)
    BY <1>6 DEF extend_chain, Extending, accepted
  <2>2. Branch[b] = {b} \union Branch[head]
    BY <2>1, BranchBack
  <2>3. pc' # "pop"
    BY <1>6 DEF extend_chain, Return
  <2>4. b \in known /\ Num[b] \in Nat /\ MaxUndo \in Nat
    BY <1>i, <2>1, ExtendingKnown, TreeAssumption, BoundsAssumption DEF Node
  <2>5. ASSUME NEW a \in Branch[b] \ {Genesis}, a \notin undo'
        PROVE  \E k \in known : Num[k] >= Num[a] + MaxUndo
    <3>1. a # b /\ a \in Branch[head] /\ a \in Block
      BY <1>c, <2>1, <2>2, <2>5 DEF save_undo_state, Node
    <3>2. CASE a \notin undo
      BY <3>1, <3>2, <2>5 DEF UndoInv, UndoKept
    <3>3. CASE a \in undo
      <4>1. Num[b] > MaxUndo /\ a = num_to_id[Num[b] - MaxUndo]
        BY <2>1, <2>5, <3>3 DEF save_undo_state
      <4>2. Num[b] - MaxUndo \in Heights
        BY <2>1, <4>1 DEF undo_saved
      <4>3. Num[a] = Num[b] - MaxUndo
        BY <1>i, <3>1, <4>1, <4>2 DEF ChainInv, MainChainConsistent, NumberIndexMatchesHead
      <4> QED BY <2>4, <4>3
    <3> QED BY <3>2, <3>3
  <2> QED BY <2>1, <2>2, <2>3, <2>5 DEF UndoKept, BaseOnHeadBranch, UndoInv
<1>7. ASSUME NEW b \in Block, mark_invalid(b) PROVE UndoKept' /\ BaseOnHeadBranch'
  BY <1>1, <1>7 DEF mark_invalid, chain, NextCandidate
<1>8. CASE tick \/ UNCHANGED vars
  <2>1. UNCHANGED <<head, undo, known, pc, base>>
    BY <1>8 DEF tick, vars, tree, chain, cursor
  <2> QED BY <1>1, <2>1 DEF UndoInv, BaseOnHeadBranch
<1>9. CASE open
  <2>1. UNCHANGED <<head, undo, known>> /\ pc' = "idle"
    BY <1>9, <1>i, OpenKeepsHead DEF open, cursor
  <2> QED BY <1>1, <2>1
<1> QED BY <1>2, <1>3, <1>4, <1>5, <1>6, <1>7, <1>8, <1>9 DEF Next, Step, pop_genesis

(***************************************************************************)
(* The undo window suffices for every fork that starts within it: as long  *)
(* as no fork point lies more than MaxUndo below the highest stored block  *)
(* and blocks numbered 1 extend genesis, every block switch_to_fork has to *)
(* pop has its undo state.  Both are conditions on the blocks received.    *)
(***************************************************************************)
THEOREM UndoSuffices == Spec /\ []ShallowForks /\ []FirstOnGenesis => []UndoAvailable
<1>1. Init => UndoInv
  <2> SUFFICES ASSUME Init PROVE UndoKept /\ BaseOnHeadBranch
    BY InitTreeInv, InitChainInv DEF UndoInv
  <2>1. head = Genesis /\ Branch[head] = {Genesis} /\ pc = "idle"
    BY BranchAssumption DEF Init
  <2> QED BY <2>1 DEF UndoKept, BaseOnHeadBranch
<1> QED BY <1>1, NextUndoInv, ShallowUndo, PTL DEF Spec

(***************************************************************************)
(* With forks no deeper than the undo window and blocks numbered 1 only on *)
(* genesis, push_block keeps the include flags, the applied changes and    *)
(* the number index on the head's branch; while the clock does not step    *)
(* back behind the main chain during a call, the rest of the node sees     *)
(* only a head that MainChain allows.                                      *)
(***************************************************************************)
THEOREM ShallowForksConsistent ==
  Spec /\ []ShallowForks /\ []FirstOnGenesis
    => []MainChainConsistent /\ ([]StartNotAhead => PublicHead)
<1> QED BY UndoSuffices, ChainConsistent, ImplementsMainChain, PTL

=============================================================================
