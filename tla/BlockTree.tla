------------------------------ MODULE BlockTree ------------------------------
(***************************************************************************)
(* The blocks a node may come to know, as a tree.  The identifier of a     *)
(* block is a hash over its header, and the header holds the identifier of *)
(* the previous block, so the blocks form a tree rooted at genesis and     *)
(* Branch[b] is the path from b to the root.                               *)
(***************************************************************************)
EXTENDS Integers

CONSTANTS
  Block,        \* the blocks peers and the local delegate may hand over
  Genesis,      \* BlockIdType(), the entry initialize_genesis creates
  NoBlock,      \* no block
  Prev,         \* block_data.previous
  Num,          \* block_data.block_num
  Branch        \* the blocks from one block back to genesis, both included

Node == Block \union {Genesis}
Heights == {Num[b] : b \in Node}

ASSUME GenesisAssumption == Genesis \notin Block /\ NoBlock \notin Node
ASSUME TreeAssumption == /\ Prev \in [Block -> Node]
                         /\ Num \in [Node -> Nat]
ASSUME NumAssumption == /\ Num[Genesis] = 0
                        /\ \A b \in Block : Num[b] > 0
ASSUME BranchAssumption ==
  /\ Branch \in [Node -> SUBSET Node]
  /\ Branch[Genesis] = {Genesis}
  /\ \A b \in Block : Branch[b] = {b} \union Branch[Prev[b]]
  /\ \A b \in Block : b \notin Branch[Prev[b]]
ASSUME PathAssumption ==
  \A b \in Node : \A a \in Branch[b] :
    /\ Branch[a] \subseteq Branch[b]
    /\ \A c \in Branch[b] : a \in Branch[c] \/ c \in Branch[a]
    /\ a # b => \E c \in Block : c \in Branch[b] /\ Prev[c] = a

(* Branch, from previous; for instances of small trees *)
BranchOf(prev, genesis, blocks) ==
  LET path[b \in blocks \union {genesis}] ==
        IF b = genesis THEN {b} ELSE {b} \union path[prev[b]]
  IN path

=============================================================================
