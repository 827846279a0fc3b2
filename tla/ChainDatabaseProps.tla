-------------------------- MODULE ChainDatabaseProps --------------------------
(* The properties ChainDatabase is checked and proved for. *)
EXTENDS ChainDatabase

(* The local variables of push_block; it runs with a block it was given. *)
CursorOK ==
  /\ pc \in {"idle", "try", "pop", "extend"}
  /\ pushed \in Node /\ start \in Node /\ target \in Node /\ base \in Node
  /\ pc # "idle" => pushed \in Block
  /\ level \in Nat
  /\ idx \in Nat \ {0}

(* Every table and every local variable of push_block holds values of its type. *)
TypeOK ==
  /\ known \subseteq Block
  /\ is_linked \in [Node -> BOOLEAN]
  /\ is_valid \in [Node -> Checked]
  /\ included \subseteq Node
  /\ fork_number_db \in [Heights -> Seq(Block)]
  /\ future_blocks \subseteq Block
  /\ head \in Node
  /\ num_to_id \in [Heights -> Block \union {NoBlock}]
  /\ undo \subseteq Block
  /\ applied \subseteq Block
  /\ clock \in Nat
  /\ CursorOK

(***************************************************************************)
(* The four places that say what the main chain is agree after every       *)
(* pop_block and extend_chain, whatever fork switch is under way or has    *)
(* failed half way: the is_included flags, the ledger tables (changes      *)
(* applied and undone) and the number index all hold exactly the branch of *)
(* _head_block_id.                                                         *)
(***************************************************************************)
IncludedMatchesHead == included = Branch[head]
LedgerMatchesHead == applied = Branch[head] \ {Genesis}
NumberIndexMatchesHead ==
  \A n \in Heights : \A b \in Block :
    num_to_id[n] = b <=> b \in Branch[head] /\ Num[b] = n
MainChainConsistent ==
  /\ IncludedMatchesHead
  /\ LedgerMatchesHead
  /\ NumberIndexMatchesHead

(***************************************************************************)
(* What verify_header and the evaluation of a block ask of it on top of    *)
(* its parent, apart from the clock.                                       *)
(***************************************************************************)
Acceptable(b) ==
  /\ b \in Good
  /\ Num[b] > 1 => /\ Num[b] = Num[Prev[b]] + 1
                   /\ Time[b] > Time[Prev[b]]

(***************************************************************************)
(* Every block of the main chain passed its checks against its own parent: *)
(* a fork switch or a restart never carries a block over that              *)
(* verify_header or the evaluation of the block would refuse there, also   *)
(* when a second block numbered 1 in the middle of a branch has            *)
(* overwritten the number index and its removal left holes in it.          *)
(***************************************************************************)
HeadBranchAccepted == \A b \in Branch[head] \ {Genesis} : Acceptable(b)

(***************************************************************************)
(* A condition on the blocks received, which verify_header leaves          *)
(* unchecked: a block numbered 1 extends genesis.                          *)
(***************************************************************************)
FirstOnGenesis == \A b \in known : Num[b] = 1 => Prev[b] = Genesis

(***************************************************************************)
(* On the main chain numbers are lengths.                                  *)
(***************************************************************************)
HeadBranchSequential ==
  \A b \in Branch[head] \ {Genesis} :
    /\ b \in Good
    /\ Num[b] = Num[Prev[b]] + 1
    /\ Num[b] > 1 => Time[b] > Time[Prev[b]]

(***************************************************************************)
(* Numbers grow along the main chain, so that a number names one block of  *)
(* it.  With this MainChainConsistent is inductive.                        *)
(***************************************************************************)
HeadBranchOrdered ==
  \A b \in Branch[head] : \A a \in Branch[b] \ {b} : Num[a] < Num[b]
ChainInv ==
  /\ TypeOK
  /\ MainChainConsistent
  /\ HeadBranchSequential
  /\ HeadBranchOrdered

(***************************************************************************)
(* Whenever switch_to_fork has to pop the head, its undo state is there.   *)
(* push_block refuses a block with the words "is on a fork older than our  *)
(* undo history would allow us to switch to", and pop_block asserts it.    *)
(***************************************************************************)
UndoAvailable == pc = "pop" /\ head # base => head \in undo

(***************************************************************************)
(* Between two calls of push_block no stored branch that is acceptable     *)
(* from genesis on is longer than the main chain, in whatever order its    *)
(* blocks arrived and whatever other forks were tried and refused.         *)
(***************************************************************************)
AcceptableBranch(t) ==
  \A b \in Branch[t] \ {Genesis} :
    /\ b \in known
    /\ b \in Good
    /\ Num[b] = Num[Prev[b]] + 1
    /\ Num[b] > 1 => Time[b] > Time[Prev[b]]
HeadIsLongest ==
  pc = "idle" => \A b \in known : AcceptableBranch(b) => Num[b] <= Num[head]

(***************************************************************************)
(* A block that arrives before its ancestors is marked linked as soon as   *)
(* the missing ones arrive (the comment of store_and_index, case 3), so    *)
(* that a block which is not refused and extends a linked block is itself  *)
(* linked and can be switched to.                                          *)
(***************************************************************************)
LinkedComplete ==
  \A b \in known : is_linked[Prev[b]] /\ is_valid[b] \notin Bad => is_linked[b]

(***************************************************************************)
(* A block marked valid never has an ancestor marked invalid: a block is   *)
(* refused together with what was stored on top of it, and the marks of    *)
(* one fork never reach another ("block can't be valid if any previous     *)
(* block in its chain is invalid").                                        *)
(***************************************************************************)
ValidOnValidBranch ==
  \A b \in Node : is_valid[b] = "valid" =>
    \A a \in Branch[b] : is_linked[a] /\ is_valid[a] \notin Bad

(***************************************************************************)
(* "fork permanently rejected as it has permanently invalid block": a      *)
(* block carries an invalidation that is never lifted only if a block of   *)
(* its branch fails a check that does not depend on the clock.  However    *)
(* the clock jumps while forks are tried, and in whatever order blocks     *)
(* inherit the marks of their parents, a branch that is only ahead of the  *)
(* clock keeps the reason that a later call may clear.                     *)
(***************************************************************************)
RefusedForGood ==
  FirstOnGenesis =>
    \A b \in Node : is_valid[b] = "invalid" =>
      \E a \in Branch[b] \ {Genesis} : ~Acceptable(a)

(***************************************************************************)
(* push_block returns: its two nested loops and the pops and extensions of *)
(* every fork they try come to an end.                                     *)
(***************************************************************************)
PushReturns == pc # "idle" ~> pc = "idle"

(***************************************************************************)
(* Seen between two calls of push_block, the head implements MainChain: it *)
(* moves only to acceptable branches that are no shorter, even when the    *)
(* forks tried first turn out to be invalid half way through the switch.   *)
(***************************************************************************)
Public == INSTANCE MainChain WITH tip <- IF pc = "idle" THEN head ELSE start
PublicHead == Public!Spec

=============================================================================
