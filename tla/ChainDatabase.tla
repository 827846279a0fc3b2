---------------------------- MODULE ChainDatabase ----------------------------
(***************************************************************************)
(* The block tree and the main chain of blockchain/ChainDatabase.cpp:      *)
(* ChainDatabase::push_block and everything it calls to store a block, to  *)
(* track which blocks are linked, valid and included, and to move the head *)
(* from one fork to another.                                               *)
(*                                                                         *)
(* push_block holds _push_block_mutex and asserts that it is not           *)
(* preempted, so two calls never overlap; it is nevertheless split into    *)
(* the steps of its loops (one candidate fork, one popped block, one       *)
(* extended block), because each of them can fail and leaves the database  *)
(* as it is at that point.  `pc' says where the running call stands.       *)
(*                                                                         *)
(* A block is an element of Block with the fields the control flow reads.  *)
(* The transactions in it are abstracted to whether it passes the checks   *)
(* that depend on the chain state alone (`b \in Good'); that state is a    *)
(* function of the branch the block extends.                               *)
(***************************************************************************)
EXTENDS BlockTree, Sequences, FiniteSets

CONSTANTS
  Time,         \* block_data.timestamp, in block intervals
  Good,         \* blocks that every check but the header's accepts
  MaxUndo,      \* ALP_BLOCKCHAIN_MAX_UNDO_HISTORY
  Drift,        \* block intervals a timestamp may be ahead of the clock
  Retention,    \* block intervals a future block stays listed (two days)
  MaxClock      \* bound of the model: the highest value of the clock

Checked == {"unchecked", "valid", "invalid", "future"}
Bad == {"invalid", "future"}

ASSUME BoundsAssumption == /\ MaxUndo \in Nat \ {0}
                           /\ Drift \in Nat
                           /\ Retention \in Nat
                           /\ MaxClock \in Nat
ASSUME FieldsAssumption == /\ Time \in [Node -> Nat]
                           /\ Good \subseteq Block

VARIABLES
  known,            \* _block_id_to_full_block; BlockForkData::is_known
  is_linked,        \* BlockForkData::is_linked
  is_valid,         \* BlockForkData::is_valid with invalid_reason
  included,         \* BlockForkData::is_included
  fork_number_db,   \* _fork_number_db, in order of arrival
  future_blocks,    \* _revalidatable_future_blocks_db
  head,             \* _head_block_id
  num_to_id,        \* _block_num_to_id_db
  undo,             \* keys of _block_id_to_undo_state
  applied,          \* blocks whose changes the ledger tables hold
  clock,            \* blockchain::now(), in block intervals
  pc,               \* where the running push_block stands
  pushed,           \* its block_id
  start,            \* the head it found
  level,            \* highest_unchecked_block_number
  idx,              \* position in parallel_blocks
  target,           \* the block switch_to_fork is called with
  base              \* history.back()

tree == <<known, is_linked, is_valid, fork_number_db, future_blocks>>
chain == <<included, head, num_to_id, undo, applied>>
cursor == <<pc, pushed, start, level, idx, target, base>>
vars == <<tree, chain, clock, cursor>>

-----------------------------------------------------------------------------
(* The fork database *)

can_link(linked, valid, b) == linked[b] /\ valid[b] \notin Bad

(***************************************************************************)
(* A block enters next_blocks of its previous block when it is stored, so  *)
(* next_blocks of b are the known children of b, and the loops over        *)
(* next_blocks reach the descendants that known blocks connect to b.       *)
(***************************************************************************)
next_blocks(K, b) == {c \in K : Prev[c] = b}

Descendants(K, b) ==
  {d \in K : /\ d # b
             /\ b \in Branch[d]
             /\ \A x \in Branch[d] : b \in Branch[x] /\ x # b => x \in K}

MarkAll(f, S, v) == [b \in Node |-> IF b \in S THEN v ELSE f[b]]

is_placeholder(b) == next_blocks(known, b) # {}

\* mutant: the descendants that arrived earlier are forgotten
mark_as_linked_shallow(b) == IF is_linked[Prev[b]] THEN {b} ELSE {}

recursive_mark_as_linked(b) ==
  IF ~is_linked[Prev[b]] THEN {}
  ELSE IF is_valid[Prev[b]] \in Bad THEN {b}
  ELSE {b} \union Descendants(known, b)

recursive_mark_as_invalid(b) ==
  IF is_valid[Prev[b]] \in Bad /\ (is_linked[Prev[b]] \/ ~is_placeholder(b))
  THEN {b} \union Descendants(known, b)
  ELSE {}

(***************************************************************************)
(* What store_and_index returns.  Several descendants may share the        *)
(* highest number; the order of an unordered_set decides between them.     *)
(***************************************************************************)
longest_fork(b) ==
  IF is_linked[Prev[b]] /\ is_placeholder(b) /\ is_valid[Prev[b]] \notin Bad
  THEN {d \in Descendants(known, b) :
          \A e \in Descendants(known, b) : Num[e] <= Num[d]}
  ELSE {b}

mark_as_unchecked(K, valid, S) ==
  MarkAll(valid, S \union UNION {Descendants(K, b) : b \in S}, "unchecked")

retained_future_blocks == {b \in future_blocks : clock - Time[b] <= Retention}

-----------------------------------------------------------------------------
(* push_block *)

Return == /\ pc' = "idle"
          /\ pushed' = Genesis /\ start' = Genesis
          /\ target' = Genesis /\ base' = Genesis
          /\ level' = 0
          /\ idx' = 1

older_than_undo_history(b) == /\ Num[head] > MaxUndo
                              /\ Num[b] <= Num[head] - MaxUndo

(***************************************************************************)
(* push_block up to its loop: the two early returns are the guard, then    *)
(* store_and_index, then either the loop starts, or the call is over, or   *)
(* (nothing to link) the invalidation of the listed blocks is cleared.     *)
(***************************************************************************)
push_block(b) ==
  /\ pc = "idle"
  /\ b \notin known
  /\ ~older_than_undo_history(b)
  /\ known' = known \union {b}
  /\ fork_number_db' = [fork_number_db EXCEPT ![Num[b]] = Append(@, b)]
  /\ is_linked' = MarkAll(is_linked, recursive_mark_as_linked(b), TRUE)
  /\ LET valid == MarkAll(is_valid, recursive_mark_as_invalid(b),
                          is_valid[Prev[b]])
     IN \E f \in longest_fork(b) :
          IF can_link(is_linked', valid, f)
          THEN /\ is_valid' = valid
               /\ UNCHANGED future_blocks
               /\ IF Num[f] > Num[head]
                  THEN /\ pc' = "try"
                       /\ pushed' = b
                       /\ start' = head
                       /\ level' = Num[f]
                       /\ idx' = 1
                       /\ UNCHANGED <<target, base>>
                  ELSE Return
          ELSE /\ future_blocks' = retained_future_blocks
               /\ is_valid' = mark_as_unchecked(known', valid, future_blocks')
               /\ Return
  /\ UNCHANGED <<chain, clock>>

parallel_blocks ==
  IF level \in Heights THEN fork_number_db[level] ELSE <<>>

\* mutant: the first invalid fork ends the search
NextCandidate_gives_up == Return

\* mutant: the position in parallel_blocks is not advanced
NextCandidate_again == /\ pc' = "try"
                       /\ target' = Genesis
                       /\ base' = Genesis
                       /\ UNCHANGED <<pushed, start, level, idx>>

NextCandidate == /\ pc' = "try"
                 /\ idx' = idx + 1
                 /\ target' = Genesis
                 /\ base' = Genesis
                 /\ UNCHANGED <<pushed, start, level>>

\* mutant: the loop has no lower end
next_number_unbounded ==
  /\ pc = "try"
  /\ idx > Len(parallel_blocks)
  /\ level' = level - 1
  /\ idx' = 1
  /\ UNCHANGED <<pc, pushed, start, target, base>>
  /\ UNCHANGED <<tree, chain, clock>>

(* Every block at this number was tried: go one number down, or give up. *)
next_number ==
  /\ pc = "try"
  /\ idx > Len(parallel_blocks)
  /\ IF level > 1
     THEN /\ level' = level - 1
          /\ idx' = 1
          /\ UNCHANGED <<pc, pushed, start, target, base>>
     ELSE Return
  /\ UNCHANGED <<tree, chain, clock>>

(***************************************************************************)
(* get_fork_history(b) ends with the first included block it meets on the  *)
(* way from b to genesis; it throws if a block on the way is not linked.   *)
(***************************************************************************)
is_fork_base(a, b) ==
  LET stops == {c \in Branch[Prev[b]] : c \in included \/ c = Genesis}
  IN a \in stops /\ stops \subseteq Branch[a]

dead_end(a, b) == \E c \in Branch[Prev[b]] : a \in Branch[c] /\ ~is_linked[c]

(* One candidate of the loop, up to the call of switch_to_fork. *)
switch_to_fork ==
  /\ pc = "try"
  /\ idx <= Len(parallel_blocks)
  /\ LET b == parallel_blocks[idx] IN
       \/ /\ ~can_link(is_linked, is_valid, b)
          /\ NextCandidate
       \/ /\ can_link(is_linked, is_valid, b)
          /\ b = head
          /\ Return
       \/ /\ can_link(is_linked, is_valid, b)
          /\ b # head
          /\ \E a \in Node :
               /\ is_fork_base(a, b)
               /\ IF dead_end(a, b)
                  THEN NextCandidate
                  ELSE /\ pc' = "pop"
                       /\ target' = b
                       /\ base' = a
                       /\ UNCHANGED <<pushed, start, level, idx>>
  /\ UNCHANGED <<tree, chain, clock>>

\* mutant: the number index keeps the popped block
keep_index(n) == num_to_id

remove_index(n) == [num_to_id EXCEPT ![n] = NoBlock]

(***************************************************************************)
(* One pop_block of switch_to_fork.  The include flag and the number index *)
(* are changed before the undo state is looked up; if there is none the    *)
(* exception leaves them so, and push_block goes to the next candidate.    *)
(***************************************************************************)
pop_block ==
  /\ pc = "pop"
  /\ head # base
  /\ head # Genesis
  /\ included' = included \ {head}
  /\ num_to_id' = remove_index(Num[head])
  /\ \/ /\ head \in undo
        /\ applied' = applied \ {head}
        /\ head' = Prev[head]
        /\ UNCHANGED cursor
     \/ /\ head \notin undo
        /\ NextCandidate
        /\ UNCHANGED <<applied, head>>
  /\ UNCHANGED <<tree, clock, undo>>

(***************************************************************************)
(* pop_block returns at once when the head is genesis, and the loop of     *)
(* switch_to_fork calls it again: it turns without end.                    *)
(***************************************************************************)
pop_genesis ==
  /\ pc = "pop"
  /\ head # base
  /\ head = Genesis
  /\ UNCHANGED vars

\* mutant: the number is not compared with the one of the head
in_past_only(b) == Num[b] > 1 => Time[b] > Time[head]

(***************************************************************************)
(* verify_header, in the order of its checks.  A block numbered 1 is       *)
(* compared with no parent: it need not extend genesis.                    *)
(***************************************************************************)
sequential(b) == Num[b] > 1 => /\ Num[b] = Num[head] + 1
                               /\ Time[b] > Time[head]

time_in_future(b) == Time[b] > clock + Drift

(* save_undo_state reads the block that leaves the undo window. *)
undo_saved(b) == Num[b] > MaxUndo =>
                   /\ Num[b] - MaxUndo \in Heights
                   /\ num_to_id[Num[b] - MaxUndo] # NoBlock

accepted(b) == sequential(b) /\ ~time_in_future(b) /\ b \in Good /\ undo_saved(b)

\* mutant: the window is one block short
save_undo_state_short(b) ==
  (IF Num[b] > MaxUndo THEN undo \ {num_to_id[Num[b] - MaxUndo + 1]} ELSE undo)
    \union {b}

save_undo_state(b) ==
  (IF Num[b] > MaxUndo THEN undo \ {num_to_id[Num[b] - MaxUndo]} ELSE undo)
    \union {b}

Extending(b) == /\ pc = "extend" \/ (pc = "pop" /\ head = base)
                /\ b \in Branch[target]
                /\ Prev[b] = head

(* extend_chain when every check passes *)
extend_chain(b) ==
  /\ Extending(b)
  /\ accepted(b)
  /\ undo' = save_undo_state(b)
  /\ applied' = applied \union {b}
  /\ included' = included \union {b}
  /\ is_valid' = [is_valid EXCEPT ![b] = "valid"]
  /\ head' = b
  /\ num_to_id' = [num_to_id EXCEPT ![Num[b]] = b]
  /\ IF b = target
     THEN Return
     ELSE pc' = "extend" /\ UNCHANGED <<pushed, start, level, idx, target, base>>
  /\ UNCHANGED <<known, is_linked, fork_number_db, future_blocks, clock>>

\* mutant: the reason of the exception is not kept
invalid_reason_lost(b) == "invalid"

(***************************************************************************)
(* extend_chain when a check fails: mark_invalid with the exception as the *)
(* reason; push_block lists the block it was called with when the reason   *)
(* is time_in_future, and goes to the next candidate.                      *)
(***************************************************************************)
invalid_reason(b) ==
  IF sequential(b) /\ time_in_future(b) THEN "future" ELSE "invalid"

\* mutant: the block below the refused one is marked
invalidated_previous(b) == {Prev[b]}

invalidated(b) == {b} \union Descendants(known, b)

mark_invalid(b) ==
  /\ Extending(b)
  /\ ~accepted(b)
  /\ is_valid' = MarkAll(is_valid, invalidated(b), invalid_reason(b))
  /\ future_blocks' = IF invalid_reason(b) = "future"
                      THEN future_blocks \union {pushed} ELSE future_blocks
  /\ NextCandidate
  /\ UNCHANGED <<known, is_linked, fork_number_db, chain, clock>>

(***************************************************************************)
(* blockchain::now() follows NTP and adjusted_time_sec, so at any point of *)
(* a call it may move on, jump, or step back.                              *)
(***************************************************************************)
tick == /\ \E t \in 0..MaxClock : t # clock /\ clock' = t
        /\ UNCHANGED <<tree, chain, cursor>>

(***************************************************************************)
(* A clean shutdown and ChainDatabase::open without replay: the head is    *)
(* the last entry of the number index, and open_database clears the        *)
(* invalidation of the listed blocks.                                      *)
(***************************************************************************)
last_indexed ==
  {b \in Block : \E n \in Heights :
     num_to_id[n] = b /\ \A m \in Heights : num_to_id[m] # NoBlock => m <= n}

open ==
  /\ pc = "idle"
  /\ IF last_indexed = {} THEN head' = Genesis ELSE head' \in last_indexed
  /\ future_blocks' = retained_future_blocks
  /\ is_valid' = mark_as_unchecked(known, is_valid, future_blocks')
  /\ UNCHANGED <<known, is_linked, fork_number_db, included, num_to_id, undo,
                 applied, clock, cursor>>

-----------------------------------------------------------------------------
(* initialize_genesis *)
Init ==
  /\ known = {}
  /\ is_linked = [b \in Node |-> b = Genesis]
  /\ is_valid = [b \in Node |-> IF b = Genesis THEN "valid" ELSE "unchecked"]
  /\ included = {Genesis}
  /\ fork_number_db = [n \in Heights |-> <<>>]
  /\ future_blocks = {}
  /\ head = Genesis
  /\ num_to_id = [n \in Heights |-> NoBlock]
  /\ undo = {}
  /\ applied = {}
  /\ clock = 0
  /\ pc = "idle"
  /\ pushed = Genesis /\ start = Genesis /\ target = Genesis /\ base = Genesis
  /\ level = 0
  /\ idx = 1

Step == \/ next_number
        \/ switch_to_fork
        \/ pop_block
        \/ pop_genesis
        \/ \E b \in Block : extend_chain(b)
        \/ \E b \in Block : mark_invalid(b)

Next == Step \/ tick \/ open \/ \E b \in Block : push_block(b)

(* The fiber that runs push_block is not preempted, so it keeps going. *)
Spec == Init /\ [][Next]_vars
FairSpec == Spec /\ WF_vars(Step)

=============================================================================
