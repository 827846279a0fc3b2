--------------------------- MODULE TransactionPool ---------------------------
(***************************************************************************)
(* Pending and duplicate transactions of blockchain/ChainDatabase.cpp: the *)
(* pool (_pending_transaction_db), its index by fee, the state the pool    *)
(* leads to (_pending_trx_state), and the set by which a transaction is    *)
(* recognised (_unique_transactions), while blocks are extended and popped *)
(* under them.                                                             *)
(*                                                                         *)
(* A transaction moves one unit from one balance to another; its contracts *)
(* and signatures are left out, and its fee only ranks it.  Identifiers    *)
(* are numbers, in the order in which the pool is iterated.  The chain is  *)
(* the part above some block at time 0, past the last checkpoint.          *)
(***************************************************************************)
EXTENDS PendingChainState, Integers, FiniteSets, SequencesExt

CONSTANTS
  Trx,            \* transaction identifiers
  From, To,       \* the balances a transaction withdraws from and deposits to
  Fee,            \* the fee it pays
  Expiration,     \* the time from which on it is refused
  Size,           \* its size in the pool
  BlockSize,      \* its size in a block: a contract's comes with its result
  Excluded,       \* transactions the delegate's limits and lists exclude
  OldLedger,      \* the balances at the block the model starts from
  MaxAhead,       \* how far ahead an expiration may be
  RelayFee,       \* _relay_fee
  MinFee,         \* config.transaction_min_fee
  MaxQueue,       \* ALP_BLOCKCHAIN_MAX_PENDING_QUEUE_SIZE
  MaxRevalidate,  \* ALP_BLOCKCHAIN_REVALIDATE_MAX_TRX_COUNT
  MaxBlockTrx,    \* config.block_max_transaction_count
  MaxBlockSize,   \* config.block_max_size, less the size of an empty block
  MaxTime,        \* bound of the model: the last timestamp
  MaxLen          \* bound of the model: blocks above the starting block

ASSUME TrxAssumption ==
  /\ Trx \subseteq Nat
  /\ From \in [Trx -> Key] /\ To \in [Trx -> Key]
  /\ \A t \in Trx : From[t] # To[t]
  /\ Fee \in [Trx -> Nat] /\ Expiration \in [Trx -> Nat]
  /\ Size \in [Trx -> Nat] /\ BlockSize \in [Trx -> Nat]
  /\ Excluded \subseteq Trx
  /\ IsFiniteSet(Trx)
ASSUME LedgerAssumption ==
  /\ OldLedger \in Table /\ Value \subseteq Nat /\ Absent \notin Nat
(* Every amount is one of the values, up to what the ledger adds up to. *)
LedgerTotal == MapThenSumSet(LAMBDA k : IF OldLedger[k] = Absent THEN 0 ELSE OldLedger[k],
                             Key)
ASSUME ValueAssumption == IsFiniteSet(Key) /\ 0..LedgerTotal \subseteq Value
ASSUME LimitsAssumption ==
  /\ {MaxAhead, RelayFee, MinFee, MaxQueue, MaxRevalidate, MaxBlockSize} \subseteq Nat
  /\ {MaxBlockTrx, MaxTime, MaxLen} \subseteq Nat \ {0}

VARIABLES
  chain,      \* the blocks above the starting block
  db,         \* the balances
  undo,       \* the balances before each of the blocks
  unique,     \* _unique_transactions
  pool,       \* _pending_transaction_db
  fees,       \* _pending_fee_index
  pending,    \* _pending_trx_state: the balances it holds
  digests,    \* _pending_trx_state: _transaction_digests
  scheduled,  \* revalidate_pending waits for its turn
  switching,  \* 0, or the length the chain had when the fork switch began
  (* history, no part of the program *)
  highest,    \* the latest time the head ever had
  unproven    \* pool transactions the last open could not evaluate

vars == <<chain, db, undo, unique, pool, fees, pending, digests, scheduled,
          switching, highest, unproven>>

(* ChainDatabase::now, the timestamp of the head *)
now == IF chain = <<>> THEN 0 ELSE Last(chain).time

confirmed == UNION {Range(chain[i].trxs) : i \in DOMAIN chain}

-----------------------------------------------------------------------------
(* Evaluation *)

(* A balance that has no entry is empty. *)
amount(o, k) == LET v == lookup(o, db, k) IN IF v = Absent THEN 0 ELSE v

transfer(o, t) ==
  LET withdrawn == insert(o, From[t], amount(o, From[t]) - 1)
  IN insert(withdrawn, To[t], amount(o, To[t]) + 1)

(***************************************************************************)
(* A state under evaluation: an overlay with the digests in it, the        *)
(* digests the chain knows, and the transactions accepted so far.          *)
(***************************************************************************)
OnChain(known) ==
  [state |-> EmptyOverlay, seen |-> {}, below |-> known, trxs |-> <<>>]

Applied(t, s) == [s EXCEPT !.state = transfer(s.state, t),
                           !.seen = @ \union {t},
                           !.trxs = Append(@, t)]

is_known_transaction(t, s) == t \in s.seen \union s.below

\* mutant: the balance is not looked at
valid_unfunded(t, s) ==
  /\ now < Expiration[t]
  /\ Expiration[t] <= now + MaxAhead
  /\ ~is_known_transaction(t, s)

(* The checks of TransactionEvaluationState::evaluate *)
valid(t, s) ==
  /\ now < Expiration[t]
  /\ Expiration[t] <= now + MaxAhead
  /\ ~is_known_transaction(t, s)
  /\ amount(s.state, From[t]) > 0

(* Evaluate ts one after the other, each on the state the last one left. *)
EvaluateInOrder(ts, known, Accept(_, _)) ==
  FoldLeft(LAMBDA s, t : IF Accept(t, s) THEN Applied(t, s) ELSE s,
           OnChain(known), ts)

-----------------------------------------------------------------------------
(* The pool *)

relay_fee(override_limits) ==
  IF ~override_limits /\ Cardinality(fees) > MaxQueue
  THEN RelayFee * (Cardinality(fees) - MaxQueue) * (Cardinality(fees) - MaxQueue)
  ELSE RelayFee

evaluate_transaction(t, required_fees) ==
  LET s == [OnChain(unique) EXCEPT !.state = pending, !.seen = digests]
  IN /\ valid(t, s)
     /\ Fee[t] >= required_fees
     /\ pending' = Applied(t, s).state
     /\ digests' = Applied(t, s).seen

(* Nothing changes when the transaction is refused. *)
store_pending_transaction(t, override_limits) ==
  /\ switching = 0
  /\ t \notin pool
  /\ evaluate_transaction(t, relay_fee(override_limits))
  /\ fees' = fees \union {t}
  /\ pool' = pool \union {t}
  /\ UNCHANGED <<chain, db, undo, unique, scheduled, switching, highest, unproven>>

(* A set as a sequence: at position i the element with i - 1 before it *)
in_order(S, before(_, _)) ==
  [i \in 1..Cardinality(S) |->
     CHOOSE t \in S : Cardinality({u \in S : before(u, t)}) = i - 1]

in_id_order(S) == in_order(S, <)

(* The loops over the pool of revalidate_pending and of open *)
Reevaluated(known, limit) ==
  EvaluateInOrder(in_id_order(pool), known,
    LAMBDA t, s : Len(s.trxs) <= limit /\ valid(t, s) /\ Fee[t] >= RelayFee)

UsePending(s) == /\ pending' = s.state
                 /\ digests' = s.seen
                 /\ fees' = s.seen

(* Transactions behind the one at which the loop stops are not looked at. *)
visited(s) ==
  IF Len(s.trxs) <= MaxRevalidate THEN pool
  ELSE {t \in pool : t <= Last(s.trxs)}

revalidate_pending ==
  LET s == Reevaluated(unique, MaxRevalidate)
  IN /\ scheduled
     /\ switching = 0
     /\ UsePending(s)
     /\ pool' = pool \ (visited(s) \ s.seen)
     /\ unproven' = {}
     /\ scheduled' = FALSE
     /\ UNCHANGED <<chain, db, undo, unique, switching, highest>>

\* mutant: the state of the pool outlives the block
clear_pending_keeps_state(trxs) ==
  /\ pool' = pool \ Range(trxs)
  /\ fees' = {}
  /\ scheduled' = TRUE
  /\ UNCHANGED <<pending, digests>>

\* mutant: the confirmed transactions stay
clear_pending_keeps_pool(trxs) ==
  /\ fees' = {}
  /\ pending' = EmptyOverlay
  /\ digests' = {}
  /\ scheduled' = TRUE
  /\ UNCHANGED pool

\* mutant: nobody evaluates the pool again
clear_pending_unscheduled(trxs) ==
  /\ pool' = pool \ Range(trxs)
  /\ fees' = {}
  /\ pending' = EmptyOverlay
  /\ digests' = {}
  /\ UNCHANGED scheduled

clear_pending(trxs) ==
  /\ pool' = pool \ Range(trxs)
  /\ fees' = {}
  /\ pending' = EmptyOverlay
  /\ digests' = {}
  /\ scheduled' = TRUE

-----------------------------------------------------------------------------
(* The chain *)

purge(S, time) == {t \in S : Expiration[t] > time}

(* The transactions of one block, of whatever origin *)
BlockTrxs == UNION {[1..n -> Trx] : n \in 0..MaxBlockTrx}

(* Blocks that fail are refused and change nothing here. *)
apply_transactions(trxs) == EvaluateInOrder(trxs, unique, valid)

extend_chain(trxs, time) ==
  LET s == apply_transactions(trxs)
  IN /\ Len(chain) < MaxLen
     /\ now < time
     /\ s.trxs = trxs
     /\ chain' = Append(chain, [time |-> time, trxs |-> trxs])
     /\ undo' = Append(undo, db)
     /\ db' = apply_changes(s.state, db)
     /\ unique' = purge(unique \union Range(trxs), time)
     /\ clear_pending(trxs)
     /\ switching' = IF Len(chain') >= switching THEN 0 ELSE switching
     /\ highest' = IF time > highest THEN time ELSE highest
     /\ unproven' = unproven \ Range(trxs)

\* mutant: the popped transactions are still recognised
undone_never(trxs) == unique

(* The undo state removes the entries of the block, and stores again the   *)
(* ones that were there before it.                                         *)
undone(trxs) ==
  LET kept == UNION {Range(chain[i].trxs) : i \in 1..(Len(chain) - 1)}
  IN (unique \ Range(trxs)) \union (Range(trxs) \intersect kept)

(* One pop_block of switch_to_fork.  No other fiber runs until the chain   *)
(* is as long as it was: that the head never moves to a shorter branch is  *)
(* MainChain, which ChainDatabase implements.                              *)
pop_block ==
  /\ chain # <<>>
  /\ db' = Last(undo)
  /\ undo' = Front(undo)
  /\ unique' = undone(Last(chain).trxs)
  /\ chain' = Front(chain)
  /\ switching' = IF switching = 0 THEN Len(chain) ELSE switching
  /\ UNCHANGED <<pool, fees, pending, digests, scheduled, highest, unproven>>

(* The pending transactions by fee, the highest first *)
get_pending_transactions ==
  in_order(fees, LAMBDA a, b : Fee[a] > Fee[b] \/ (Fee[a] = Fee[b] /\ a > b))

\* mutant: what the pool accepted is not evaluated again
generate_block_unchecked ==
  SelectSeq(get_pending_transactions,
    LAMBDA t : t \notin Excluded /\ Fee[t] >= MinFee)

block_size(trxs) == FoldLeft(LAMBDA n, t : n + BlockSize[t], 0, trxs)

\* mutant: the limit of the block is not looked at
generate_block_any_size ==
  EvaluateInOrder(get_pending_transactions, unique,
    LAMBDA t, s : /\ Len(s.trxs) < MaxBlockTrx
                  /\ t \notin Excluded
                  /\ valid(t, s)
                  /\ Fee[t] >= MinFee).trxs

(* Both checks of the limit add the size in the pool to the block so far. *)
generate_block ==
  EvaluateInOrder(get_pending_transactions, unique,
    LAMBDA t, s : /\ Len(s.trxs) < MaxBlockTrx
                  /\ block_size(s.trxs) + Size[t] <= MaxBlockSize
                  /\ t \notin Excluded
                  /\ valid(t, s)
                  /\ Fee[t] >= MinFee).trxs

(* The delegate's block: the time limit may end the loop at any point. *)
produce_block(time) ==
  /\ switching = 0
  /\ \E trxs \in BlockTrxs : /\ IsPrefix(trxs, generate_block)
                            /\ extend_chain(trxs, time)

(* A stop and a start: open fills the indexes again, and leaves the pool   *)
(* transactions it cannot evaluate where they are.                         *)
open ==
  LET known == purge(confirmed, now)
      s == Reevaluated(known, Cardinality(Trx))
  IN /\ switching = 0
     /\ unique' = known
     /\ UsePending(s)
     /\ unproven' = pool \ s.seen
     /\ scheduled' = FALSE
     /\ UNCHANGED <<chain, db, undo, pool, switching, highest>>

-----------------------------------------------------------------------------
Init ==
  /\ chain = <<>>
  /\ db = OldLedger
  /\ undo = <<>>
  /\ unique = {} /\ pool = {} /\ fees = {} /\ digests = {} /\ unproven = {}
  /\ pending = EmptyOverlay
  /\ scheduled = FALSE
  /\ switching = 0
  /\ highest = 0

Next ==
  \/ \E t \in Trx, override_limits \in BOOLEAN :
       store_pending_transaction(t, override_limits)
  \/ revalidate_pending
  \/ \E trxs \in BlockTrxs, time \in 1..MaxTime : extend_chain(trxs, time)
  \/ \E time \in 1..MaxTime : produce_block(time)
  \/ pop_block
  \/ open

Spec == Init /\ [][Next]_vars

-----------------------------------------------------------------------------
(* Properties *)

(* Every table and index holds values of its type. *)
TypeOK ==
  /\ chain \in Seq([time : 1..MaxTime, trxs : Seq(Trx)])
  /\ undo \in Seq(Table) /\ Len(undo) = Len(chain)
  /\ db \in Table
  /\ unique \subseteq Trx /\ pool \subseteq Trx /\ fees \subseteq Trx
  /\ digests \subseteq Trx /\ unproven \subseteq Trx
  /\ pending \in Overlay
  /\ scheduled \in BOOLEAN
  /\ switching \in 0..MaxLen
  /\ highest \in 0..MaxTime

(***************************************************************************)
(* _unique_transactions follows the chain through fork switches: it knows  *)
(* nothing that was popped, so that such a transaction can be confirmed    *)
(* again, and everything confirmed that no head has yet outlived.          *)
(***************************************************************************)
UniqueFollowsChain ==
  /\ unique \subseteq confirmed
  /\ {t \in confirmed : Expiration[t] > highest} \subseteq unique

(***************************************************************************)
(* A transaction waits in the pool or is confirmed, not both, whichever    *)
(* way it reached the chain and however often its block was popped, until  *)
(* some head outlived it.                                                  *)
(***************************************************************************)
PoolUnconfirmed ==
  \A t \in pool \intersect confirmed : Expiration[t] <= highest

(***************************************************************************)
(* Whenever another fiber can see it, _pending_trx_state is the head's     *)
(* state with the transactions of the fee index applied to it, each once:  *)
(* no block, fork switch, revalidation or restart leaves a stale balance.  *)
(***************************************************************************)
PendingIsHeadPlusFees ==
  switching = 0 =>
    /\ digests = fees
    /\ \A k \in Key :
         amount(pending, k) = amount(EmptyOverlay, k)
                              + Cardinality({t \in fees : To[t] = k})
                              - Cardinality({t \in fees : From[t] = k})

(***************************************************************************)
(* With no revalidation waiting and the limit not reached, every           *)
(* transaction of the pool is in the fee index, so that a delegate would   *)
(* include it, but for those that open could not evaluate.                 *)
(***************************************************************************)
NothingForgotten ==
  switching = 0 /\ ~scheduled /\ Cardinality(fees) <= MaxRevalidate
    => pool \ fees \subseteq unproven

(***************************************************************************)
(* The block a delegate generates from its pool passes the evaluation of   *)
(* extend_chain, although the index orders by fee what was accepted in     *)
(* another order.                                                          *)
(***************************************************************************)
GeneratedAccepted ==
  switching = 0 => apply_transactions(generate_block).trxs = generate_block

(***************************************************************************)
(* No transaction is in the chain twice: the evaluation of a transaction   *)
(* that is_known_transaction recognises ends in duplicate_transaction.     *)
(***************************************************************************)
NoDuplicate ==
  \A i, j \in DOMAIN chain :
    i # j => Range(chain[i].trxs) \intersect Range(chain[j].trxs) = {}

(***************************************************************************)
(* A generated block exceeds the delegate's limit by no more than what     *)
(* execution added to its last transaction: a delegate that leaves that    *)
(* much room produces no block that peers refuse for its size              *)
(* (net/Node.cpp, process_block_message).                                  *)
(***************************************************************************)
BlockSizeBounded ==
  LET trxs == generate_block IN
  trxs # <<>> =>
    block_size(trxs) <= MaxBlockSize + BlockSize[Last(trxs)] - Size[Last(trxs)]

=============================================================================
