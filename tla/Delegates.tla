------------------------------ MODULE Delegates ------------------------------
(***************************************************************************)
(* Delegates: who signs a block, what the signer is paid, and whose money  *)
(* votes for whom.  ChainDatabase.cpp (extend_chain with                   *)
(* update_delegate_production_info, pay_delegate and                       *)
(* update_active_delegate_list, and pop_block), AccountEntry.cpp,          *)
(* AccountOperations.cpp, BalanceOperations.cpp and the fees and votes of  *)
(* TransactionEvaluationState.cpp.                                         *)
(*                                                                         *)
(* A block is evaluated on a copy of the tables, pending: production       *)
(* statistics first, then its transactions, then the pay and, at the end   *)
(* of a round, the next list of active delegates.  The set of votes        *)
(* _delegate_votes exists in the database only; storing or removing an     *)
(* account maintains it, when a block is applied and when it is popped.    *)
(*                                                                         *)
(* Time is counted in slots.  One owner holds a balance for each slate.    *)
(***************************************************************************)
EXTENDS Integers, Sequences, FiniteSets, FiniteSetsExt, SequencesExt

CONSTANTS
  Account,            \* identifiers, numbered in the order of registration
  GenesisDelegates,   \* the delegates of the genesis state
  Slates,             \* sets of accounts; {} is a balance without a slate
  NumDelegates,       \* ALP_BLOCKCHAIN_NUM_DELEGATES
  BlocksPerTwoWeeks,  \* 14 * ALP_BLOCKCHAIN_BLOCKS_PER_DAY
  PayStart, PayPeriod, FirstPay, PayTable,  \* the steps of the pay for a block
  Rates,              \* pay rates in percent
  Genesis,            \* units in the genesis balance
  Absent,             \* no account
  MaxAmount,          \* bound: units moved by a transaction
  MaxOps,             \* bound: transactions in a block
  MaxTime,            \* bound: the last slot
  MaxBlocks           \* bound: blocks on the chain

ASSUME DelegatesAssumption ==
  /\ NumDelegates \in Nat \ {0} /\ BlocksPerTwoWeeks \in Nat \ {0}
  /\ GenesisDelegates \subseteq Account
  /\ Cardinality(GenesisDelegates) >= NumDelegates
  /\ {} \in Slates /\ Rates \subseteq 0..100 /\ 100 \in Rates /\ PayPeriod \in Nat \ {0}

ASSUME FiniteAssumption == IsFiniteSet(Account) /\ IsFiniteSet(Slates)
ASSUME AccountAssumption == Account \subseteq Nat
ASSUME PayAssumption ==
  /\ Genesis \in Nat /\ PayStart \in Nat /\ FirstPay \in Nat
  /\ PayTable \in Seq(Nat) /\ PayTable # <<>>
ASSUME BoundsAssumption == {MaxAmount, MaxOps, MaxTime, MaxBlocks} \subseteq Nat

VARIABLES
  db,        \* the tables at the head of the chain
  votes,     \* _delegate_votes: pairs of votes and delegate
  num, time, \* number and slot of the head block
  undo,      \* for each block on the chain, what was below it
  slot,      \* the slot of the block being evaluated, 0 when there is none
  ops,       \* transactions evaluated in it
  pending    \* the tables as that block leaves them so far
vars == <<db, votes, num, time, undo, slot, ops, pending>>

AccountEntry == [is_delegate : BOOLEAN, is_retracted : BOOLEAN, pay_rate : Rates,
                 votes_for : Nat, pay_balance : Nat,
                 blocks_produced : Nat, blocks_missed : Nat]

ASSUME AbsentAssumption == Absent \notin AccountEntry

Registered(account) == {a \in Account : account[a] # Absent}
DelegatesOf(account) == {a \in Registered(account) : account[a].is_delegate}

(* Delegates that take part in the vote *)
Unretracted(account) == {a \in DelegatesOf(account) : ~account[a].is_retracted}

-----------------------------------------------------------------------------
(* AccountEntry::store and ::remove on the database: the votes *)

\* mutant: a change of the votes alone is seen, a retraction is not
erased_votes_unretracted(old, new) ==
  {<<old[a].votes_for, a>> : a \in {b \in Unretracted(old) :
     \/ b \notin DelegatesOf(new)
     \/ old[b].votes_for # new[b].votes_for}}

erased_votes(old, new) ==
  {<<old[a].votes_for, a>> : a \in {b \in Unretracted(old) :
     \/ b \notin Unretracted(new)
     \/ old[b].votes_for # new[b].votes_for}}

inserted_votes(new) == {<<new[a].votes_for, a>> : a \in Unretracted(new)}

apply_votes(old, new) == (votes \ erased_votes(old, new)) \union inserted_votes(new)

(* operator< of VoteDel: more votes first, then the lower identifier *)
before(v, w) == IF v[1] # w[1] THEN v[1] > w[1] ELSE v[2] < w[2]

\* mutant: the delegates with the fewest votes
next_round_active_delegates_last(set) ==
  {v[2] : v \in {w \in set : Cardinality({u \in set : before(w, u)}) < NumDelegates}}

(* get_delegates_by_vote(0, ALP_BLOCKCHAIN_NUM_DELEGATES) *)
next_round_active_delegates(set) ==
  {v[2] : v \in {w \in set : Cardinality({u \in set : before(u, w)}) < NumDelegates}}

(* get_slot_signee, where the list has an entry for the position of the slot *)
delegate_pos(s) == s % NumDelegates
HasSignee(s) == delegate_pos(s) < Len(db.active)
get_slot_signee(s) == db.active[delegate_pos(s) + 1]

(* get_max_delegate_pay_issued_per_block *)
max_delegate_pay ==
  IF num < PayStart THEN FirstPay
  ELSE LET step == (num - PayStart) \div PayPeriod
       IN PayTable[IF step >= Len(PayTable) THEN Len(PayTable) ELSE step + 1]

(* get_delegate_registration_fee *)
registration_fee(rate) ==
  (((BlocksPerTwoWeeks * max_delegate_pay) \div NumDelegates) * rate) \div 100

-----------------------------------------------------------------------------
NewAccount(delegate, rate) ==
  [is_delegate |-> delegate, is_retracted |-> FALSE, pay_rate |-> rate,
   votes_for |-> 0, pay_balance |-> 0, blocks_produced |-> 0, blocks_missed |-> 0]

Init ==
  /\ \E list \in SetToSeqs(next_round_active_delegates(
                    {<<0, a>> : a \in GenesisDelegates})) :
       /\ \A i, j \in DOMAIN list : i < j => list[i] < list[j]
       /\ db = [account |-> [a \in Account |-> IF a \in GenesisDelegates
                                               THEN NewAccount(TRUE, 100) ELSE Absent],
                balance |-> [s \in Slates |-> IF s = {} THEN Genesis ELSE 0],
                fees |-> 0, supply |-> Genesis,
                confirmations |-> 3 * NumDelegates,
                active |-> list]
  /\ votes = {<<0, a>> : a \in GenesisDelegates}
  /\ num = 0 /\ time = 0 /\ undo = <<>>
  /\ slot = 0 /\ ops = 0 /\ pending = db

(* The slots between the head block and slot s; none before the first block *)
MissedSlots(s) == IF num = 0 THEN {} ELSE (time + 1)..(s - 1)

\* mutant: the slot of the head block is counted again
blocks_missed_twice(a, s) ==
  Cardinality({m \in IF num = 0 THEN {} ELSE time..(s - 1) : get_slot_signee(m) = a})

blocks_missed(a, s) == Cardinality({m \in MissedSlots(s) : get_slot_signee(m) = a})

(* Two more for every missed slot, one less for the block, within its range *)
next_confirmations(s) ==
  LET c == db.confirmations + 2 * Cardinality(MissedSlots(s)) - 1
  IN Max({1, Min({c, 3 * NumDelegates})})

(* verify_header and update_delegate_production_info; the list is the one at the *)
(* head.  A slot without a signee, the block's own or a missed one, is refused. *)
BeginBlock(s) ==
  /\ slot = 0 /\ num < MaxBlocks
  /\ s > time
  /\ HasSignee(s) /\ \A m \in MissedSlots(s) : HasSignee(m)
  /\ slot' = s /\ ops' = 0
  /\ pending' =
       [db EXCEPT
          !.account = [a \in Account |-> IF db.account[a] = Absent THEN Absent ELSE
             [db.account[a] EXCEPT
                !.blocks_produced = @ + (IF a = get_slot_signee(s) THEN 1 ELSE 0),
                !.blocks_missed = @ + blocks_missed(a, s)]],
          !.confirmations = next_confirmations(s)]
  /\ UNCHANGED <<db, votes, num, time, undo>>

-----------------------------------------------------------------------------
(* Transactions of the block *)

Evaluate(tables) ==
  /\ slot # 0 /\ ops < MaxOps
  /\ pending' = tables /\ ops' = ops + 1
  /\ UNCHANGED <<db, votes, num, time, undo, slot>>

\* mutant: money that leaves a slate goes on voting
adjust_vote_only_up(account, slate, delta) ==
  [a \in Account |-> IF a \in slate /\ delta > 0
                     THEN [account[a] EXCEPT !.votes_for = @ + delta] ELSE account[a]]

(* adjust_vote and update_delegate_votes *)
adjust_vote(account, slate, delta) ==
  [a \in Account |-> IF a \in slate THEN [account[a] EXCEPT !.votes_for = @ + delta]
                     ELSE account[a]]

(* WithdrawOperation; what is not deposited again is the fee (post_evaluate) *)
withdraw(tables, slate, amount) ==
  IF amount = 0 THEN tables ELSE
  [tables EXCEPT !.balance[slate] = @ - amount, !.fees = @ + amount,
                 !.account = adjust_vote(@, slate, -amount)]

(* DepositOperation *)
deposit(tables, slate, amount) ==
  [tables EXCEPT !.balance[slate] = @ + amount, !.fees = @ - amount,
                 !.account = adjust_vote(@, slate, amount)]

(* Money moves from one slate to another.  DefineSlateOperation refuses a slate *)
(* with an account that is no delegate. *)
Transfer(from, to, amount, fee) ==
  /\ pending.balance[from] >= amount
  /\ to \subseteq DelegatesOf(pending.account)
  /\ fee < amount
  /\ Evaluate(deposit(withdraw(pending, from, amount), to, amount - fee))

(* RegisterAccountOperation, with a withdrawal for the fee of a delegate *)
RegisterAccount(a, delegate, rate, from) ==
  LET fee == IF delegate THEN registration_fee(rate) ELSE 0 IN
  /\ pending.account[a] = Absent
  /\ \A b \in Account : b < a => pending.account[b] # Absent
  /\ delegate /\ rate # 0 => fee > 0
  /\ pending.balance[from] >= fee
  /\ Evaluate(withdraw([pending EXCEPT !.account[a] = NewAccount(delegate, rate)],
                       from, fee))

(* UpdateAccountOperation: a new pay rate, a new delegate, or the end of it *)
UpdateAccount(a, retract, delegate, rate, from) ==
  LET entry == pending.account[a]
      fee == IF delegate /\ ~entry.is_delegate THEN registration_fee(rate) ELSE 0 IN
  /\ entry # Absent
  /\ ~entry.is_retracted
  /\ retract /\ entry.is_delegate => entry.pay_balance = 0
  /\ entry.is_delegate => delegate /\ rate <= entry.pay_rate
  /\ delegate /\ ~entry.is_delegate /\ rate # 0 => fee > 0
  /\ pending.balance[from] >= fee
  /\ Evaluate(withdraw([pending EXCEPT !.account[a] =
       [entry EXCEPT !.is_retracted = retract, !.is_delegate = delegate,
                     !.pay_rate = IF delegate THEN rate ELSE @]], from, fee))

\* mutant: the pay there is is not compared with what is asked for
WithdrawPay_unearned(a, amount, to) ==
  LET entry == pending.account[a] IN
  /\ entry # Absent
  /\ entry.is_delegate
  /\ ~entry.is_retracted
  /\ to \subseteq DelegatesOf(pending.account)
  /\ Evaluate(deposit(
       [pending EXCEPT !.account[a] = [entry EXCEPT !.pay_balance = @ - amount,
                                                    !.votes_for = @ - amount],
                       !.fees = @ + amount], to, amount))

(* WithdrawPayOperation into a balance: a retracted account cannot have signed *)
WithdrawPay(a, amount, to) ==
  LET entry == pending.account[a] IN
  /\ entry # Absent
  /\ entry.is_delegate
  /\ entry.pay_balance >= amount
  /\ ~entry.is_retracted
  /\ to \subseteq DelegatesOf(pending.account)
  /\ Evaluate(deposit(
       [pending EXCEPT !.account[a] = [entry EXCEPT !.pay_balance = @ - amount,
                                                    !.votes_for = @ - amount],
                       !.fees = @ + amount], to, amount))

-----------------------------------------------------------------------------
\* mutant: the fees a delegate does not accept stay in the supply
pay_delegate_not_destroyed(tables, a) ==
  LET entry == tables.account[a]
      rate == entry.pay_rate
      new_shares == (max_delegate_pay * rate) \div 100
      max_fees == tables.fees \div BlocksPerTwoWeeks
      fees == (max_fees * rate) \div 100
      paycheck == new_shares + fees
  IN [tables EXCEPT !.supply = @ + new_shares,
                    !.fees = @ - max_fees,
                    !.account[a] = [entry EXCEPT !.votes_for = @ + paycheck,
                                                 !.pay_balance = @ + paycheck]]

(* pay_delegate: new units and a share of the fees; what the delegate does not *)
(* accept of the fees is destroyed *)
pay_delegate(tables, a) ==
  LET entry == tables.account[a]
      rate == entry.pay_rate
      new_shares == (max_delegate_pay * rate) \div 100
      max_fees == tables.fees \div BlocksPerTwoWeeks
      fees == (max_fees * rate) \div 100
      paycheck == new_shares + fees
  IN [tables EXCEPT !.supply = @ + new_shares - (max_fees - fees),
                    !.fees = @ - max_fees,
                    !.account[a] = [entry EXCEPT !.votes_for = @ + paycheck,
                                                 !.pay_balance = @ + paycheck]]

(* update_active_delegate_list: the votes are those below the block; the shuffle *)
(* by the random seed may give any order *)
next_active ==
  IF (num + 1) % NumDelegates # 0 THEN {db.active}
  ELSE SetToSeqs(next_round_active_delegates(votes))

(* The end of extend_chain: pay, next list, undo state, apply_changes *)
EndBlock ==
  /\ slot # 0
  /\ get_slot_signee(slot) \in DelegatesOf(pending.account)
  /\ \E list \in next_active :
       db' = [pay_delegate(pending, get_slot_signee(slot)) EXCEPT !.active = list]
  /\ undo' = Append(undo, [tables |-> db, num |-> num, time |-> time])
  /\ votes' = apply_votes(db.account, db'.account)
  /\ num' = num + 1 /\ time' = slot
  /\ slot' = 0 /\ ops' = 0 /\ pending' = db'

(* extend_chain throws *)
DropBlock ==
  /\ slot # 0
  /\ slot' = 0 /\ ops' = 0 /\ pending' = db
  /\ UNCHANGED <<db, votes, num, time, undo>>

(* pop_block: the undo state stores and removes accounts as a block does *)
PopBlock ==
  /\ slot = 0 /\ undo # <<>>
  /\ LET top == undo[Len(undo)] IN
       /\ db' = top.tables /\ num' = top.num /\ time' = top.time
       /\ votes' = apply_votes(db.account, top.tables.account)
  /\ undo' = SubSeq(undo, 1, Len(undo) - 1)
  /\ pending' = db'
  /\ UNCHANGED <<slot, ops>>

Next ==
  \/ \E s \in (time + 1)..MaxTime : BeginBlock(s)
  \/ \E from, to \in Slates, amount \in 1..MaxAmount :
       \E fee \in 0..(amount - 1) : Transfer(from, to, amount, fee)
  \/ \E a \in Account, rate \in Rates, delegate \in BOOLEAN, from \in Slates :
       \/ RegisterAccount(a, delegate, rate, from)
       \/ \E retract \in BOOLEAN : UpdateAccount(a, retract, delegate, rate, from)
  \/ \E a \in Account, amount \in 1..MaxAmount, to \in Slates : WithdrawPay(a, amount, to)
  \/ EndBlock \/ DropBlock \/ PopBlock

Spec == Init /\ [][Next]_vars

-----------------------------------------------------------------------------
Tables == [account : [Account -> AccountEntry \union {Absent}],
           balance : [Slates -> Nat], fees : Nat, supply : Nat,
           confirmations : 1..(3 * NumDelegates), active : Seq(Account)]

(* The variables have their types: no balance, vote or fee turns negative, and *)
(* the required confirmations stay in their range. *)
TypeOK ==
  /\ db \in Tables /\ pending \in Tables
  /\ votes \in SUBSET (Nat \X Account)
  /\ num \in 0..MaxBlocks /\ time \in Nat /\ slot \in Nat /\ ops \in 0..MaxOps
  /\ Len(undo) = num

(* The supply on record is what balances, unpaid pay and collected fees add up *)
(* to, whatever a delegate is issued, accepts or refuses (pay_delegate). *)
SupplyConserved ==
  pending.supply =
    MapThenSumSet(LAMBDA s : pending.balance[s], Slates) + pending.fees
    + MapThenSumSet(LAMBDA a : pending.account[a].pay_balance, Registered(pending.account))

(* The votes for a delegate are the money on the slates that name it and the pay *)
(* it has not withdrawn: no unit votes twice, none goes on voting after it moved *)
(* (delegate_vote_deltas, pay_delegate, WithdrawPayOperation). *)
VotesFollowStake ==
  \A a \in DelegatesOf(pending.account) :
    pending.account[a].votes_for =
      MapThenSumSet(LAMBDA s : pending.balance[s], {s \in Slates : a \in s})
      + pending.account[a].pay_balance

(* The sorted set of votes holds each delegate that is not retracted once, with *)
(* its votes at the head, after blocks and after pops (AccountEntry::store finds *)
(* the old pair by the old votes). *)
VoteSetMatches == votes = inserted_votes(db.account)

(* Every slot since the first block is counted once, as produced or as missed *)
(* (update_delegate_production_info), and a pop takes the counts back. *)
SlotsCounted ==
  LET first == IF num < 2 THEN time ELSE undo[2].time IN
  MapThenSumSet(LAMBDA a : db.account[a].blocks_produced + db.account[a].blocks_missed,
                Registered(db.account))
    = IF num = 0 THEN 0 ELSE time - first + 1

(* A new list of active delegates has each of its delegates once, as many as the *)
(* vote has up to the full number, and nobody with more votes is left out. *)
BestVotedSign ==
  [][num' > num /\ num' % NumDelegates = 0 =>
       LET list == db'.active
           chosen == Range(list) IN
       /\ Len(list) = Cardinality(chosen)
       /\ Len(list) = Min({NumDelegates, Cardinality(Unretracted(db.account))})
       /\ chosen \subseteq Unretracted(db.account)
       /\ \A a \in chosen, b \in Unretracted(db.account) \ chosen :
            db.account[a].votes_for >= db.account[b].votes_for]_vars

=============================================================================
