--------------------------- MODULE DelegatesProofs ---------------------------
(***************************************************************************)
(* Proofs about Delegates, for any accounts, slates and amounts: the set   *)
(* of votes agrees with the account entries, the votes of a delegate are   *)
(* the balances that vote for it, the supply is what balances and pay add  *)
(* up to, every slot is counted once as produced or missed, and blocks are *)
(* signed by delegates with the most votes.                                *)
(*                                                                         *)
(* Each is inductive together with the same of every state a pop of blocks *)
(* can lead back to; the sums are those of SumTheorems.                    *)
(***************************************************************************)
EXTENDS Delegates, SumTheorems, TLAPS

(***************************************************************************)
(* What AccountEntry::store and ::remove leave of a set that agreed with   *)
(* the entries before agrees with the entries after: a pair that is no     *)
(* longer right is found by its old votes and erased.                      *)
(***************************************************************************)
LEMMA StoreKeepsVoteSet ==
  ASSUME NEW old, NEW new, votes = inserted_votes(old)
  PROVE  apply_votes(old, new) = inserted_votes(new)
<1>1. inserted_votes(old) \ erased_votes(old, new) \subseteq inserted_votes(new)
  <2>1. SUFFICES ASSUME NEW a \in Unretracted(old),
                        <<old[a].votes_for, a>> \notin erased_votes(old, new)
                 PROVE  <<old[a].votes_for, a>> \in inserted_votes(new)
    BY DEF inserted_votes
  <2>2. a \in Unretracted(new) /\ old[a].votes_for = new[a].votes_for
    BY <2>1 DEF erased_votes
  <2>3. QED BY <2>2 DEF inserted_votes
<1>2. QED BY <1>1 DEF apply_votes

(* The genesis state agrees: its delegates have no votes yet. *)
LEMMA InitVoteSet == Init => VoteSetMatches
<1>1. SUFFICES ASSUME Init PROVE VoteSetMatches
  OBVIOUS
<1>2. db.account = [a \in Account |-> IF a \in GenesisDelegates
                                      THEN NewAccount(TRUE, 100) ELSE Absent]
  BY <1>1 DEF Init
<1>3. NewAccount(TRUE, 100) # Absent
  <2>1. NewAccount(TRUE, 100) \in AccountEntry
    BY DelegatesAssumption DEF NewAccount, AccountEntry
  <2>2. QED BY <2>1, AbsentAssumption
<1>4. /\ NewAccount(TRUE, 100).is_delegate
      /\ ~NewAccount(TRUE, 100).is_retracted
      /\ NewAccount(TRUE, 100).votes_for = 0
  BY DEF NewAccount
<1>5. Unretracted(db.account) = GenesisDelegates
  BY <1>2, <1>3, <1>4, DelegatesAssumption
     DEF Unretracted, DelegatesOf, Registered
<1>6. \A a \in GenesisDelegates : db.account[a].votes_for = 0
  BY <1>2, <1>4, DelegatesAssumption
<1>7. QED BY <1>1, <1>5, <1>6 DEF Init, VoteSetMatches, inserted_votes

(* Every step keeps the agreement; only EndBlock and PopBlock touch either. *)
LEMMA NextVoteSet == VoteSetMatches /\ [Next]_vars => VoteSetMatches'
<1>1. SUFFICES ASSUME VoteSetMatches, [Next]_vars PROVE VoteSetMatches'
  OBVIOUS
<1> USE <1>1
<1>2. ASSUME votes' = apply_votes(db.account, db'.account) PROVE VoteSetMatches'
  BY <1>2, StoreKeepsVoteSet DEF VoteSetMatches, inserted_votes, Unretracted, DelegatesOf, Registered
<1>3. ASSUME UNCHANGED <<db, votes>> PROVE VoteSetMatches'
  BY <1>3 DEF VoteSetMatches, inserted_votes, Unretracted, DelegatesOf, Registered
<1>4. CASE EndBlock
  BY <1>2, <1>4 DEF EndBlock
<1>5. CASE PopBlock
  BY <1>2, <1>5 DEF PopBlock
<1>6. ASSUME NEW s \in (time + 1)..MaxTime, BeginBlock(s) PROVE VoteSetMatches'
  BY <1>3, <1>6 DEF BeginBlock
<1>7. CASE DropBlock
  BY <1>3, <1>7 DEF DropBlock
<1>8. ASSUME NEW tables, Evaluate(tables) PROVE VoteSetMatches'
  BY <1>3, <1>8 DEF Evaluate
<1>9. ASSUME NEW from \in Slates, NEW to \in Slates, NEW amount \in 1..MaxAmount,
             NEW fee \in 0..(amount - 1), Transfer(from, to, amount, fee)
      PROVE  VoteSetMatches'
  BY <1>8, <1>9 DEF Transfer
<1>10. ASSUME NEW a \in Account, NEW rate \in Rates, NEW delegate \in BOOLEAN,
              NEW from \in Slates, RegisterAccount(a, delegate, rate, from)
       PROVE  VoteSetMatches'
  BY <1>8, <1>10 DEF RegisterAccount
<1>11. ASSUME NEW a \in Account, NEW rate \in Rates, NEW delegate \in BOOLEAN,
              NEW from \in Slates, NEW retract \in BOOLEAN,
              UpdateAccount(a, retract, delegate, rate, from)
       PROVE  VoteSetMatches'
  BY <1>8, <1>11 DEF UpdateAccount
<1>12. ASSUME NEW a \in Account, NEW amount \in 1..MaxAmount, NEW to \in Slates,
              WithdrawPay(a, amount, to)
       PROVE  VoteSetMatches'
  BY <1>8, <1>12 DEF WithdrawPay
<1>13. CASE UNCHANGED vars
  BY <1>3, <1>13 DEF vars
<1>14. QED
  BY <1>4, <1>5, <1>6, <1>7, <1>9, <1>10, <1>11, <1>12, <1>13 DEF Next

(***************************************************************************)
(* The sorted set from which the delegates of the next round are taken     *)
(* holds each delegate that is not retracted once, with its votes at the   *)
(* head, after any blocks and pops (AccountEntry::store and ::remove, and  *)
(* the undo state that calls them).                                        *)
(***************************************************************************)
THEOREM VoteSetCorrect == Spec => []VoteSetMatches
<1>1. QED BY InitVoteSet, NextVoteSet, PTL DEF Spec

-----------------------------------------------------------------------------
(* Money, votes and slots.  What the tables hold together, of the head, of *)
(* the block being evaluated and of every block a pop can lead back to.    *)

Pay(account) == [a \in Account |-> IF account[a] = Absent THEN 0 ELSE account[a].pay_balance]
Slots(account) ==
  [a \in Account |-> IF account[a] = Absent THEN 0
                     ELSE account[a].blocks_produced + account[a].blocks_missed]
Naming(a) == {s \in Slates : a \in s}
Stake(tables, a) == SumOf(tables.balance, Naming(a))

Backed(t) == t.supply = SumOf(t.balance, Slates) + t.fees + SumOf(Pay(t.account), Account)

(* A delegate has the votes of its stake and its pay, *)
StakeVotes(t) ==
  \A a \in DelegatesOf(t.account) :
    t.account[a].votes_for = Stake(t, a) + t.account[a].pay_balance

(* who is no delegate has neither votes nor pay, *)
NoVotes(t) ==
  \A a \in Registered(t.account) \ DelegatesOf(t.account) :
    t.account[a].votes_for = 0 /\ t.account[a].pay_balance = 0

(* and money lies only on slates of delegates: nobody ceases to be one. *)
SlatesNameDelegates(t) ==
  \A s \in Slates : t.balance[s] > 0 => s \subseteq DelegatesOf(t.account)

Good(t) == /\ t \in Tables /\ Backed(t) /\ StakeVotes(t) /\ NoVotes(t)
           /\ SlatesNameDelegates(t)

(* What no transaction changes *)
Keeps(t, u) == /\ Registered(t.account) \subseteq Registered(u.account)
               /\ Slots(u.account) = Slots(t.account)
               /\ u.active = t.active

LEMMA NamingFinite == \A a : IsFiniteSet(Naming(a)) /\ Naming(a) \subseteq Slates
<1>1. ASSUME NEW a PROVE IsFiniteSet(Naming(a)) /\ Naming(a) \subseteq Slates
  <2>1. Naming(a) \in SUBSET Slates
    BY DEF Naming
  <2>2. QED BY <2>1, FiniteAssumption, FS_Subset
<1>2. QED BY <1>1

LEMMA StakeNat ==
  ASSUME NEW t \in Tables, NEW a
  PROVE  Stake(t, a) \in Nat
<1>1. \A s \in Naming(a) : t.balance[s] \in Nat
  BY NamingFinite DEF Tables
<1>2. QED BY <1>1, NamingFinite, SumNat DEF Stake

(* An entry is registered. *)
LEMMA EntryIn ==
  ASSUME NEW t \in Tables, NEW a \in Account
  PROVE  /\ a \in Registered(t.account) <=> t.account[a] # Absent
         /\ a \in Registered(t.account) => t.account[a] \in AccountEntry
         /\ a \in DelegatesOf(t.account) <=> t.account[a] # Absent /\ t.account[a].is_delegate
         /\ DelegatesOf(t.account) \subseteq Registered(t.account)
         /\ Registered(t.account) \subseteq Account
  BY DEF Registered, DelegatesOf, Tables

(* The money on one slate changes by d, *)
Moved(t, u, slate, d) == /\ t \in Tables /\ u \in Tables /\ slate \in Slates /\ d \in Int
                         /\ u.balance = [t.balance EXCEPT ![slate] = t.balance[slate] + d]

(* the money on all slates too, *)
LEMMA BalanceMoves ==
  ASSUME NEW t, NEW u, NEW slate, NEW d, Moved(t, u, slate, d)
  PROVE  SumOf(u.balance, Slates) = SumOf(t.balance, Slates) + d
<1> DEFINE f == t.balance
           h == u.balance
<1>1. f \in [Slates -> Nat] /\ h \in [Slates -> Nat] /\ slate \in Slates
  BY DEF Moved, Tables
<1>2. h = [f EXCEPT ![slate] = f[slate] + d] /\ d \in Int
  BY DEF Moved
<1> HIDE DEF f, h
<1>3. \A s \in Slates : f[s] \in Int /\ h[s] \in Int
  BY <1>1
<1>4. \A s \in Slates \ {slate} : h[s] = f[s]
  BY <1>1, <1>2
<1>5. SumOf(h, Slates) = SumOf(f, Slates) + (h[slate] - f[slate])
  BY <1>1, <1>3, <1>4, FiniteAssumption, SumUpdate
<1>6. SumOf(f, Slates) \in Int
  BY <1>3, FiniteAssumption, SumInt
<1>7. h[slate] = f[slate] + d /\ f[slate] \in Int
  BY <1>1, <1>2
<1>8. SumOf(h, Slates) = SumOf(f, Slates) + d
  BY <1>2, <1>5, <1>6, <1>7
<1>9. QED BY <1>8 DEF f, h

(* and the stake of the accounts its slate names. *)
LEMMA StakeMoves ==
  ASSUME NEW t, NEW u, NEW slate, NEW d, Moved(t, u, slate, d), NEW a
  PROVE  Stake(u, a) = IF a \in slate THEN Stake(t, a) + d ELSE Stake(t, a)
<1> DEFINE S == Naming(a)
<1> USE DEF Moved
<1>1. IsFiniteSet(S) /\ S \subseteq Slates
  BY NamingFinite
<1>2. t.balance \in [Slates -> Nat] /\ u.balance \in [Slates -> Nat]
  BY DEF Tables
<1>3. /\ u.balance[slate] = t.balance[slate] + d
      /\ \A s \in Slates \ {slate} : u.balance[s] = t.balance[s]
  BY <1>2
<1>4. \A s \in S : t.balance[s] \in Int /\ u.balance[s] \in Int
  BY <1>1, <1>2
<1>5. CASE a \in slate
  <2>1. slate \in S
    BY <1>5 DEF Naming
  <2> DEFINE f == t.balance
             h == u.balance
  <2>a. \A s \in S : f[s] \in Int /\ h[s] \in Int
    BY <1>4
  <2>b. \A s \in S \ {slate} : h[s] = f[s]
    BY <1>1, <1>3
  <2> HIDE DEF S
  <2>c. SumOf(h, S) = SumOf(f, S) + (h[slate] - f[slate])
    <3> HIDE DEF f, h
    <3>1. QED BY <1>1, <2>1, <2>a, <2>b, SumUpdate
  <2>2. SumOf(u.balance, S) = SumOf(t.balance, S) + (u.balance[slate] - t.balance[slate])
    BY <2>c
  <2>3. SumOf(t.balance, S) \in Int /\ t.balance[slate] \in Int
    BY <1>1, <1>2, <1>4, SumInt
  <2>4. SumOf(u.balance, S) = SumOf(t.balance, S) + d
    BY <1>3, <2>2, <2>3
  <2>5. QED BY <1>5, <2>4 DEF Stake, S
<1>6. CASE a \notin slate
  <2>1. \A s \in S : u.balance[s] = t.balance[s]
    BY <1>1, <1>3, <1>6 DEF Naming
  <2> HIDE DEF S
  <2>2. SumOf(u.balance, S) = SumOf(t.balance, S)
    BY <1>1, <2>1, SumSame
  <2>3. QED BY <1>6, <2>2 DEF Stake, S
<1>7. QED BY <1>5, <1>6

(***************************************************************************)
(* Money that moves between a slate of delegates and the fees, with the    *)
(* votes it carries (adjust_vote).                                         *)
(***************************************************************************)
Move(t, slate, d) == [t EXCEPT !.balance = [t.balance EXCEPT ![slate] = t.balance[slate] + d],
                               !.fees = t.fees - d,
                               !.account = adjust_vote(t.account, slate, d)]

LEMMA MoveGood ==
  ASSUME NEW t, Good(t), NEW slate \in Slates, slate \subseteq DelegatesOf(t.account),
         NEW d \in Int, t.balance[slate] + d >= 0, t.fees - d >= 0,
         NEW u, u = Move(t, slate, d)
  PROVE  Good(u) /\ Keeps(t, u) /\ DelegatesOf(u.account) = DelegatesOf(t.account)
<1> DEFINE balance == [t.balance EXCEPT ![slate] = t.balance[slate] + d]
           account == adjust_vote(t.account, slate, d)
<1>1. t \in Tables
  BY DEF Good
<1>2. /\ u.balance = balance /\ u.fees = t.fees - d /\ u.account = account
      /\ u.supply = t.supply /\ u.confirmations = t.confirmations /\ u.active = t.active
  BY <1>1 DEF Tables, Move
<1>3. t.balance \in [Slates -> Nat] /\ balance \in [Slates -> Nat]
  BY <1>1 DEF Tables
<1>4. \A a \in Account :
        account[a] = IF a \in slate THEN [t.account[a] EXCEPT !.votes_for = @ + d]
                     ELSE t.account[a]
  BY DEF adjust_vote
<1>5. DelegatesOf(t.account) \subseteq Account
  BY DEF DelegatesOf, Registered
<1>6. \A a \in Account : a \in slate => t.account[a] \in AccountEntry /\ t.account[a].is_delegate
  BY <1>1, EntryIn
<1>7. ASSUME NEW a \in Account, a \in slate
      PROVE  /\ t.account[a].votes_for = Stake(t, a) + t.account[a].pay_balance
             /\ Stake(t, a) >= 0 /\ Stake(t, a) + d >= 0
             /\ Stake(t, a) \in Nat /\ t.account[a].pay_balance \in Nat
  <2>1. a \in DelegatesOf(t.account)
    BY <1>7
  <2>2. Stake(t, a) \in Nat /\ t.account[a].pay_balance \in Nat
    BY <1>1, <1>6, <1>7, StakeNat DEF AccountEntry
  <2>3. t.balance[slate] <= Stake(t, a)
    <3>1. slate \in Naming(a) /\ \A s \in Naming(a) : t.balance[s] \in Nat
      BY <1>3, <1>7, NamingFinite DEF Naming
    <3>2. QED BY <3>1, NamingFinite, SumNat DEF Stake
  <2>4. t.balance[slate] \in Nat
    BY <1>3
  <2>5. QED BY <2>1, <2>2, <2>3, <2>4 DEF Good, StakeVotes
<1>8. account \in [Account -> AccountEntry \union {Absent}]
  <2>1. ASSUME NEW a \in Account PROVE account[a] \in AccountEntry \union {Absent}
    <3>1. CASE a \in slate
      <4>1. t.account[a].votes_for + d \in Nat
        BY <1>7, <3>1
      <4>2. QED BY <1>4, <1>6, <3>1, <4>1 DEF AccountEntry
    <3>2. CASE a \notin slate
      BY <1>1, <1>4, <3>2 DEF Tables
    <3>3. QED BY <3>1, <3>2
  <2>2. QED BY <2>1 DEF adjust_vote
<1>9. u.fees \in Nat
  BY <1>1, <1>2 DEF Tables
<1> HIDE DEF balance, account
<1>10. u \in Tables
  BY <1>1, <1>2, <1>3, <1>8, <1>9 DEF Tables, Move
<1>a. Moved(t, u, slate, d)
  BY <1>1, <1>2, <1>10 DEF Moved, balance
<1>11. \A a \in Account :
         /\ account[a] = Absent <=> t.account[a] = Absent
         /\ account[a] # Absent =>
              /\ account[a].is_delegate = t.account[a].is_delegate
              /\ account[a].pay_balance = t.account[a].pay_balance
              /\ account[a].blocks_produced = t.account[a].blocks_produced
              /\ account[a].blocks_missed = t.account[a].blocks_missed
              /\ account[a].votes_for = IF a \in slate THEN t.account[a].votes_for + d
                                        ELSE t.account[a].votes_for
  <2>1. SUFFICES ASSUME NEW a \in Account
                 PROVE  /\ account[a] = Absent <=> t.account[a] = Absent
                        /\ account[a] # Absent =>
                             /\ account[a].is_delegate = t.account[a].is_delegate
                             /\ account[a].pay_balance = t.account[a].pay_balance
                             /\ account[a].blocks_produced = t.account[a].blocks_produced
                             /\ account[a].blocks_missed = t.account[a].blocks_missed
                             /\ account[a].votes_for = IF a \in slate THEN t.account[a].votes_for + d
                                                       ELSE t.account[a].votes_for
    OBVIOUS
  <2>2. CASE a \in slate
    <3>1. account[a] \in AccountEntry
      <4>1. t.account[a].votes_for + d \in Nat
        BY <1>7, <2>2
      <4>2. QED BY <1>4, <1>6, <2>2, <4>1 DEF AccountEntry
    <3>2. account[a] # Absent /\ t.account[a] # Absent
      BY <1>6, <2>2, <3>1, AbsentAssumption
    <3>3. QED BY <1>4, <1>6, <2>2, <3>2 DEF AccountEntry
  <2>3. CASE a \notin slate
    BY <1>4, <2>3
  <2>4. QED BY <2>2, <2>3
<1>12. /\ Registered(u.account) = Registered(t.account)
       /\ DelegatesOf(u.account) = DelegatesOf(t.account)
  BY <1>2, <1>11 DEF Registered, DelegatesOf
<1>13. Pay(u.account) = Pay(t.account) /\ Slots(u.account) = Slots(t.account)
  BY <1>2, <1>11 DEF Pay, Slots
<1>14. Backed(u)
  <2>1. /\ \A s \in Slates : t.balance[s] \in Int /\ balance[s] \in Int
        /\ \A s \in Slates \ {slate} : balance[s] = t.balance[s]
        /\ balance[slate] = t.balance[slate] + d /\ t.balance[slate] \in Int
    BY <1>3 DEF balance
  <2>2. SumOf(u.balance, Slates) = SumOf(t.balance, Slates) + d
    BY <1>a, BalanceMoves
  <2>3. SumOf(t.balance, Slates) \in Int
    BY <2>1, FiniteAssumption, SumInt
  <2>4. SumOf(balance, Slates) = SumOf(t.balance, Slates) + d
    BY <1>2, <2>2
  <2>5. SumOf(Pay(t.account), Account) \in Int
    <3>1. \A a \in Account : Pay(t.account)[a] \in Int
      BY <1>1 DEF Pay, Tables, AccountEntry
    <3>2. QED BY <3>1, FiniteAssumption, SumInt
  <2>6. t.fees \in Int
    BY <1>1 DEF Tables
  <2>7. t.supply = SumOf(t.balance, Slates) + t.fees + SumOf(Pay(t.account), Account)
    BY DEF Good, Backed
  <2>8. QED BY <1>2, <1>13, <2>3, <2>4, <2>5, <2>6, <2>7 DEF Backed
<1>15. StakeVotes(u)
  <2>1. SUFFICES ASSUME NEW a \in DelegatesOf(u.account)
                 PROVE  u.account[a].votes_for = Stake(u, a) + u.account[a].pay_balance
    BY DEF StakeVotes
  <2>2. a \in Account /\ a \in DelegatesOf(t.account) /\ account[a] # Absent
    BY <1>2, <1>5, <1>12 DEF DelegatesOf, Registered
  <2>3. Stake(u, a) = IF a \in slate THEN Stake(t, a) + d ELSE Stake(t, a)
    BY <1>a, StakeMoves
  <2>4. t.account[a].votes_for = Stake(t, a) + t.account[a].pay_balance
    BY <2>2 DEF Good, StakeVotes
  <2>5. /\ account[a].pay_balance = t.account[a].pay_balance
        /\ account[a].votes_for = IF a \in slate THEN t.account[a].votes_for + d
                                  ELSE t.account[a].votes_for
    BY <1>11, <2>2
  <2>6. Stake(t, a) \in Nat /\ t.account[a].pay_balance \in Nat
    <3>1. t.account[a] \in AccountEntry
      BY <1>1, <2>2, EntryIn
    <3>2. QED BY <1>1, <3>1, StakeNat DEF AccountEntry
  <2>7. QED BY <1>2, <2>3, <2>4, <2>5, <2>6
<1>16. NoVotes(u)
  <2>1. SUFFICES ASSUME NEW a \in Registered(u.account) \ DelegatesOf(u.account)
                 PROVE  u.account[a].votes_for = 0 /\ u.account[a].pay_balance = 0
    BY DEF NoVotes
  <2>2. /\ a \in Account /\ a \in Registered(t.account) \ DelegatesOf(t.account)
        /\ account[a] # Absent
    BY <1>2, <1>12 DEF Registered
  <2>3. a \notin slate
    BY <2>2
  <2>4. QED BY <1>2, <1>11, <2>2, <2>3 DEF Good, NoVotes
<1>17. SlatesNameDelegates(u)
  BY <1>2, <1>3, <1>12 DEF SlatesNameDelegates, Good, balance
<1>18. QED BY <1>2, <1>10, <1>12, <1>13, <1>14, <1>15, <1>16, <1>17 DEF Good, Keeps

-----------------------------------------------------------------------------
(***************************************************************************)
(* The inductive invariant.  A pop brings back tables, number and time of  *)
(* an earlier block, so every undo state has what the head has.            *)
(***************************************************************************)
Listed(t) == \A i \in 1..Len(t.active) : t.active[i] \in Registered(t.account)
Count(t) == SumOf(Slots(t.account), Account)

(* Slots from the first block to the one at slot s that has n blocks below it *)
FirstTime(s) == IF Len(undo) < 2 THEN s ELSE undo[2].time
SlotsTo(n, s) == IF n = 0 THEN 0 ELSE s - FirstTime(s) + 1

HeadInv == /\ Good(db) /\ Listed(db)
           /\ Count(db) = SlotsTo(num, time)
           /\ num = Len(undo) /\ num \in 0..MaxBlocks /\ time \in Nat

UndoInv == \A i \in 1..Len(undo) :
  /\ Good(undo[i].tables) /\ Listed(undo[i].tables)
  /\ undo[i].num = i - 1 /\ undo[i].time \in Nat
  /\ Count(undo[i].tables) = IF i = 1 THEN 0 ELSE undo[i].time - undo[2].time + 1

PendingInv ==
  /\ slot \in Nat /\ ops \in 0..MaxOps
  /\ Good(pending)
  /\ slot = 0 => pending = db
  /\ slot # 0 =>
       /\ num < MaxBlocks /\ time < slot /\ HasSignee(slot)
       /\ pending.active = db.active
       /\ Registered(db.account) \subseteq Registered(pending.account)
       /\ Count(pending) = Count(db) + (IF num = 0 THEN 1 ELSE slot - time)

DelInv == /\ HeadInv /\ UndoInv /\ PendingInv /\ VoteSetMatches
          /\ undo \in Seq([tables : Tables, num : Nat, time : Nat])


-----------------------------------------------------------------------------
(* A withdrawal and a deposit are such moves; money to withdraw lies on a  *)
(* slate of delegates.                                                     *)
LEMMA WithdrawGood ==
  ASSUME NEW t, Good(t), NEW slate \in Slates, NEW amount \in Nat,
         t.balance[slate] >= amount
  PROVE  /\ Good(withdraw(t, slate, amount)) /\ Keeps(t, withdraw(t, slate, amount))
         /\ DelegatesOf(withdraw(t, slate, amount).account) = DelegatesOf(t.account)
         /\ withdraw(t, slate, amount).fees = t.fees + amount
<1> DEFINE u == withdraw(t, slate, amount)
<1>1. t \in Tables /\ t.balance \in [Slates -> Nat] /\ t.fees \in Nat
  BY DEF Good, Tables
<1>2. CASE amount = 0
  BY <1>1, <1>2 DEF withdraw, Keeps
<1>3. CASE amount # 0
  <2>1. slate \subseteq DelegatesOf(t.account)
    BY <1>1, <1>3 DEF Good, SlatesNameDelegates
  <2> DEFINE d == -amount
  <2>3. /\ d \in Int /\ t.balance[slate] + d >= 0 /\ t.fees - d >= 0
        /\ t.balance[slate] - amount = t.balance[slate] + d
        /\ t.fees + amount = t.fees - d
    BY <1>1
  <2>a. u = [t EXCEPT !.balance = [t.balance EXCEPT ![slate] = t.balance[slate] - amount],
                      !.fees = t.fees + amount,
                      !.account = adjust_vote(t.account, slate, d)]
    BY <1>1, <1>3 DEF withdraw, Tables
  <2> HIDE DEF u, d
  <2>2. u = Move(t, slate, d)
    BY <2>3, <2>a DEF Move
  <2>4. Good(u) /\ Keeps(t, u) /\ DelegatesOf(u.account) = DelegatesOf(t.account)
    BY <2>1, <2>2, <2>3, MoveGood
  <2>5. u.fees = t.fees + amount
    BY <1>1, <2>a DEF Tables
  <2>6. QED BY <2>4, <2>5 DEF u
<1>4. QED BY <1>2, <1>3

LEMMA DepositGood ==
  ASSUME NEW t, Good(t), NEW slate \in Slates, NEW amount \in Nat,
         t.fees >= amount, slate \subseteq DelegatesOf(t.account)
  PROVE  Good(deposit(t, slate, amount)) /\ Keeps(t, deposit(t, slate, amount))
<1> DEFINE u == deposit(t, slate, amount)
<1>1. t \in Tables /\ t.balance \in [Slates -> Nat] /\ t.fees \in Nat
  BY DEF Good, Tables
<1>2. u = Move(t, slate, amount)
  BY <1>1 DEF deposit, Tables, Move
<1>3. amount \in Int /\ t.balance[slate] + amount >= 0 /\ t.fees - amount >= 0
  BY <1>1
<1> HIDE DEF u
<1>4. Good(u) /\ Keeps(t, u)
  BY <1>2, <1>3, MoveGood
<1>5. QED BY <1>4 DEF u

(***************************************************************************)
(* One entry a changes, and what is booked out of the supply or the fees   *)
(* is booked into its pay.  A delegate stays one.                          *)
(***************************************************************************)
Changed(t, u, a) ==
  /\ u \in Tables /\ a \in Account
  /\ u.balance = t.balance
  /\ \A b \in Account \ {a} : u.account[b] = t.account[b]
  /\ u.account[a] \in AccountEntry
  /\ a \in DelegatesOf(t.account) => u.account[a].is_delegate
  /\ IF u.account[a].is_delegate
     THEN u.account[a].votes_for = Stake(t, a) + u.account[a].pay_balance
     ELSE u.account[a].votes_for = 0 /\ u.account[a].pay_balance = 0
  /\ u.supply - u.fees = t.supply - t.fees + (u.account[a].pay_balance - Pay(t.account)[a])

LEMMA PayTyped ==
  ASSUME NEW t \in Tables
  PROVE  /\ \A a \in Account : Pay(t.account)[a] \in Nat
         /\ \A a \in Account : Slots(t.account)[a] \in Nat
         /\ SumOf(Pay(t.account), Account) \in Nat
         /\ Count(t) \in Nat
<1>1. /\ \A a \in Account : Pay(t.account)[a] \in Nat
      /\ \A a \in Account : Slots(t.account)[a] \in Nat
  BY DEF Pay, Slots, Tables, AccountEntry
<1>2. QED BY <1>1, FiniteAssumption, SumNat DEF Count

LEMMA BalanceTyped ==
  ASSUME NEW t \in Tables
  PROVE  SumOf(t.balance, Slates) \in Nat
<1>1. \A s \in Slates : t.balance[s] \in Nat
  BY DEF Tables
<1>2. QED BY <1>1, FiniteAssumption, SumNat

LEMMA ChangedGood ==
  ASSUME NEW t, Good(t), NEW u, NEW a, Changed(t, u, a)
  PROVE  /\ Good(u)
         /\ Registered(u.account) = Registered(t.account) \union {a}
         /\ DelegatesOf(t.account) \subseteq DelegatesOf(u.account)
<1>1. /\ t \in Tables /\ u \in Tables /\ a \in Account /\ u.balance = t.balance
      /\ t.fees \in Nat /\ u.fees \in Nat /\ t.supply \in Nat /\ u.supply \in Nat
  BY DEF Good, Changed, Tables
<1>2. u.account[a] # Absent /\ u.account[a] \in AccountEntry
  BY AbsentAssumption DEF Changed
<1>3. \A b \in Account \ {a} : u.account[b] = t.account[b]
  BY DEF Changed
<1>4. Registered(u.account) = Registered(t.account) \union {a}
  BY <1>1, <1>2, <1>3 DEF Registered
<1>5. DelegatesOf(t.account) \subseteq DelegatesOf(u.account)
  <2>1. SUFFICES ASSUME NEW b \in DelegatesOf(t.account) PROVE b \in DelegatesOf(u.account)
    OBVIOUS
  <2>2. b \in Account /\ t.account[b] # Absent /\ t.account[b].is_delegate
    BY DEF DelegatesOf, Registered
  <2>3. CASE b = a
    BY <1>2, <2>2, <2>3 DEF Changed, DelegatesOf, Registered
  <2>4. CASE b # a
    BY <1>3, <2>2, <2>4 DEF DelegatesOf, Registered
  <2>5. QED BY <2>3, <2>4
<1>6. \A b : Stake(u, b) = Stake(t, b)
  BY <1>1 DEF Stake
<1>7. Backed(u)
  <2> DEFINE f == Pay(t.account)
             h == Pay(u.account)
  <2>1. h[a] = u.account[a].pay_balance /\ \A b \in Account \ {a} : h[b] = f[b]
    BY <1>1, <1>2, <1>3 DEF Pay
  <2>2. \A b \in Account : f[b] \in Int /\ h[b] \in Int
    BY <1>1, PayTyped
  <2>3. SumOf(f, Account) \in Nat /\ SumOf(h, Account) \in Nat /\ SumOf(t.balance, Slates) \in Nat
    BY <1>1, PayTyped, BalanceTyped
  <2>4. u.supply - u.fees = t.supply - t.fees + (h[a] - f[a])
    BY <2>1 DEF Changed
  <2>5. t.supply = SumOf(t.balance, Slates) + t.fees + SumOf(f, Account)
    BY DEF Good, Backed
  <2> HIDE DEF f, h
  <2>6. SumOf(h, Account) = SumOf(f, Account) + (h[a] - f[a])
    <3>1. \A b \in Account \ {a} : h[b] = f[b]
      BY <2>1
    <3>2. a \in Account /\ IsFiniteSet(Account)
      BY <1>1, FiniteAssumption
    <3>3. QED BY <2>2, <3>1, <3>2, SumUpdate
  <2>7. f[a] \in Int /\ h[a] \in Int
    BY <1>1, <2>2
  <2>8. u.supply = SumOf(t.balance, Slates) + u.fees + SumOf(h, Account)
    BY <1>1, <2>3, <2>4, <2>5, <2>6, <2>7
  <2>9. QED BY <1>1, <2>8 DEF Backed, h
<1>8. ASSUME NEW b \in DelegatesOf(u.account)
      PROVE  u.account[b].votes_for = Stake(u, b) + u.account[b].pay_balance
  <2>1. b \in Account /\ u.account[b] # Absent /\ u.account[b].is_delegate
    BY <1>8 DEF DelegatesOf, Registered
  <2>2. CASE b = a
    BY <1>6, <2>1, <2>2 DEF Changed
  <2>3. CASE b # a
    <3>1. u.account[b] = t.account[b] /\ b \in DelegatesOf(t.account)
      BY <1>3, <2>1, <2>3 DEF DelegatesOf, Registered
    <3>2. QED BY <1>6, <3>1 DEF Good, StakeVotes
  <2>4. QED BY <2>2, <2>3
<1>9. ASSUME NEW b \in Registered(u.account) \ DelegatesOf(u.account)
      PROVE  u.account[b].votes_for = 0 /\ u.account[b].pay_balance = 0
  <2>1. b \in Account /\ u.account[b] # Absent /\ ~u.account[b].is_delegate
    BY <1>9 DEF DelegatesOf, Registered
  <2>2. CASE b = a
    BY <2>1, <2>2 DEF Changed
  <2>3. CASE b # a
    <3>1. u.account[b] = t.account[b] /\ b \in Registered(t.account) \ DelegatesOf(t.account)
      BY <1>3, <2>1, <2>3 DEF DelegatesOf, Registered
    <3>2. QED BY <3>1 DEF Good, NoVotes
  <2>4. QED BY <2>2, <2>3
<1>10. SlatesNameDelegates(u)
  BY <1>1, <1>5 DEF Good, SlatesNameDelegates
<1>11. Good(u)
  BY <1>1, <1>7, <1>8, <1>9, <1>10 DEF Good, StakeVotes, NoVotes
<1>12. QED BY <1>4, <1>5, <1>11

(* What a change of one entry keeps when it leaves the production counts alone *)
LEMMA ChangedKeeps ==
  ASSUME NEW t, Good(t), NEW u, NEW a, Changed(t, u, a), u.active = t.active,
         Slots(u.account)[a] = Slots(t.account)[a]
  PROVE  Keeps(t, u)
<1>1. Registered(t.account) \subseteq Registered(u.account)
  BY ChangedGood
<1>2. \A b \in Account : Slots(u.account)[b] = Slots(t.account)[b]
  BY DEF Changed, Slots
<1>3. Slots(u.account) = Slots(t.account)
  BY <1>2 DEF Slots
<1>4. QED BY <1>1, <1>3 DEF Keeps

(* Nobody's money names an account that is no delegate. *)
LEMMA NoStake ==
  ASSUME NEW t, Good(t), NEW a, a \notin DelegatesOf(t.account)
  PROVE  Stake(t, a) = 0
<1> DEFINE S == Naming(a)
           f == t.balance
<1>1. \A s \in S : f[s] = 0
  <2>1. SUFFICES ASSUME NEW s \in S PROVE f[s] = 0
    OBVIOUS
  <2>2. s \in Slates /\ a \in s /\ f[s] \in Nat
    BY DEF Naming, Good, Tables
  <2>3. ~(f[s] > 0)
    BY <2>2 DEF Good, SlatesNameDelegates
  <2>4. QED BY <2>2, <2>3
<1>2. IsFiniteSet(S)
  BY NamingFinite
<1> HIDE DEF S, f
<1>3. SumOf(f, S) = 0
  BY <1>1, <1>2, SumZero
<1>4. QED BY <1>3 DEF Stake, S, f

-----------------------------------------------------------------------------
(* Shares of an amount *)
LEMMA DivFacts ==
  ASSUME NEW x \in Nat, NEW y \in Nat \ {0}
  PROVE  x \div y \in Nat /\ x \div y <= x
  OBVIOUS

LEMMA TimesNat ==
  ASSUME NEW x \in Nat, NEW y \in Nat
  PROVE  x * y \in Nat
  OBVIOUS

LEMMA PercentFacts ==
  ASSUME NEW x \in Nat, NEW rate \in 0..100
  PROVE  (x * rate) \div 100 \in Nat /\ (x * rate) \div 100 <= x
<1>1. x * rate \in Nat /\ x * rate <= x * 100
  OBVIOUS
<1> DEFINE p == x * rate
<1> HIDE DEF p
<1>2. p \in Nat /\ p <= 100 * x
  BY <1>1 DEF p
<1>3. p \div 100 \in Nat /\ p \div 100 <= x
  BY <1>2
<1>4. QED BY <1>3 DEF p

LEMMA PayNat ==
  ASSUME num \in Nat
  PROVE  max_delegate_pay \in Nat
<1>1. CASE num < PayStart
  BY <1>1, PayAssumption DEF max_delegate_pay
<1>2. CASE ~(num < PayStart)
  <2> DEFINE step == (num - PayStart) \div PayPeriod
  <2>1. num - PayStart \in Nat
    BY <1>2, PayAssumption
  <2>2. step \in Nat
    BY <2>1, DivFacts, DelegatesAssumption
  <2> HIDE DEF step
  <2>3. Len(PayTable) \in Nat \ {0}
    BY PayAssumption
  <2>4. (IF step >= Len(PayTable) THEN Len(PayTable) ELSE step + 1) \in 1..Len(PayTable)
    BY <2>2, <2>3
  <2>5. PayTable[IF step >= Len(PayTable) THEN Len(PayTable) ELSE step + 1] \in Nat
    BY <2>4, PayAssumption
  <2>6. QED BY <1>2, <2>5 DEF max_delegate_pay, step
<1>3. QED BY <1>1, <1>2

LEMMA FeeNat ==
  ASSUME num \in Nat, NEW rate \in Rates
  PROVE  registration_fee(rate) \in Nat
<1> DEFINE x == BlocksPerTwoWeeks * max_delegate_pay
           y == x \div NumDelegates
<1>1. x \in Nat
  BY PayNat, TimesNat, DelegatesAssumption
<1>2. y \in Nat
  <2> HIDE DEF x
  <2>1. QED BY <1>1, DivFacts, DelegatesAssumption
<1>3. rate \in 0..100
  BY DelegatesAssumption
<1> HIDE DEF y
<1>4. (y * rate) \div 100 \in Nat
  BY <1>2, <1>3, PercentFacts
<1>5. QED BY <1>4 DEF registration_fee, y, x

-----------------------------------------------------------------------------
(* The transactions of a block.  What a block changes of the tables *)
LEMMA KeepsTrans ==
  ASSUME NEW t, NEW u, NEW v, Keeps(t, u), Keeps(u, v)
  PROVE  Keeps(t, v)
  BY DEF Keeps

(* An account entry and the fees are written together. *)
Written(t, u, a, e, fees) ==
  u = [t EXCEPT !.account = [t.account EXCEPT ![a] = e], !.fees = fees]

LEMMA EntryWritten ==
  ASSUME NEW t \in Tables, NEW a \in Account, NEW e \in AccountEntry, NEW fees \in Nat,
         NEW u, Written(t, u, a, e, fees)
  PROVE  /\ u \in Tables /\ u.balance = t.balance /\ u.fees = fees
         /\ u.supply = t.supply /\ u.active = t.active /\ u.account[a] = e
         /\ \A b \in Account \ {a} : u.account[b] = t.account[b]
<1>1. [t.account EXCEPT ![a] = e] \in [Account -> AccountEntry \union {Absent}]
  BY DEF Tables
<1>2. QED BY <1>1 DEF Tables, Written

LEMMA TransferGood ==
  ASSUME NEW t, Good(t), NEW from \in Slates, NEW to \in Slates,
         NEW amount \in Nat, NEW fee \in Nat, fee < amount,
         t.balance[from] >= amount, to \subseteq DelegatesOf(t.account),
         NEW v, v = deposit(withdraw(t, from, amount), to, amount - fee)
  PROVE  Good(v) /\ Keeps(t, v)
<1> DEFINE u == withdraw(t, from, amount)
           rest == amount - fee
<1>1. /\ Good(u) /\ Keeps(t, u) /\ DelegatesOf(u.account) = DelegatesOf(t.account)
      /\ u.fees = t.fees + amount
  BY WithdrawGood
<1>2. rest \in Nat /\ u.fees >= rest
  BY <1>1 DEF Good, Tables
<1>3. v = deposit(u, to, rest)
  OBVIOUS
<1> HIDE DEF u, rest
<1>4. to \subseteq DelegatesOf(u.account)
  BY <1>1
<1>5. Good(v) /\ Keeps(u, v)
  BY <1>1, <1>2, <1>3, <1>4, DepositGood
<1>6. QED BY <1>1, <1>5, KeepsTrans

LEMMA RegisterGood ==
  ASSUME NEW t, Good(t), NEW a \in Account, NEW delegate \in BOOLEAN, NEW rate \in Rates,
         NEW from \in Slates, NEW fee \in Nat,
         t.account[a] = Absent, t.balance[from] >= fee,
         NEW v, v = withdraw([t EXCEPT !.account[a] = NewAccount(delegate, rate)], from, fee)
  PROVE  Good(v) /\ Keeps(t, v)
<1> DEFINE e == NewAccount(delegate, rate)
           u == [t EXCEPT !.account[a] = NewAccount(delegate, rate)]
<1>1. /\ e \in AccountEntry /\ e.is_delegate = delegate /\ e.votes_for = 0
      /\ e.pay_balance = 0 /\ e.blocks_produced = 0 /\ e.blocks_missed = 0
  BY DEF NewAccount, AccountEntry
<1>2. t \in Tables /\ t.fees \in Nat /\ t.supply \in Nat
  BY DEF Good, Tables
<1>3. Written(t, u, a, e, t.fees)
  BY <1>2 DEF Written, Tables
<1>4. v = withdraw(u, from, fee)
  OBVIOUS
<1> HIDE DEF e, u
<1>5. /\ u \in Tables /\ u.balance = t.balance /\ u.fees = t.fees
      /\ u.supply = t.supply /\ u.active = t.active /\ u.account[a] = e
      /\ \A b \in Account \ {a} : u.account[b] = t.account[b]
  BY <1>1, <1>2, <1>3, EntryWritten
<1>6. a \notin DelegatesOf(t.account)
  BY DEF DelegatesOf, Registered
<1>7. Stake(t, a) = 0
  BY <1>6, NoStake
<1>8. Pay(t.account)[a] = 0 /\ Slots(t.account)[a] = 0
  BY DEF Pay, Slots
<1>9. Changed(t, u, a)
  BY <1>1, <1>2, <1>5, <1>6, <1>7, <1>8 DEF Changed
<1>10. Slots(u.account)[a] = Slots(t.account)[a]
  BY <1>1, <1>5, <1>8, AbsentAssumption DEF Slots
<1>11. Good(u)
  BY <1>9, ChangedGood
<1>12. Keeps(t, u)
  BY <1>5, <1>9, <1>10, ChangedKeeps
<1>13. u.balance[from] >= fee
  BY <1>5
<1>14. Good(v) /\ Keeps(u, v)
  BY <1>4, <1>11, <1>13, WithdrawGood
<1>15. QED BY <1>12, <1>14, KeepsTrans

LEMMA UpdateGood ==
  ASSUME NEW t, Good(t), NEW a \in Account, NEW retract \in BOOLEAN, NEW delegate \in BOOLEAN,
         NEW rate \in Rates, NEW from \in Slates, NEW fee \in Nat,
         t.account[a] # Absent, t.account[a].is_delegate => delegate, t.balance[from] >= fee,
         NEW v, v = withdraw([t EXCEPT !.account[a] =
                     [t.account[a] EXCEPT !.is_retracted = retract, !.is_delegate = delegate,
                                          !.pay_rate = IF delegate THEN rate ELSE @]], from, fee)
  PROVE  Good(v) /\ Keeps(t, v)
<1> DEFINE o == t.account[a]
           e == [t.account[a] EXCEPT !.is_retracted = retract, !.is_delegate = delegate,
                                     !.pay_rate = IF delegate THEN rate ELSE @]
           u == [t EXCEPT !.account[a] = e]
<1>1. t \in Tables /\ t.fees \in Nat /\ t.supply \in Nat /\ o \in AccountEntry
  BY DEF Good, Tables
<1>2. /\ e \in AccountEntry /\ e.is_delegate = delegate /\ e.votes_for = o.votes_for
      /\ e.pay_balance = o.pay_balance /\ e.blocks_produced = o.blocks_produced
      /\ e.blocks_missed = o.blocks_missed
  BY <1>1 DEF AccountEntry
<1>3. Written(t, u, a, e, t.fees)
  BY <1>1 DEF Written, Tables
<1>4. v = withdraw(u, from, fee)
  OBVIOUS
<1> HIDE DEF e, u
<1>5. /\ u \in Tables /\ u.balance = t.balance /\ u.fees = t.fees
      /\ u.supply = t.supply /\ u.active = t.active /\ u.account[a] = e
      /\ \A b \in Account \ {a} : u.account[b] = t.account[b]
  BY <1>1, <1>2, <1>3, EntryWritten
<1>6. a \in Registered(t.account) /\ (a \in DelegatesOf(t.account) <=> o.is_delegate)
  BY DEF DelegatesOf, Registered
<1>7. IF delegate THEN o.votes_for = Stake(t, a) + o.pay_balance
                  ELSE o.votes_for = 0 /\ o.pay_balance = 0
  <2>1. CASE o.is_delegate
    BY <1>6, <2>1 DEF Good, StakeVotes
  <2>2. CASE ~o.is_delegate
    <3>1. o.votes_for = 0 /\ o.pay_balance = 0
      BY <1>6, <2>2 DEF Good, NoVotes
    <3>2. Stake(t, a) = 0
      BY <1>6, <2>2, NoStake
    <3>3. QED BY <3>1, <3>2
  <2>3. QED BY <2>1, <2>2
<1>8. Pay(t.account)[a] = o.pay_balance /\ o.pay_balance \in Nat
  BY <1>1 DEF Pay, AccountEntry
<1>9. Changed(t, u, a)
  BY <1>1, <1>2, <1>5, <1>6, <1>7, <1>8 DEF Changed
<1>10. Slots(u.account)[a] = Slots(t.account)[a]
  BY <1>2, <1>5, AbsentAssumption DEF Slots
<1>11. Good(u)
  BY <1>9, ChangedGood
<1>12. Keeps(t, u)
  BY <1>5, <1>9, <1>10, ChangedKeeps
<1>13. u.balance[from] >= fee
  BY <1>5
<1>14. Good(v) /\ Keeps(u, v)
  BY <1>4, <1>11, <1>13, WithdrawGood
<1>15. QED BY <1>12, <1>14, KeepsTrans

LEMMA WithdrawPayGood ==
  ASSUME NEW t, Good(t), NEW a \in Account, NEW amount \in Nat, NEW to \in Slates,
         t.account[a] # Absent, t.account[a].is_delegate, t.account[a].pay_balance >= amount,
         to \subseteq DelegatesOf(t.account),
         NEW v, v = deposit(
           [t EXCEPT !.account[a] = [t.account[a] EXCEPT !.pay_balance = @ - amount,
                                                         !.votes_for = @ - amount],
                     !.fees = @ + amount], to, amount)
  PROVE  Good(v) /\ Keeps(t, v)
<1> DEFINE o == t.account[a]
           e == [t.account[a] EXCEPT !.pay_balance = @ - amount, !.votes_for = @ - amount]
           u == [t EXCEPT !.account[a] = e, !.fees = @ + amount]
<1>1. t \in Tables /\ t.fees \in Nat /\ t.supply \in Nat /\ o \in AccountEntry
  BY DEF Good, Tables
<1>2. a \in DelegatesOf(t.account)
  BY DEF DelegatesOf, Registered
<1>3. /\ o.votes_for = Stake(t, a) + o.pay_balance
      /\ Stake(t, a) \in Nat /\ o.pay_balance \in Nat /\ o.pay_balance - amount \in Nat
  BY <1>1, <1>2, StakeNat DEF Good, StakeVotes, AccountEntry
<1>4. /\ e \in AccountEntry /\ e.is_delegate = o.is_delegate
      /\ e.votes_for = o.votes_for - amount
      /\ e.pay_balance = o.pay_balance - amount /\ e.blocks_produced = o.blocks_produced
      /\ e.blocks_missed = o.blocks_missed
  <2>1. o.votes_for - amount \in Nat
    BY <1>3
  <2>2. QED BY <1>1, <1>3, <2>1 DEF AccountEntry
<1>5. Written(t, u, a, e, t.fees + amount) /\ t.fees + amount \in Nat
  BY <1>1 DEF Written, Tables
<1>6. v = deposit(u, to, amount)
  OBVIOUS
<1> HIDE DEF e, u
<1>7. /\ u \in Tables /\ u.balance = t.balance /\ u.fees = t.fees + amount
      /\ u.supply = t.supply /\ u.active = t.active /\ u.account[a] = e
      /\ \A b \in Account \ {a} : u.account[b] = t.account[b]
  <2> DEFINE fees == t.fees + amount
  <2> HIDE DEF fees
  <2>1. fees \in Nat /\ Written(t, u, a, e, fees)
    BY <1>5 DEF fees
  <2>2. QED BY <1>1, <1>4, <2>1, EntryWritten DEF fees
<1>8. Pay(t.account)[a] = o.pay_balance
  BY DEF Pay
<1>9. e.votes_for = Stake(t, a) + e.pay_balance /\ o.is_delegate
  BY <1>3, <1>4
<1>10. u.supply - u.fees = t.supply - t.fees + (u.account[a].pay_balance - Pay(t.account)[a])
  BY <1>1, <1>3, <1>4, <1>7, <1>8
<1>11. Changed(t, u, a)
  BY <1>4, <1>7, <1>9, <1>10 DEF Changed
<1>12. Slots(u.account)[a] = Slots(t.account)[a]
  BY <1>4, <1>7, AbsentAssumption DEF Slots
<1>13. Good(u) /\ DelegatesOf(t.account) \subseteq DelegatesOf(u.account)
  BY <1>11, ChangedGood
<1>14. Keeps(t, u)
  BY <1>7, <1>11, <1>12, ChangedKeeps
<1>15. u.fees >= amount /\ to \subseteq DelegatesOf(u.account)
  BY <1>1, <1>7, <1>13
<1>16. Good(v) /\ Keeps(u, v)
  BY <1>6, <1>13, <1>15, DepositGood
<1>17. QED BY <1>14, <1>16, KeepsTrans

-----------------------------------------------------------------------------
(***************************************************************************)
(* The signer's pay: what it accepts of the issue and of the fees is its   *)
(* pay and votes for it; the rest of the fees leaves the supply.           *)
(***************************************************************************)
Paid(t, a, list) == [pay_delegate(t, a) EXCEPT !.active = list]

LEMMA PayGood ==
  ASSUME num \in Nat, NEW t, Good(t), NEW a, a \in DelegatesOf(t.account), NEW list \in Seq(Account),
         NEW v, v = Paid(t, a, list)
  PROVE  /\ Good(v) /\ v.active = list /\ Slots(v.account) = Slots(t.account)
         /\ Registered(v.account) = Registered(t.account)
<1> DEFINE o == t.account[a]
           rate == t.account[a].pay_rate
           new_shares == (max_delegate_pay * rate) \div 100
           max_fees == t.fees \div BlocksPerTwoWeeks
           fees == (max_fees * rate) \div 100
           paycheck == new_shares + fees
           e == [o EXCEPT !.votes_for = @ + paycheck, !.pay_balance = @ + paycheck]
           supply == t.supply + new_shares - (max_fees - fees)
<1>1. /\ t \in Tables /\ t.fees \in Nat /\ t.supply \in Nat
      /\ t.account \in [Account -> AccountEntry \union {Absent}]
  BY DEF Good, Tables
<1>2. a \in Account /\ o # Absent /\ o \in AccountEntry /\ o.is_delegate /\ rate \in 0..100
  BY <1>1, DelegatesAssumption DEF DelegatesOf, Registered, AccountEntry
<1>3. v = [[t EXCEPT !.supply = @ + new_shares - (max_fees - fees), !.fees = @ - max_fees,
                     !.account[a] = e] EXCEPT !.active = list]
  BY DEF pay_delegate, Paid
<1> HIDE DEF supply, e
<1>4. new_shares \in Nat
  BY <1>2, PayNat, PercentFacts
<1>5. max_fees \in Nat /\ max_fees <= t.fees
  BY <1>1, DivFacts, DelegatesAssumption
<1>6. fees \in Nat /\ fees <= max_fees
  <2> HIDE DEF max_fees
  <2>1. QED BY <1>2, <1>5, PercentFacts
<1> HIDE DEF new_shares, max_fees, fees
<1>7. /\ o.votes_for = Stake(t, a) + o.pay_balance /\ Stake(t, a) \in Nat /\ o.pay_balance \in Nat
  BY <1>1, <1>2, StakeNat DEF Good, StakeVotes, AccountEntry
<1>8. paycheck \in Nat
  BY <1>4, <1>6
<1>9. /\ e \in AccountEntry /\ e.is_delegate /\ e.votes_for = o.votes_for + paycheck
      /\ e.pay_balance = o.pay_balance + paycheck /\ e.blocks_produced = o.blocks_produced
      /\ e.blocks_missed = o.blocks_missed
  <2> HIDE DEF paycheck
  <2>0. o.votes_for \in Nat /\ o.pay_balance \in Nat
    BY <1>2 DEF AccountEntry
  <2>1. o.votes_for + paycheck \in Nat /\ o.pay_balance + paycheck \in Nat
    <3> HIDE DEF o
    <3>1. QED BY <1>8, <2>0
  <2>2. QED BY <1>2, <2>1 DEF AccountEntry, e
<1>10. supply \in Nat
  <2>1. t.supply >= t.fees
    BY <1>1, PayTyped, BalanceTyped DEF Good, Backed
  <2>2. QED BY <1>1, <1>4, <1>5, <1>6, <2>1 DEF supply
<1>11. [t.account EXCEPT ![a] = e] \in [Account -> AccountEntry \union {Absent}]
  BY <1>1, <1>2, <1>9
<1>12. t.fees - max_fees \in Nat
  BY <1>1, <1>5
<1>13. /\ v \in Tables /\ v.balance = t.balance /\ v.fees = t.fees - max_fees
       /\ v.supply = supply /\ v.active = list /\ v.account = [t.account EXCEPT ![a] = e]
  <2> HIDE DEF rate, paycheck
  <2>1. /\ v.balance = t.balance /\ v.fees = t.fees - max_fees /\ v.active = list
        /\ v.confirmations = t.confirmations
    BY <1>1, <1>3 DEF Tables
  <2>2. v.supply = supply
    BY <1>1, <1>3 DEF Tables, supply
  <2>3. v.account = [t.account EXCEPT ![a] = e]
    BY <1>1, <1>2, <1>3 DEF Tables
  <2>4. v \in [account : {v.account}, balance : {v.balance}, fees : {v.fees},
               supply : {v.supply}, confirmations : {v.confirmations}, active : {v.active}]
    BY <1>1, <1>3 DEF Tables
  <2>5. QED BY <1>1, <1>10, <1>11, <1>12, <2>1, <2>2, <2>3, <2>4 DEF Tables
<1>14. v.account[a] = e /\ \A b \in Account \ {a} : v.account[b] = t.account[b]
  BY <1>1, <1>2, <1>13
<1>15. Pay(t.account)[a] = o.pay_balance
  BY <1>2 DEF Pay
<1>16. e.votes_for = Stake(t, a) + e.pay_balance
  BY <1>7, <1>8, <1>9
<1>17. v.supply - v.fees = t.supply - t.fees + (e.pay_balance - Pay(t.account)[a])
  <2> DEFINE ts == t.supply
             tf == t.fees
             pb == o.pay_balance
             vs == v.supply
             vf == v.fees
             eb == e.pay_balance
             tb == Pay(t.account)[a]
  <2>1. ts \in Int /\ tf \in Int /\ pb \in Int
    BY <1>1, <1>7
  <2>2. new_shares \in Int /\ max_fees \in Int /\ fees \in Int
    BY <1>4, <1>5, <1>6
  <2>3. vs = ts + new_shares - (max_fees - fees) /\ vf = tf - max_fees
    BY <1>13 DEF supply
  <2>4. eb = pb + (new_shares + fees) /\ tb = pb
    BY <1>9, <1>15
  <2>5. vs - vf = ts - tf + (eb - tb)
    <3> HIDE DEF ts, tf, pb, vs, vf, eb, tb
    <3>1. QED BY <2>1, <2>2, <2>3, <2>4
  <2>6. QED BY <2>5
<1>18. Changed(t, v, a)
  BY <1>2, <1>9, <1>13, <1>14, <1>16, <1>17 DEF Changed
<1>19. Good(v) /\ Registered(v.account) = Registered(t.account) \union {a}
  BY <1>18, ChangedGood
<1>20. Registered(v.account) = Registered(t.account)
  BY <1>2, <1>19 DEF Registered
<1>21. \A b \in Account : Slots(v.account)[b] = Slots(t.account)[b]
  BY <1>2, <1>9, <1>14, AbsentAssumption DEF Slots
<1>22. Slots(v.account) = Slots(t.account)
  BY <1>21 DEF Slots
<1>23. QED BY <1>13, <1>19, <1>20, <1>22

(* Tables that differ in nothing that money or votes depend on *)
SameMoney(t, u) ==
  /\ u \in Tables
  /\ u.balance = t.balance /\ u.fees = t.fees /\ u.supply = t.supply
  /\ \A a \in Account :
       /\ u.account[a] = Absent <=> t.account[a] = Absent
       /\ u.account[a] # Absent =>
            /\ u.account[a].is_delegate = t.account[a].is_delegate
            /\ u.account[a].votes_for = t.account[a].votes_for
            /\ u.account[a].pay_balance = t.account[a].pay_balance

LEMMA SameMoneyGood ==
  ASSUME NEW t, Good(t), NEW u, SameMoney(t, u)
  PROVE  Good(u) /\ Registered(u.account) = Registered(t.account)
<1>1. /\ Registered(u.account) = Registered(t.account)
      /\ DelegatesOf(u.account) = DelegatesOf(t.account)
  BY DEF SameMoney, Registered, DelegatesOf
<1>2. \A a \in Account : Pay(u.account)[a] = Pay(t.account)[a]
  BY DEF SameMoney, Pay
<1>3. Pay(u.account) = Pay(t.account)
  BY <1>2 DEF Pay
<1>4. \A a : Stake(u, a) = Stake(t, a)
  BY DEF SameMoney, Stake
<1>5. u \in Tables /\ Backed(u) /\ SlatesNameDelegates(u)
  BY <1>1, <1>3 DEF SameMoney, Good, Backed, SlatesNameDelegates
<1>6. \A a \in Registered(t.account) :
        /\ a \in Account /\ u.account[a].votes_for = t.account[a].votes_for
        /\ u.account[a].pay_balance = t.account[a].pay_balance
  BY DEF SameMoney, Registered
<1>7. StakeVotes(u) /\ NoVotes(u)
  <2>1. DelegatesOf(t.account) \subseteq Registered(t.account)
    BY DEF DelegatesOf
  <2>2. QED BY <1>1, <1>4, <1>6, <2>1 DEF Good, StakeVotes, NoVotes
<1>8. QED BY <1>1, <1>5, <1>7 DEF Good

-----------------------------------------------------------------------------
(* The production statistics at the beginning of a block *)
LEMMA SigneeListed ==
  ASSUME db \in Tables, Listed(db), NEW s \in Nat, HasSignee(s)
  PROVE  get_slot_signee(s) \in Registered(db.account)
<1>1. delegate_pos(s) \in Nat
  BY DelegatesAssumption DEF delegate_pos
<1>2. Len(db.active) \in Nat
  BY DEF Tables
<1>3. delegate_pos(s) + 1 \in 1..Len(db.active)
  BY <1>1, <1>2 DEF HasSignee
<1>4. QED BY <1>3 DEF get_slot_signee, Listed

LEMMA MissedFinite ==
  ASSUME time \in Nat, NEW s \in Nat, s > time
  PROVE  /\ IsFiniteSet(MissedSlots(s)) /\ MissedSlots(s) \subseteq Nat
         /\ Cardinality(MissedSlots(s)) = IF num = 0 THEN 0 ELSE s - time - 1
<1>1. CASE num = 0
  BY <1>1, FS_EmptySet DEF MissedSlots
<1>2. CASE num # 0
  <2>1. MissedSlots(s) = (time + 1)..(s - 1) /\ time + 1 \in Int /\ s - 1 \in Int
    BY <1>2 DEF MissedSlots
  <2>2. /\ IsFiniteSet(MissedSlots(s))
        /\ Cardinality(MissedSlots(s)) = IF time + 1 > s - 1 THEN 0 ELSE (s - 1) - (time + 1) + 1
    BY <2>1, FS_Interval
  <2>3. QED BY <1>2, <2>1, <2>2
<1>3. QED BY <1>1, <1>2

LEMMA ConfirmationsTyped ==
  ASSUME db \in Tables, time \in Nat, NEW s \in Nat, s > time
  PROVE  next_confirmations(s) \in 1..(3 * NumDelegates)
<1> DEFINE c == db.confirmations + 2 * Cardinality(MissedSlots(s)) - 1
           n == 3 * NumDelegates
<1>1. Cardinality(MissedSlots(s)) \in Int
  BY MissedFinite
<1>2. db.confirmations \in Int
  BY DEF Tables
<1>3. c \in Int
  BY <1>1, <1>2
<1>4. n \in Nat \ {0}
  BY DelegatesAssumption
<1>5. next_confirmations(s) = Max({1, Min({c, n})})
  BY DEF next_confirmations
<1> HIDE DEF c, n
<1>6. Min({c, n}) = IF c <= n THEN c ELSE n
  BY <1>3, <1>4 DEF Min
<1> DEFINE m == Min({c, n})
<1>7. m \in Int /\ m <= n
  BY <1>3, <1>4, <1>6
<1> HIDE DEF m
<1>8. Max({1, m}) = IF m <= 1 THEN 1 ELSE m
  BY <1>7 DEF Max
<1>9. Max({1, m}) \in 1..n
  BY <1>4, <1>7, <1>8
<1>10. QED BY <1>5, <1>9 DEF m, n

(***************************************************************************)
(* Every slot after the head block's, up to the block's own, is added to   *)
(* the counts of exactly one registered account.                           *)
(***************************************************************************)
LEMMA BeginCounts ==
  ASSUME Good(db), Listed(db), time \in Nat, NEW s \in Nat, s > time,
         HasSignee(s), \A m \in MissedSlots(s) : HasSignee(m),
         NEW k, k = [a \in Account |-> (IF a = get_slot_signee(s) THEN 1 ELSE 0)
                                       + blocks_missed(a, s)]
  PROVE  /\ \A a \in Account : k[a] \in Nat /\ blocks_missed(a, s) \in Nat
         /\ \A a \in Account : db.account[a] = Absent => k[a] = 0
         /\ SumOf(k, Account) = IF num = 0 THEN 1 ELSE s - time
<1> DEFINE M == MissedSlots(s)
           y == get_slot_signee(s)
           F == [m \in M |-> get_slot_signee(m)]
           p == [a \in Account |-> IF a = y THEN 1 ELSE 0]
           q == [a \in Account |-> Cardinality({m \in M : F[m] = a})]
<1>1. IsFiniteSet(M) /\ M \subseteq Nat /\ IsFiniteSet(Account)
  BY MissedFinite, FiniteAssumption
<1>2. y \in Registered(db.account) /\ \A m \in M : F[m] \in Registered(db.account)
  BY <1>1, SigneeListed DEF Good
<1>3. y \in Account /\ \A m \in M : F[m] \in Account
  BY <1>2 DEF Registered
<1>4. \A a \in Account : q[a] = blocks_missed(a, s)
  BY DEF blocks_missed
<1>5. Cardinality(M) = IF num = 0 THEN 0 ELSE s - time - 1
  BY MissedFinite
<1> HIDE DEF M, F
<1>6. ASSUME NEW a \in Account PROVE q[a] \in Nat
  <2>1. {m \in M : F[m] = a} \in SUBSET M
    OBVIOUS
  <2>2. IsFiniteSet({m \in M : F[m] = a})
    BY <1>1, <2>1, FS_Subset
  <2>3. QED BY <2>2, FS_CardinalityType
<1>7. ASSUME NEW a \in Account, db.account[a] = Absent PROVE p[a] = 0 /\ q[a] = 0
  <2>1. a # y /\ {m \in M : F[m] = a} = {}
    BY <1>2, <1>7 DEF Registered
  <2>2. QED BY <2>1, FS_EmptySet
<1>8. SumOf(q, Account) = Cardinality(M)
  <2>1. Counts(q, Account, F, M)
    BY <1>1, <1>3 DEF Counts
  <2> HIDE DEF p, q, y
  <2>2. QED BY <2>1, SumOfCounts
<1>9. SumOf(p, Account) = 1
  <2>1. \A a \in Account : p[a] \in Int
    OBVIOUS
  <2>2. p[y] = 1 /\ \A a \in Account \ {y} : p[a] = 0
    BY <1>3
  <2> HIDE DEF p, y
  <2>3. SumOf(p, Account) = p[y] + SumOf(p, Account \ {y})
    BY <1>1, <1>3, <2>1, SumAt
  <2>4. IsFiniteSet(Account \ {y})
    BY <1>1, FS_RemoveElement
  <2>5. SumOf(p, Account \ {y}) = 0
    <3> DEFINE R == Account \ {y}
    <3>1. IsFiniteSet(R) /\ \A a \in R : p[a] = 0
      BY <2>2, <2>4
    <3> HIDE DEF R
    <3>2. SumOf(p, R) = 0
      BY <3>1, SumZero
    <3>3. QED BY <3>2 DEF R
  <2>6. QED BY <2>2, <2>3, <2>5
<1>10. \A a \in Account : k[a] = p[a] + q[a]
  BY <1>4
<1>11. \A a \in Account : p[a] \in Int /\ q[a] \in Int
  BY <1>6
<1>a. \A a \in Account : p[a] \in Nat
  OBVIOUS
<1>12. ASSUME NEW a \in Account PROVE k[a] \in Nat /\ blocks_missed(a, s) \in Nat
  <2> HIDE DEF p, q
  <2>1. p[a] \in Nat /\ q[a] \in Nat /\ k[a] = p[a] + q[a]
    BY <1>6, <1>10, <1>a
  <2>2. QED BY <1>4, <2>1
<1>13. ASSUME NEW a \in Account, db.account[a] = Absent PROVE k[a] = 0
  <2> HIDE DEF p, q
  <2>1. p[a] = 0 /\ q[a] = 0 /\ k[a] = p[a] + q[a]
    BY <1>7, <1>10, <1>13
  <2>2. QED BY <2>1
<1>14. SumOf(k, Account) = SumOf(p, Account) + SumOf(q, Account)
  <2> HIDE DEF p, q
  <2>1. IsFiniteSet(Account)
    BY <1>1
  <2>2. QED BY <1>10, <1>11, <2>1, SumPlus
<1>15. SumOf(k, Account) = IF num = 0 THEN 1 ELSE s - time
  BY <1>5, <1>8, <1>9, <1>14
<1>16. QED BY <1>12, <1>13, <1>15

LEMMA BeginGood ==
  ASSUME Good(db), Listed(db), time \in Nat, NEW s \in Nat, s > time, BeginBlock(s)
  PROVE  /\ Good(pending') /\ pending'.active = db.active
         /\ Registered(pending'.account) = Registered(db.account)
         /\ Count(pending') = Count(db) + (IF num = 0 THEN 1 ELSE s - time)
<1> DEFINE y == get_slot_signee(s)
           acc == [a \in Account |-> IF db.account[a] = Absent THEN Absent ELSE
                     [db.account[a] EXCEPT
                        !.blocks_produced = @ + (IF a = y THEN 1 ELSE 0),
                        !.blocks_missed = @ + blocks_missed(a, s)]]
           k == [a \in Account |-> (IF a = y THEN 1 ELSE 0) + blocks_missed(a, s)]
           u == pending'
<1>1. db \in Tables /\ db.account \in [Account -> AccountEntry \union {Absent}]
  BY DEF Good, Tables
<1>2. u = [db EXCEPT !.account = acc, !.confirmations = next_confirmations(s)]
  BY DEF BeginBlock
<1>3. HasSignee(s) /\ \A m \in MissedSlots(s) : HasSignee(m)
  BY DEF BeginBlock
<1>4. /\ \A a \in Account : k[a] \in Nat /\ blocks_missed(a, s) \in Nat
      /\ \A a \in Account : db.account[a] = Absent => k[a] = 0
      /\ SumOf(k, Account) = IF num = 0 THEN 1 ELSE s - time
  <2>1. k = [a \in Account |-> (IF a = get_slot_signee(s) THEN 1 ELSE 0) + blocks_missed(a, s)]
    OBVIOUS
  <2> HIDE DEF k
  <2>2. QED BY <1>3, <2>1, BeginCounts
<1>5. ASSUME NEW a \in Account, db.account[a] # Absent
      PROVE  /\ acc[a] \in AccountEntry
             /\ acc[a].is_delegate = db.account[a].is_delegate
             /\ acc[a].votes_for = db.account[a].votes_for
             /\ acc[a].pay_balance = db.account[a].pay_balance
             /\ acc[a].blocks_produced + acc[a].blocks_missed
                  = (db.account[a].blocks_produced + db.account[a].blocks_missed) + k[a]
  <2> DEFINE o == db.account[a]
             p == IF a = y THEN 1 ELSE 0
             q == blocks_missed(a, s)
  <2>1. o \in AccountEntry /\ o.blocks_produced \in Nat /\ o.blocks_missed \in Nat
    BY <1>1, <1>5 DEF AccountEntry
  <2>2. p \in Nat /\ q \in Nat /\ k[a] = p + q
    BY <1>4
  <2>3. acc[a] = [o EXCEPT !.blocks_produced = @ + p, !.blocks_missed = @ + q]
    BY <1>5
  <2> HIDE DEF p, q, o, acc, k
  <2>4. o.blocks_produced + p \in Nat /\ o.blocks_missed + q \in Nat
    BY <2>1, <2>2
  <2>5. /\ acc[a] \in AccountEntry
        /\ acc[a].is_delegate = o.is_delegate /\ acc[a].votes_for = o.votes_for
        /\ acc[a].pay_balance = o.pay_balance
        /\ acc[a].blocks_produced = o.blocks_produced + p
        /\ acc[a].blocks_missed = o.blocks_missed + q
    BY <2>1, <2>3, <2>4 DEF AccountEntry
  <2>6. QED BY <2>1, <2>2, <2>5 DEF o
<1>6. \A a \in Account : db.account[a] = Absent => acc[a] = Absent
  OBVIOUS
<1>7. acc \in [Account -> AccountEntry \union {Absent}]
  <2>1. \A a \in Account : acc[a] \in AccountEntry \union {Absent}
    BY <1>5, <1>6
  <2>2. QED BY <2>1
<1> HIDE DEF acc, k
<1>8. next_confirmations(s) \in 1..(3 * NumDelegates)
  BY <1>1, ConfirmationsTyped
<1>9. /\ u \in Tables /\ u.balance = db.balance /\ u.fees = db.fees /\ u.supply = db.supply
      /\ u.active = db.active /\ u.account = acc
  <2> DEFINE nc == next_confirmations(s)
  <2> HIDE DEF nc
  <2>1. u = [db EXCEPT !.account = acc, !.confirmations = nc] /\ nc \in 1..(3 * NumDelegates)
    BY <1>2, <1>8 DEF nc
  <2> HIDE DEF u
  <2>2. QED BY <1>1, <1>7, <2>1 DEF Tables
<1> HIDE DEF u
<1>10. SameMoney(db, u)
  BY <1>5, <1>6, <1>9, AbsentAssumption DEF SameMoney
<1>11. Good(u) /\ Registered(u.account) = Registered(db.account)
  BY <1>10, SameMoneyGood
<1>12. Count(u) = Count(db) + (IF num = 0 THEN 1 ELSE s - time)
  <2> DEFINE f == Slots(db.account)
             h == Slots(u.account)
  <2>1. ASSUME NEW a \in Account PROVE h[a] = f[a] + k[a]
    <3>1. CASE db.account[a] = Absent
      <4>1. h[a] = 0 /\ f[a] = 0
        BY <1>6, <1>9, <3>1 DEF Slots
      <4>2. QED BY <1>4, <3>1, <4>1
    <3>2. CASE db.account[a] # Absent
      <4>1. acc[a] # Absent
        BY <1>5, <3>2, AbsentAssumption
      <4>2. /\ h[a] = acc[a].blocks_produced + acc[a].blocks_missed
            /\ f[a] = db.account[a].blocks_produced + db.account[a].blocks_missed
        BY <1>9, <3>2, <4>1 DEF Slots
      <4>3. QED BY <1>5, <3>2, <4>2
    <3>3. QED BY <3>1, <3>2
  <2>2. \A a \in Account : f[a] \in Int /\ k[a] \in Int
    BY <1>1, <1>4, PayTyped
  <2> HIDE DEF f, h
  <2>3. SumOf(h, Account) = SumOf(f, Account) + SumOf(k, Account)
    BY <2>1, <2>2, FiniteAssumption, SumPlus
  <2>4. QED BY <1>4, <2>3 DEF Count, f, h
<1>13. QED BY <1>9, <1>11, <1>12 DEF u

-----------------------------------------------------------------------------
(* A list of active delegates has accounts from the set of votes. *)
LEMMA RoundListed ==
  ASSUME NEW set, NEW A, A \subseteq Account, \A v \in set : v[2] \in A,
         NEW list, list \in SetToSeqs(next_round_active_delegates(set))
  PROVE  list \in Seq(Account) /\ \A i \in 1..Len(list) : list[i] \in A
<1> DEFINE S == next_round_active_delegates(set)
<1>1. S \subseteq A
  BY DEF next_round_active_delegates
<1>2. list \in [1..Cardinality(S) -> S]
  BY DEF SetToSeqs
<1> HIDE DEF S
<1>3. S \in SUBSET Account
  BY <1>1
<1>4. Cardinality(S) \in Nat
  BY <1>3, FiniteAssumption, FS_Subset, FS_CardinalityType
<1> DEFINE n == Cardinality(S)
<1> HIDE DEF n
<1>5. n \in Nat /\ list \in [1..n -> S]
  BY <1>2, <1>4 DEF n
<1>6. list \in Seq(S) /\ Len(list) = n
  BY <1>5
<1>7. QED BY <1>1, <1>3, <1>5, <1>6

LEMMA InitGood == Init => Good(db) /\ Listed(db) /\ Count(db) = 0
<1>1. SUFFICES ASSUME Init PROVE Good(db) /\ Listed(db) /\ Count(db) = 0
  OBVIOUS
<1> DEFINE e == NewAccount(TRUE, 100)
           acc == [a \in Account |-> IF a \in GenesisDelegates THEN e ELSE Absent]
           bal == [s \in Slates |-> IF s = {} THEN Genesis ELSE 0]
<1>2. PICK list \in SetToSeqs(next_round_active_delegates({<<0, a>> : a \in GenesisDelegates})) :
        db = [account |-> acc, balance |-> bal, fees |-> 0, supply |-> Genesis,
              confirmations |-> 3 * NumDelegates, active |-> list]
  BY <1>1 DEF Init
<1>3. /\ e \in AccountEntry /\ e # Absent /\ e.is_delegate /\ e.votes_for = 0
      /\ e.pay_balance = 0 /\ e.blocks_produced = 0 /\ e.blocks_missed = 0
  <2>1. e \in AccountEntry
    BY DelegatesAssumption DEF NewAccount, AccountEntry
  <2>2. QED BY <2>1, AbsentAssumption DEF NewAccount
<1> HIDE DEF e
<1>4. GenesisDelegates \subseteq Account
  BY DelegatesAssumption
<1>5. acc \in [Account -> AccountEntry \union {Absent}]
  BY <1>3
<1>6. Registered(acc) = GenesisDelegates /\ DelegatesOf(acc) = GenesisDelegates
  <2>1. Registered(acc) = GenesisDelegates
    BY <1>3, <1>4 DEF Registered
  <2>2. QED BY <1>3, <1>4, <2>1 DEF DelegatesOf
<1>7. bal \in [Slates -> Nat] /\ {} \in Slates
  BY PayAssumption, DelegatesAssumption
<1>8. list \in Seq(Account) /\ \A i \in 1..Len(list) : list[i] \in GenesisDelegates
  <2> DEFINE set == {<<0, a>> : a \in GenesisDelegates}
  <2>1. \A v \in set : v[2] \in GenesisDelegates
    OBVIOUS
  <2>2. list \in SetToSeqs(next_round_active_delegates(set))
    OBVIOUS
  <2> HIDE DEF set
  <2>3. QED BY <1>4, <2>1, <2>2, RoundListed
<1>9. 3 * NumDelegates \in 1..(3 * NumDelegates)
  BY DelegatesAssumption
<1>10. \A a \in Account : Pay(acc)[a] = 0 /\ Slots(acc)[a] = 0
  BY <1>3 DEF Pay, Slots
<1>11. bal[{}] = Genesis /\ \A s \in Slates \ {{}} : bal[s] = 0
  BY <1>7
<1> HIDE DEF acc, bal
<1>12. /\ db \in Tables /\ db.account = acc /\ db.balance = bal /\ db.fees = 0
       /\ db.supply = Genesis /\ db.active = list
  BY <1>2, <1>5, <1>7, <1>8, <1>9, PayAssumption DEF Tables
<1>13. SumOf(Pay(acc), Account) = 0 /\ SumOf(Slots(acc), Account) = 0
  BY <1>10, FiniteAssumption, SumZero
<1>14. SumOf(bal, Slates) = Genesis
  <2> DEFINE e0 == {}
             R == Slates \ {e0}
  <2>1. e0 \in Slates /\ \A s \in Slates : bal[s] \in Int
    BY <1>7
  <2>2. IsFiniteSet(R) /\ \A s \in R : bal[s] = 0
    BY <1>11, FiniteAssumption, FS_RemoveElement
  <2>3. bal[e0] = Genesis
    BY <1>11
  <2>4. SumOf(bal, Slates) = bal[e0] + SumOf(bal, Slates \ {e0})
    <3> HIDE DEF e0, R
    <3>1. QED BY <2>1, FiniteAssumption, SumAt
  <2>5. SumOf(bal, R) = 0
    <3> HIDE DEF R
    <3>1. QED BY <2>2, SumZero
  <2>6. QED BY <2>3, <2>4, <2>5, PayAssumption
<1>15. Backed(db)
  BY <1>12, <1>13, <1>14, PayAssumption DEF Backed
<1>16. ASSUME NEW a PROVE Stake(db, a) = 0
  <2> DEFINE S == Naming(a)
  <2>1. IsFiniteSet(S) /\ \A s \in S : bal[s] = 0
    <3>1. \A s \in S : s \in Slates \ {{}}
      BY DEF Naming
    <3>2. QED BY <1>11, <3>1, NamingFinite
  <2> HIDE DEF S
  <2>2. SumOf(bal, S) = 0
    BY <2>1, SumZero
  <2>3. QED BY <1>12, <2>2 DEF Stake, S
<1>17. \A a \in GenesisDelegates : acc[a] = e
  BY <1>4 DEF acc
<1>18. StakeVotes(db) /\ NoVotes(db)
  BY <1>3, <1>6, <1>12, <1>16, <1>17 DEF StakeVotes, NoVotes
<1>19. SlatesNameDelegates(db)
  <2>1. \A s \in Slates : s # {} => ~(bal[s] > 0)
    BY <1>11
  <2>2. QED BY <1>12, <2>1 DEF SlatesNameDelegates
<1>20. Listed(db) /\ Count(db) = 0
  BY <1>6, <1>8, <1>12, <1>13 DEF Listed, Count
<1>21. QED BY <1>12, <1>15, <1>18, <1>19, <1>20 DEF Good

LEMMA InitDel == Init => DelInv
<1>1. SUFFICES ASSUME Init PROVE DelInv
  OBVIOUS
<1>2. num = 0 /\ time = 0 /\ undo = <<>> /\ slot = 0 /\ ops = 0 /\ pending = db
  BY <1>1 DEF Init
<1>3. Good(db) /\ Listed(db) /\ Count(db) = 0
  BY <1>1, InitGood
<1>4. VoteSetMatches
  BY <1>1, InitVoteSet
<1>5. Len(undo) = 0 /\ undo \in Seq([tables : Tables, num : Nat, time : Nat])
  BY <1>2
<1>6. HeadInv
  BY <1>2, <1>3, <1>5, BoundsAssumption DEF HeadInv, SlotsTo
<1>7. UndoInv
  BY <1>5 DEF UndoInv
<1>8. PendingInv
  BY <1>2, <1>3, BoundsAssumption DEF PendingInv
<1>9. QED BY <1>4, <1>5, <1>6, <1>7, <1>8 DEF DelInv

-----------------------------------------------------------------------------
(* Every step keeps the invariant.  A step within a block leaves the head. *)
LEMMA HeadStays ==
  ASSUME DelInv, UNCHANGED <<db, votes, num, time, undo>>, PendingInv'
  PROVE  DelInv'
<1>1. HeadInv'
  BY DEF DelInv, HeadInv, SlotsTo, FirstTime
<1>2. UndoInv'
  BY DEF DelInv, UndoInv
<1>3. VoteSetMatches'
  BY DEF DelInv, VoteSetMatches, inserted_votes, Unretracted, DelegatesOf, Registered
<1>4. QED BY <1>1, <1>2, <1>3 DEF DelInv

LEMMA BeginStep ==
  ASSUME DelInv, NEW s \in (time + 1)..MaxTime, BeginBlock(s)
  PROVE  DelInv'
<1>1. Good(db) /\ Listed(db) /\ time \in Nat /\ num \in Nat /\ MaxTime \in Nat
  BY BoundsAssumption DEF DelInv, HeadInv
<1>2. s \in Nat /\ s > time /\ s # 0
  BY <1>1
<1>3. /\ Good(pending') /\ pending'.active = db.active
      /\ Registered(pending'.account) = Registered(db.account)
      /\ Count(pending') = Count(db) + (IF num = 0 THEN 1 ELSE s - time)
  BY <1>1, <1>2, BeginGood
<1>4. /\ slot' = s /\ ops' = 0 /\ HasSignee(s) /\ num < MaxBlocks
      /\ UNCHANGED <<db, votes, num, time, undo>>
  BY DEF BeginBlock
<1>5. HasSignee(slot)'
  BY <1>4 DEF HasSignee, delegate_pos
<1>6. PendingInv'
  BY <1>2, <1>3, <1>4, <1>5, BoundsAssumption DEF PendingInv
<1>7. QED BY <1>4, <1>6, HeadStays

LEMMA EvaluateStep ==
  ASSUME DelInv, NEW v, Good(v), Keeps(pending, v), Evaluate(v)
  PROVE  DelInv'
<1>1. /\ slot # 0 /\ ops < MaxOps /\ pending' = v /\ ops' = ops + 1 /\ slot' = slot
      /\ UNCHANGED <<db, votes, num, time, undo>>
  BY DEF Evaluate
<1>2. /\ v.active = pending.active /\ Registered(pending.account) \subseteq Registered(v.account)
      /\ Count(v) = Count(pending)
  BY DEF Keeps, Count
<1>3. PendingInv
  BY DEF DelInv
<1>4. HasSignee(slot)'
  BY <1>1, <1>3 DEF PendingInv, HasSignee, delegate_pos
<1>5. ops' \in 0..MaxOps
  BY <1>1, <1>3, BoundsAssumption DEF PendingInv
<1>6. PendingInv'
  BY <1>1, <1>2, <1>3, <1>4, <1>5 DEF PendingInv
<1>7. QED BY <1>1, <1>6, HeadStays

LEMMA DropStep == DelInv /\ DropBlock => DelInv'
<1>1. SUFFICES ASSUME DelInv, DropBlock PROVE DelInv'
  OBVIOUS
<1>2. PendingInv'
  BY <1>1, BoundsAssumption DEF DelInv, HeadInv, PendingInv, DropBlock
<1>3. QED BY <1>1, <1>2, HeadStays DEF DropBlock

(***************************************************************************)
(* A transaction of the block: the amounts that move are what the tables   *)
(* have, whoever evaluates.                                                *)
(***************************************************************************)
LEMMA OperationStep ==
  ASSUME DelInv,
         \/ \E from, to \in Slates, amount \in 1..MaxAmount :
              \E fee \in 0..(amount - 1) : Transfer(from, to, amount, fee)
         \/ \E a \in Account, rate \in Rates, delegate \in BOOLEAN, from \in Slates :
              \/ RegisterAccount(a, delegate, rate, from)
              \/ \E retract \in BOOLEAN : UpdateAccount(a, retract, delegate, rate, from)
         \/ \E a \in Account, amount \in 1..MaxAmount, to \in Slates :
              WithdrawPay(a, amount, to)
  PROVE  DelInv'
<1>1. Good(pending) /\ num \in Nat /\ MaxAmount \in Nat
  BY BoundsAssumption DEF DelInv, PendingInv, HeadInv
<1>2. ASSUME NEW from \in Slates, NEW to \in Slates, NEW amount \in 1..MaxAmount,
             NEW fee \in 0..(amount - 1), Transfer(from, to, amount, fee)
      PROVE  DelInv'
  <2> DEFINE v == deposit(withdraw(pending, from, amount), to, amount - fee)
  <2>1. /\ pending.balance[from] >= amount /\ to \subseteq DelegatesOf(pending.account)
        /\ fee < amount /\ Evaluate(v)
    BY <1>2 DEF Transfer
  <2>2. amount \in Nat /\ fee \in Nat
    BY <1>1
  <2>3. v = deposit(withdraw(pending, from, amount), to, amount - fee)
    OBVIOUS
  <2> HIDE DEF v
  <2>4. Good(v) /\ Keeps(pending, v)
    BY <1>1, <2>1, <2>2, <2>3, TransferGood
  <2>5. QED BY <2>1, <2>4, EvaluateStep
<1>3. ASSUME NEW a \in Account, NEW rate \in Rates, NEW delegate \in BOOLEAN,
             NEW from \in Slates, RegisterAccount(a, delegate, rate, from)
      PROVE  DelInv'
  <2> DEFINE fee == IF delegate THEN registration_fee(rate) ELSE 0
             v == withdraw([pending EXCEPT !.account[a] = NewAccount(delegate, rate)], from, fee)
  <2>1. /\ pending.account[a] = Absent /\ pending.balance[from] >= fee /\ Evaluate(v)
    BY <1>3 DEF RegisterAccount
  <2>2. fee \in Nat
    BY <1>1, FeeNat
  <2> HIDE DEF fee
  <2>3. v = withdraw([pending EXCEPT !.account[a] = NewAccount(delegate, rate)], from, fee)
    OBVIOUS
  <2> HIDE DEF v
  <2>4. Good(v) /\ Keeps(pending, v)
    BY <1>1, <2>1, <2>2, <2>3, RegisterGood
  <2>5. QED BY <2>1, <2>4, EvaluateStep
<1>4. ASSUME NEW a \in Account, NEW rate \in Rates, NEW delegate \in BOOLEAN,
             NEW from \in Slates, NEW retract \in BOOLEAN,
             UpdateAccount(a, retract, delegate, rate, from)
      PROVE  DelInv'
  <2> DEFINE fee == IF delegate /\ ~pending.account[a].is_delegate
                    THEN registration_fee(rate) ELSE 0
             v == withdraw([pending EXCEPT !.account[a] =
                    [pending.account[a] EXCEPT !.is_retracted = retract, !.is_delegate = delegate,
                       !.pay_rate = IF delegate THEN rate ELSE @]], from, fee)
  <2>1. /\ pending.account[a] # Absent
        /\ pending.account[a].is_delegate => delegate
        /\ pending.balance[from] >= fee /\ Evaluate(v)
    BY <1>4 DEF UpdateAccount
  <2>2. fee \in Nat
    BY <1>1, FeeNat
  <2> HIDE DEF fee
  <2>3. v = withdraw([pending EXCEPT !.account[a] =
              [pending.account[a] EXCEPT !.is_retracted = retract, !.is_delegate = delegate,
                 !.pay_rate = IF delegate THEN rate ELSE @]], from, fee)
    OBVIOUS
  <2> HIDE DEF v
  <2>4. Good(v) /\ Keeps(pending, v)
    BY <1>1, <2>1, <2>2, <2>3, UpdateGood
  <2>5. QED BY <2>1, <2>4, EvaluateStep
<1>5. ASSUME NEW a \in Account, NEW amount \in 1..MaxAmount, NEW to \in Slates,
             WithdrawPay(a, amount, to)
      PROVE  DelInv'
  <2> DEFINE v == deposit(
               [pending EXCEPT !.account[a] = [pending.account[a] EXCEPT
                                                 !.pay_balance = @ - amount,
                                                 !.votes_for = @ - amount],
                               !.fees = @ + amount], to, amount)
  <2>1. /\ pending.account[a] # Absent /\ pending.account[a].is_delegate
        /\ pending.account[a].pay_balance >= amount
        /\ to \subseteq DelegatesOf(pending.account) /\ Evaluate(v)
    BY <1>5 DEF WithdrawPay
  <2>2. amount \in Nat
    BY <1>1
  <2>3. v = deposit(
              [pending EXCEPT !.account[a] = [pending.account[a] EXCEPT
                                                !.pay_balance = @ - amount,
                                                !.votes_for = @ - amount],
                              !.fees = @ + amount], to, amount)
    OBVIOUS
  <2> HIDE DEF v
  <2>4. Good(v) /\ Keeps(pending, v)
    BY <1>1, <2>1, <2>2, <2>3, WithdrawPayGood
  <2>5. QED BY <2>1, <2>4, EvaluateStep
<1>6. QED BY <1>2, <1>3, <1>4, <1>5

(***************************************************************************)
(* EndBlock: the block's tables become the head's, the old head's the undo *)
(* state.                                                                  *)
(***************************************************************************)
LEMMA EndStep == DelInv /\ EndBlock => DelInv'
<1>1. SUFFICES ASSUME DelInv, EndBlock PROVE DelInv'
  OBVIOUS
<1> DEFINE y == get_slot_signee(slot)
           n == Len(undo)
           r == [tables |-> db, num |-> num, time |-> time]
           Rec == [tables : Tables, num : Nat, time : Nat]
<1>2. /\ Good(db) /\ Listed(db) /\ Count(db) = SlotsTo(num, time)
      /\ num = n /\ num \in Nat /\ time \in Nat /\ db \in Tables
  BY <1>1 DEF DelInv, HeadInv, Good
<1>3. /\ Good(pending) /\ slot \in Nat /\ slot # 0 /\ num < MaxBlocks /\ time < slot
      /\ pending.active = db.active /\ Registered(db.account) \subseteq Registered(pending.account)
      /\ Count(pending) = Count(db) + (IF num = 0 THEN 1 ELSE slot - time)
  BY <1>1 DEF DelInv, PendingInv, EndBlock
<1>4. PICK list \in next_active : db' = [pay_delegate(pending, y) EXCEPT !.active = list]
  BY <1>1 DEF EndBlock
<1>5. /\ y \in DelegatesOf(pending.account) /\ undo' = Append(undo, r)
      /\ votes' = apply_votes(db.account, db'.account)
      /\ num' = num + 1 /\ time' = slot /\ slot' = 0 /\ ops' = 0 /\ pending' = db'
  BY <1>1 DEF EndBlock
<1>6. list \in Seq(Account) /\ \A i \in 1..Len(list) : list[i] \in Registered(db.account)
  <2>1. CASE (num + 1) % NumDelegates # 0
    <3>1. list = db.active
      BY <1>4, <2>1 DEF next_active
    <3>2. QED BY <1>2, <3>1 DEF Tables, Listed
  <2>2. CASE (num + 1) % NumDelegates = 0
    <3>1. list \in SetToSeqs(next_round_active_delegates(votes))
      BY <1>4, <2>2 DEF next_active
    <3>2. \A v \in votes : v[2] \in Registered(db.account)
      BY <1>1 DEF DelInv, VoteSetMatches, inserted_votes, Unretracted, DelegatesOf
    <3>3. Registered(db.account) \subseteq Account
      BY DEF Registered
    <3>4. QED BY <3>1, <3>2, <3>3, RoundListed
  <2>3. QED BY <2>1, <2>2
<1>7. /\ Good(db') /\ db'.active = list /\ Slots(db'.account) = Slots(pending.account)
      /\ Registered(db'.account) = Registered(pending.account)
  <2> DEFINE v == db'
  <2>1. v = Paid(pending, y, list) /\ list \in Seq(Account)
    BY <1>4, <1>6 DEF Paid
  <2> HIDE DEF v, y
  <2>2. num \in Nat /\ Good(pending) /\ y \in DelegatesOf(pending.account)
    BY <1>2, <1>3, <1>5
  <2>3. /\ Good(v) /\ v.active = list /\ Slots(v.account) = Slots(pending.account)
        /\ Registered(v.account) = Registered(pending.account)
    BY <2>1, <2>2, PayGood
  <2>4. QED BY <2>3 DEF v
<1>8. Listed(db')
  BY <1>3, <1>6, <1>7 DEF Listed
<1>9. r \in Rec /\ undo \in Seq(Rec) /\ n \in Nat
  BY <1>1, <1>2 DEF DelInv
<1>10. /\ undo' \in Seq(Rec) /\ Len(undo') = n + 1 /\ undo'[n + 1] = r
       /\ \A i \in 1..n : undo'[i] = undo[i]
  <2> HIDE DEF r, Rec
  <2>1. QED BY <1>5, <1>9
<1>11. Count(db') = Count(db) + (IF num = 0 THEN 1 ELSE slot - time)
  BY <1>3, <1>7 DEF Count
<1> HIDE DEF n
<1>12. HeadInv'
  <2>1. Count(db') = IF n + 1 < 2 THEN 1 ELSE slot - undo'[2].time + 1
    <3>1. CASE n = 0
      BY <1>2, <1>11, <3>1 DEF SlotsTo
    <3>2. CASE n = 1
      <4>1. undo'[2].time = time
        BY <1>10, <3>2
      <4>2. Count(db) = 1
        BY <1>2, <3>2 DEF SlotsTo, FirstTime, n
      <4>3. QED BY <1>2, <1>3, <1>11, <3>2, <4>1, <4>2
    <3>3. CASE n >= 2
      <4>1. undo'[2].time = undo[2].time /\ undo[2].time \in Nat
        <5>1. 2 \in 1..n
          BY <1>9, <3>3
        <5>2. \A i \in 1..n : undo[i].time \in Nat
          BY <1>1 DEF DelInv, UndoInv, n
        <5>3. QED BY <1>10, <5>1, <5>2
      <4>2. Count(db) = time - undo[2].time + 1
        BY <1>2, <1>9, <3>3 DEF SlotsTo, FirstTime, n
      <4>3. Count(db') = Count(db) + (slot - time) /\ ~(n + 1 < 2)
        BY <1>2, <1>9, <1>11, <3>3
      <4>4. QED BY <1>2, <1>3, <4>1, <4>2, <4>3
    <3>4. QED BY <1>9, <3>1, <3>2, <3>3
  <2>2. Count(db') = SlotsTo(num, time)'
    BY <1>2, <1>3, <1>5, <1>9, <1>10, <2>1 DEF SlotsTo, FirstTime
  <2>3. num' = Len(undo') /\ num' \in 0..MaxBlocks /\ time' \in Nat
    BY <1>2, <1>3, <1>5, <1>10, BoundsAssumption
  <2>4. QED BY <1>7, <1>8, <2>2, <2>3 DEF HeadInv
<1>13. UndoInv'
  <2>1. SUFFICES ASSUME NEW i \in 1..(n + 1)
                 PROVE  /\ Good(undo'[i].tables) /\ Listed(undo'[i].tables)
                        /\ undo'[i].num = i - 1 /\ undo'[i].time \in Nat
                        /\ Count(undo'[i].tables) =
                             IF i = 1 THEN 0 ELSE undo'[i].time - undo'[2].time + 1
    BY <1>10 DEF UndoInv
  <2>2. CASE i \in 1..n
    <3>1. undo'[i] = undo[i] /\ (i # 1 => undo'[2] = undo[2])
      BY <1>9, <1>10, <2>2
    <3>2. QED BY <1>1, <2>2, <3>1 DEF DelInv, UndoInv, n
  <2>3. CASE i = n + 1
    <3>1. undo'[i].tables = db /\ undo'[i].num = num /\ undo'[i].time = time
      BY <1>10, <2>3
    <3>2. Count(db) = IF i = 1 THEN 0 ELSE time - undo'[2].time + 1
      <4>1. CASE n = 0
        BY <1>2, <2>3, <4>1 DEF SlotsTo
      <4>2. CASE n = 1
        <5>1. undo'[2].time = time
          BY <1>10, <4>2
        <5>2. Count(db) = 1
          BY <1>2, <4>2 DEF SlotsTo, FirstTime, n
        <5>3. QED BY <1>2, <2>3, <4>2, <5>1, <5>2
      <4>3. CASE n >= 2
        <5>1. undo'[2].time = undo[2].time
          BY <1>9, <1>10, <4>3
        <5>2. Count(db) = time - undo[2].time + 1
          BY <1>2, <1>9, <4>3 DEF SlotsTo, FirstTime, n
        <5>3. QED BY <1>9, <2>3, <4>3, <5>1, <5>2
      <4>4. QED BY <1>9, <4>1, <4>2, <4>3
    <3>3. QED BY <1>2, <1>9, <2>3, <3>1, <3>2
  <2>4. QED BY <1>9, <2>2, <2>3
<1>14. PendingInv'
  BY <1>5, <1>7, BoundsAssumption DEF PendingInv
<1>15. VoteSetMatches'
  <2>1. VoteSetMatches /\ [Next]_vars
    BY <1>1 DEF DelInv, Next
  <2>2. QED BY <2>1, NextVoteSet
<1>16. QED BY <1>10, <1>12, <1>13, <1>14, <1>15 DEF DelInv

(* PopBlock: the last undo state becomes the head again. *)
LEMMA PopStep == DelInv /\ PopBlock => DelInv'
<1>1. SUFFICES ASSUME DelInv, PopBlock PROVE DelInv'
  OBVIOUS
<1> DEFINE n == Len(undo)
           Rec == [tables : Tables, num : Nat, time : Nat]
           top == undo[n]
<1>2. undo \in Seq(Rec) /\ undo # <<>>
  BY <1>1 DEF DelInv, PopBlock
<1>3. n \in Nat /\ n >= 1
  <2> HIDE DEF Rec
  <2>1. QED BY <1>2
<1>4. /\ db' = top.tables /\ num' = top.num /\ time' = top.time /\ pending' = db'
      /\ undo' = SubSeq(undo, 1, n - 1) /\ slot' = slot /\ ops' = ops /\ slot = 0
  BY <1>1 DEF PopBlock
<1>5. /\ Len(undo') = n - 1 /\ undo' \in Seq(Rec)
      /\ \A i \in 1..(n - 1) : undo'[i] = undo[i]
  <2> DEFINE m == n - 1
  <2>1. m \in Nat /\ m <= Len(undo) /\ undo' = SubSeq(undo, 1, m)
    BY <1>3, <1>4
  <2> HIDE DEF Rec, m
  <2>2. Len(undo') = m /\ undo' \in Seq(Rec) /\ \A i \in 1..m : undo'[i] = undo[i]
    BY <1>2, <2>1
  <2>3. QED BY <2>2 DEF m
<1>6. \A i \in 1..n :
        /\ Good(undo[i].tables) /\ Listed(undo[i].tables)
        /\ undo[i].num = i - 1 /\ undo[i].time \in Nat
        /\ Count(undo[i].tables) = IF i = 1 THEN 0 ELSE undo[i].time - undo[2].time + 1
  BY <1>1 DEF DelInv, UndoInv
<1> HIDE DEF n, Rec
<1>7. /\ Good(top.tables) /\ Listed(top.tables) /\ top.num = n - 1 /\ top.time \in Nat
      /\ Count(top.tables) = IF n = 1 THEN 0 ELSE top.time - undo[2].time + 1
  BY <1>3, <1>6
<1>8. num = n /\ num \in 0..MaxBlocks
  BY <1>1 DEF DelInv, HeadInv, n
<1>9. HeadInv'
  <2>1. Count(db') = SlotsTo(num, time)'
    <3>1. CASE n = 1
      BY <1>4, <1>7, <3>1 DEF SlotsTo
    <3>2. CASE n = 2
      <4>1. Count(db') = 1
        BY <1>4, <1>7, <3>2
      <4>2. num' = 1 /\ Len(undo') < 2 /\ time' \in Nat
        BY <1>4, <1>5, <1>7, <3>2
      <4>a. time' - time' + 1 = 1
        <5>1. \A x \in Nat : x - x + 1 = 1
          OBVIOUS
        <5>2. time' \in Nat
          BY <4>2
        <5>3. QED BY <5>1, <5>2
      <4>3. FirstTime(time)' = time' /\ time' - time' + 1 = 1
        BY <4>2, <4>a DEF FirstTime
      <4>4. SlotsTo(num, time)' = time' - FirstTime(time)' + 1
        BY <4>2 DEF SlotsTo, FirstTime
      <4>5. QED BY <4>1, <4>3, <4>4
    <3>3. CASE n > 2
      <4>1. num' # 0 /\ ~(Len(undo') < 2) /\ undo'[2] = undo[2]
        BY <1>3, <1>4, <1>5, <1>7, <3>3
      <4>2. Count(db') = time' - undo[2].time + 1
        BY <1>4, <1>7, <3>3
      <4>3. QED BY <4>1, <4>2 DEF SlotsTo, FirstTime
    <3>4. QED BY <1>3, <3>1, <3>2, <3>3
  <2>2. num' = Len(undo') /\ num' \in 0..MaxBlocks
    BY <1>3, <1>4, <1>5, <1>7, <1>8, BoundsAssumption
  <2>3. QED BY <1>4, <1>7, <2>1, <2>2 DEF HeadInv
<1>10. UndoInv'
  <2>1. SUFFICES ASSUME NEW i \in 1..(n - 1)
                 PROVE  /\ Good(undo'[i].tables) /\ Listed(undo'[i].tables)
                        /\ undo'[i].num = i - 1 /\ undo'[i].time \in Nat
                        /\ Count(undo'[i].tables) =
                             IF i = 1 THEN 0 ELSE undo'[i].time - undo'[2].time + 1
    BY <1>5 DEF UndoInv
  <2>2. i \in 1..n /\ undo'[i] = undo[i] /\ (i # 1 => undo'[2] = undo[2])
    BY <1>3, <1>5
  <2>3. QED BY <1>6, <2>2
<1>11. PendingInv'
  BY <1>1, <1>4, <1>7, BoundsAssumption DEF DelInv, PendingInv
<1>12. VoteSetMatches'
  <2>1. VoteSetMatches /\ [Next]_vars
    BY <1>1 DEF DelInv, Next
  <2>2. QED BY <2>1, NextVoteSet
<1>13. QED BY <1>5, <1>9, <1>10, <1>11, <1>12 DEF DelInv, Rec

LEMMA NextDel == DelInv /\ [Next]_vars => DelInv'
<1>1. SUFFICES ASSUME DelInv, [Next]_vars PROVE DelInv'
  OBVIOUS
<1>2. CASE \E s \in (time + 1)..MaxTime : BeginBlock(s)
  BY <1>1, <1>2, BeginStep
<1>3. CASE EndBlock
  BY <1>1, <1>3, EndStep
<1>4. CASE DropBlock
  BY <1>1, <1>4, DropStep
<1>5. CASE PopBlock
  BY <1>1, <1>5, PopStep
<1>6. CASE UNCHANGED vars
  <2>1. PendingInv'
    BY <1>1, <1>6 DEF vars, DelInv, PendingInv, HasSignee, delegate_pos
  <2>2. QED BY <1>1, <1>6, <2>1, HeadStays DEF vars
<1>7. QED BY <1>1, <1>2, <1>3, <1>4, <1>5, <1>6, OperationStep DEF Next

LEMMA SpecDel == Spec => []DelInv
<1>1. QED BY InitDel, NextDel, PTL DEF Spec

-----------------------------------------------------------------------------
(* The sums of the properties are sums over registered accounts. *)
LEMMA RegisteredSum ==
  ASSUME NEW t \in Tables, NEW f, \A a \in Account : f[a] \in Nat,
         \A a \in Account : t.account[a] = Absent => f[a] = 0
  PROVE  SumOf(f, Registered(t.account)) = SumOf(f, Account)
<1> DEFINE R == Registered(t.account)
<1>1. R \in SUBSET Account /\ \A a \in Account \ R : f[a] = 0
  BY DEF Registered
<1>2. \A a \in Account : f[a] \in Int
  OBVIOUS
<1> HIDE DEF R
<1>3. SumOf(f, Account) = SumOf(f, R)
  BY <1>1, <1>2, FiniteAssumption, SumWithin
<1>4. QED BY <1>3 DEF R

RawPay(g, account) ==
  g = [s \in SUBSET Registered(account) |->
         IF s = {} THEN 0 ELSE account[CHOOSE x \in s : TRUE].pay_balance
                               + g[s \ {CHOOSE x \in s : TRUE}]]
RawSlots(g, account) ==
  g = [s \in SUBSET Registered(account) |->
         IF s = {} THEN 0 ELSE (account[CHOOSE x \in s : TRUE].blocks_produced
                                + account[CHOOSE x \in s : TRUE].blocks_missed)
                               + g[s \ {CHOOSE x \in s : TRUE}]]

LEMMA PaySum ==
  ASSUME NEW t \in Tables
  PROVE  (CHOOSE g : RawPay(g, t.account))[Registered(t.account)]
           = SumOf(Pay(t.account), Account)
<1> DEFINE f == Pay(t.account)
           R == Registered(t.account)
<1>1. IsFiniteSet(R)
  <2>1. R \in SUBSET Account
    BY DEF Registered
  <2>2. QED BY <2>1, FiniteAssumption, FS_Subset
<1>2. ASSUME NEW g PROVE RawPay(g, t.account) <=> Sums(g, f, R)
  <2>1. \A s \in SUBSET R : s # {} => Pick(s) \in R
    BY PickIn
  <2>2. \A s \in SUBSET R : s # {} => f[Pick(s)] = t.account[Pick(s)].pay_balance
    BY <2>1 DEF Pay, Registered
  <2> HIDE DEF f, R
  <2>3. [s \in SUBSET R |-> IF s = {} THEN 0 ELSE t.account[Pick(s)].pay_balance + g[s \ {Pick(s)}]]
        = [s \in SUBSET R |-> IF s = {} THEN 0 ELSE f[Pick(s)] + g[s \ {Pick(s)}]]
    BY <2>2
  <2>4. QED BY <2>3 DEF Sums, Pick, RawPay, R
<1>3. SumOf(f, R) = SumOf(f, Account)
  <2>1. /\ \A a \in Account : f[a] \in Nat
        /\ \A a \in Account : t.account[a] = Absent => f[a] = 0
    BY PayTyped DEF Pay
  <2> HIDE DEF f
  <2>2. QED BY <2>1, RegisteredSum
<1> HIDE DEF f, R
<1>4. PICK h : Sums(h, f, R)
  BY <1>1, SumsExists
<1>5. RawPay(CHOOSE g : RawPay(g, t.account), t.account)
  <2>1. RawPay(h, t.account)
    BY <1>2, <1>4
  <2>2. QED BY <2>1
<1>6. Sums(CHOOSE g : RawPay(g, t.account), f, R)
  BY <1>2, <1>5
<1>7. (CHOOSE g : RawPay(g, t.account))[R] = SumOf(f, R)
  BY <1>1, <1>6, SumOfSums
<1>8. QED BY <1>3, <1>7 DEF f, R

LEMMA SlotsSum ==
  ASSUME NEW t \in Tables
  PROVE  (CHOOSE g : RawSlots(g, t.account))[Registered(t.account)]
           = SumOf(Slots(t.account), Account)
<1> DEFINE f == Slots(t.account)
           R == Registered(t.account)
<1>1. IsFiniteSet(R)
  <2>1. R \in SUBSET Account
    BY DEF Registered
  <2>2. QED BY <2>1, FiniteAssumption, FS_Subset
<1>2. ASSUME NEW g PROVE RawSlots(g, t.account) <=> Sums(g, f, R)
  <2>1. \A s \in SUBSET R : s # {} => Pick(s) \in R
    BY PickIn
  <2>2. \A s \in SUBSET R : s # {} =>
          f[Pick(s)] = t.account[Pick(s)].blocks_produced + t.account[Pick(s)].blocks_missed
    BY <2>1 DEF Slots, Registered
  <2> HIDE DEF f, R
  <2>3. [s \in SUBSET R |->
           IF s = {} THEN 0 ELSE (t.account[Pick(s)].blocks_produced
                                  + t.account[Pick(s)].blocks_missed) + g[s \ {Pick(s)}]]
        = [s \in SUBSET R |-> IF s = {} THEN 0 ELSE f[Pick(s)] + g[s \ {Pick(s)}]]
    BY <2>2
  <2>4. QED BY <2>3 DEF Sums, Pick, RawSlots, R
<1>3. SumOf(f, R) = SumOf(f, Account)
  <2>1. /\ \A a \in Account : f[a] \in Nat
        /\ \A a \in Account : t.account[a] = Absent => f[a] = 0
    BY PayTyped DEF Slots
  <2> HIDE DEF f
  <2>2. QED BY <2>1, RegisteredSum
<1> HIDE DEF f, R
<1>4. PICK h : Sums(h, f, R)
  BY <1>1, SumsExists
<1>5. RawSlots(CHOOSE g : RawSlots(g, t.account), t.account)
  <2>1. RawSlots(h, t.account)
    BY <1>2, <1>4
  <2>2. QED BY <2>1
<1>6. Sums(CHOOSE g : RawSlots(g, t.account), f, R)
  BY <1>2, <1>5
<1>7. (CHOOSE g : RawSlots(g, t.account))[R] = SumOf(f, R)
  BY <1>1, <1>6, SumOfSums
<1>8. QED BY <1>3, <1>7 DEF f, R

-----------------------------------------------------------------------------
(***************************************************************************)
(* No balance, vote, pay or fee turns negative, the required confirmations *)
(* stay within their range, and there is an undo state for every block.    *)
(***************************************************************************)
THEOREM DelegatesTyped == Spec => []TypeOK
<1>1. ASSUME DelInv PROVE TypeOK
  <2>1. db \in Tables /\ pending \in Tables
    BY <1>1 DEF DelInv, HeadInv, PendingInv, Good
  <2>2. votes \in SUBSET (Nat \X Account)
    <3>1. \A a \in Unretracted(db.account) : a \in Account /\ db.account[a].votes_for \in Nat
      BY <2>1 DEF Unretracted, DelegatesOf, Registered, Tables, AccountEntry
    <3>2. QED BY <1>1, <3>1 DEF DelInv, VoteSetMatches, inserted_votes
  <2>3. QED BY <1>1, <2>1, <2>2 DEF DelInv, HeadInv, PendingInv, TypeOK
<1>2. QED BY <1>1, SpecDel, PTL

(***************************************************************************)
(* Whatever is transferred, registered, withdrawn, issued, paid and        *)
(* destroyed, applied or popped, the supply on record is what balances,    *)
(* collected fees and unpaid pay add up to (pay_delegate and the fees of   *)
(* post_evaluate).                                                         *)
(***************************************************************************)
THEOREM IssueBacked == Spec => []SupplyConserved
<1>1. ASSUME DelInv PROVE SupplyConserved
  <2>1. pending \in Tables /\ Backed(pending)
    BY <1>1 DEF DelInv, PendingInv, Good
  <2>2. MapThenSumSet(LAMBDA s : pending.balance[s], Slates) = SumOf(pending.balance, Slates)
    BY DEF MapThenSumSet, MapThenFoldSet, SumOf, Sums, Pick
  <2>3. MapThenSumSet(LAMBDA a : pending.account[a].pay_balance, Registered(pending.account))
          = (CHOOSE g : RawPay(g, pending.account))[Registered(pending.account)]
    BY DEF MapThenSumSet, MapThenFoldSet, RawPay
  <2>4. (CHOOSE g : RawPay(g, pending.account))[Registered(pending.account)]
          = SumOf(Pay(pending.account), Account)
    BY <2>1, PaySum
  <2>5. QED BY <2>1, <2>2, <2>3, <2>4 DEF SupplyConserved, Backed
<1>2. QED BY <1>1, SpecDel, PTL

(***************************************************************************)
(* The votes for a delegate are the money on the slates that name it and   *)
(* its unpaid pay, for any slates, amounts, rates and pay schedule.        *)
(***************************************************************************)
THEOREM VotesAreStake == Spec => []VotesFollowStake
<1>1. ASSUME DelInv PROVE VotesFollowStake
  <2>1. SUFFICES ASSUME NEW a \in DelegatesOf(pending.account)
                 PROVE  pending.account[a].votes_for =
                          MapThenSumSet(LAMBDA s : pending.balance[s], {s \in Slates : a \in s})
                          + pending.account[a].pay_balance
    BY DEF VotesFollowStake
  <2>2. MapThenSumSet(LAMBDA s : pending.balance[s], {s \in Slates : a \in s}) = Stake(pending, a)
    BY DEF MapThenSumSet, MapThenFoldSet, SumOf, Sums, Pick, Stake, Naming
  <2>3. StakeVotes(pending)
    BY <1>1 DEF DelInv, PendingInv, Good
  <2>4. QED BY <2>2, <2>3 DEF StakeVotes
<1>2. QED BY <1>1, SpecDel, PTL

(***************************************************************************)
(* Every slot since the first block is counted once, produced or missed,   *)
(* after any blocks, dropped blocks and pops                               *)
(* (update_delegate_production_info).                                      *)
(***************************************************************************)
THEOREM EverySlotCounted == Spec => []SlotsCounted
<1>1. ASSUME DelInv PROVE SlotsCounted
  <2>1. db \in Tables /\ Count(db) = SlotsTo(num, time) /\ num = Len(undo)
    BY <1>1 DEF DelInv, HeadInv, Good
  <2>2. MapThenSumSet(LAMBDA a : db.account[a].blocks_produced + db.account[a].blocks_missed,
                      Registered(db.account))
          = (CHOOSE g : RawSlots(g, db.account))[Registered(db.account)]
    BY DEF MapThenSumSet, MapThenFoldSet, RawSlots
  <2>3. (CHOOSE g : RawSlots(g, db.account))[Registered(db.account)] = Count(db)
    BY <2>1, SlotsSum DEF Count
  <2>4. QED BY <2>1, <2>2, <2>3 DEF SlotsCounted, SlotsTo, FirstTime
<1>2. QED BY <1>1, SpecDel, PTL

-----------------------------------------------------------------------------
(* The order of the vote is strict and total, *)
Pairs == Nat \X Account

LEMMA BeforeOrder ==
  ASSUME NEW u \in Pairs, NEW v \in Pairs, NEW w \in Pairs
  PROVE  /\ ~before(u, u)
         /\ before(u, v) => ~before(v, u)
         /\ before(u, v) /\ before(v, w) => before(u, w)
         /\ u # v => before(u, v) \/ before(v, u)
<1>1. /\ u[1] \in Nat /\ v[1] \in Nat /\ w[1] \in Nat
      /\ u[2] \in Nat /\ v[2] \in Nat /\ w[2] \in Nat
  BY AccountAssumption DEF Pairs
<1>2. u # v => u[1] # v[1] \/ u[2] # v[2]
  BY DEF Pairs
<1>3. QED BY <1>1, <1>2 DEF before

(* so a finite set of votes has a last one, *)
LEMMA LastVote ==
  ASSUME NEW T, IsFiniteSet(T), T \subseteq Pairs, T # {}
  PROVE  \E z \in T : \A w \in T \ {z} : before(w, z) /\ ~before(z, w)
<1> DEFINE After(w) == {u \in T : before(w, u)}
           All == {After(w) : w \in T}
<1>1. All \subseteq SUBSET T /\ All # {}
  OBVIOUS
<1>2. PICK s \in All : \A r \in All : r \subseteq s => r = s
  <2> HIDE DEF All
  <2>1. QED BY <1>1, SmallestSubset
<1>3. PICK z \in T : s = After(z)
  BY <1>2
<1>4. After(z) = {}
  <2>1. SUFFICES ASSUME NEW u \in After(z) PROVE FALSE
    OBVIOUS
  <2>2. u \in T /\ before(z, u) /\ u \in Pairs /\ z \in Pairs
    OBVIOUS
  <2>3. After(u) \subseteq After(z)
    <3>1. SUFFICES ASSUME NEW x \in T, before(u, x) PROVE before(z, x)
      OBVIOUS
    <3>2. x \in Pairs
      OBVIOUS
    <3>3. QED BY <2>2, <3>1, <3>2, BeforeOrder
  <2>4. After(u) = After(z)
    BY <1>2, <1>3, <2>2, <2>3
  <2>5. ~before(u, u)
    BY <2>2, BeforeOrder
  <2>6. QED BY <2>1, <2>4, <2>5
<1>5. ASSUME NEW w \in T \ {z} PROVE before(w, z) /\ ~before(z, w)
  <2>1. w \in Pairs /\ z \in Pairs /\ ~before(z, w)
    BY <1>4
  <2>2. QED BY <2>1, BeforeOrder
<1>6. QED BY <1>5

(* and the first NumDelegates of them are that many, if there are. *)
Rank(T, w) == Cardinality({u \in T : before(u, w)})
Top(T) == {w \in T : Rank(T, w) < NumDelegates}
Least(n) == IF n <= NumDelegates THEN n ELSE NumDelegates

LEMMA TopStep ==
  ASSUME NEW t, IsFiniteSet(t), t \subseteq Pairs, NEW z \in t,
         \A w \in t \ {z} : before(w, z) /\ ~before(z, w)
  PROVE  /\ Rank(t, z) = Cardinality(t \ {z})
         /\ \A w \in t \ {z} : Rank(t, w) = Rank(t \ {z}, w)
<1> DEFINE R == t \ {z}
<1>1. ~before(z, z)
  <2>1. z \in Pairs
    OBVIOUS
  <2>2. QED BY <2>1, BeforeOrder
<1>2. {u \in t : before(u, z)} = R
  BY <1>1
<1>3. ASSUME NEW w \in R PROVE {u \in t : before(u, w)} = {u \in R : before(u, w)}
  OBVIOUS
<1>4. QED BY <1>2, <1>3 DEF Rank

LEMMA TopCardinality ==
  ASSUME NEW set, IsFiniteSet(set), set \subseteq Pairs
  PROVE  Cardinality(Top(set)) = Least(Cardinality(set))
<1> DEFINE Bad == {s \in SUBSET set : Cardinality(Top(s)) # Least(Cardinality(s))}
<1>n. NumDelegates \in Nat \ {0}
  BY DelegatesAssumption
<1>1. ASSUME Bad # {} PROVE FALSE
  <2>1. PICK t \in Bad : \A u \in Bad : u \subseteq t => u = t
    <3>1. Bad \subseteq SUBSET set
      OBVIOUS
    <3> HIDE DEF Bad
    <3>2. QED BY <1>1, <3>1, SmallestSubset
  <2>2. IsFiniteSet(t) /\ t \subseteq Pairs /\ t \in SUBSET set
    <3>1. t \in SUBSET set
      BY <2>1
    <3>2. QED BY <3>1, FS_Subset
  <2>3. t # {}
    <3>1. Cardinality({}) = 0
      BY FS_EmptySet
    <3>2. Top({}) = {}
      BY DEF Top
    <3>3. Least(0) = 0
      BY <1>n DEF Least
    <3>4. QED BY <2>1, <3>1, <3>2, <3>3
  <2>4. PICK z \in t : \A w \in t \ {z} : before(w, z) /\ ~before(z, w)
    BY <2>2, <2>3, LastVote
  <2> DEFINE R == t \ {z}
             c == Cardinality(R)
  <2>5. /\ IsFiniteSet(R) /\ Cardinality(t) = c + 1 /\ c \in Nat
    <3>1. IsFiniteSet(R) /\ Cardinality(R) = Cardinality(t) - 1
      BY <2>2, <2>4, FS_RemoveElement
    <3>2. Cardinality(t) \in Nat /\ Cardinality(R) \in Nat
      BY <2>2, <3>1, FS_CardinalityType
    <3>3. QED BY <3>1, <3>2
  <2>6. R \in SUBSET set /\ R \subseteq t /\ R # t
    BY <2>2, <2>4
  <2>7. Cardinality(Top(R)) = Least(c)
    <3>1. R \notin Bad
      <4> HIDE DEF Bad, R
      <4>1. QED BY <2>1, <2>6
    <3>2. QED BY <2>6, <3>1
  <2>8. Rank(t, z) = c /\ \A w \in R : Rank(t, w) = Rank(R, w)
    BY <2>2, <2>4, TopStep
  <2>9. Top(R) \subseteq R /\ IsFiniteSet(Top(R)) /\ z \notin Top(R)
    <3>1. Top(R) \in SUBSET R
      BY DEF Top
    <3> HIDE DEF c
    <3>2. QED BY <2>5, <3>1, FS_Subset
  <2> HIDE DEF c
  <2>10. CASE c < NumDelegates
    <3>1. Top(t) = Top(R) \union {z}
      BY <2>4, <2>8, <2>10 DEF Top
    <3>2. Cardinality(Top(t)) = Cardinality(Top(R)) + 1
      BY <2>9, <3>1, FS_AddElement
    <3>3. Least(c) = c /\ Least(c + 1) = c + 1
      BY <1>n, <2>5, <2>10 DEF Least
    <3>4. QED BY <2>1, <2>5, <2>7, <3>2, <3>3
  <2>11. CASE ~(c < NumDelegates)
    <3>1. Top(t) = Top(R)
      BY <2>4, <2>8, <2>11 DEF Top
    <3>2. Least(c) = NumDelegates /\ Least(c + 1) = NumDelegates
      BY <1>n, <2>5, <2>11 DEF Least
    <3>3. QED BY <2>1, <2>5, <2>7, <3>1, <3>2
  <2>12. QED BY <2>10, <2>11
<1>2. set \notin Bad /\ set \in SUBSET set
  BY <1>1
<1>3. QED BY <1>2

(* The set of votes has one pair for each delegate in it. *)
LEMMA OneEach ==
  ASSUME NEW t \in Tables, NEW set, set = inserted_votes(t.account)
  PROVE  /\ set \subseteq Pairs /\ IsFiniteSet(set)
         /\ Cardinality(set) = Cardinality(Unretracted(t.account))
         /\ \A v \in set : /\ v[2] \in Unretracted(t.account)
                           /\ v[1] = t.account[v[2]].votes_for
                           /\ v = <<v[1], v[2]>>
         /\ \A a \in Unretracted(t.account) : <<t.account[a].votes_for, a>> \in set
<1> DEFINE U == Unretracted(t.account)
           f == [a \in U |-> <<t.account[a].votes_for, a>>]
<1>1. \A a \in U : a \in Account /\ t.account[a].votes_for \in Nat
  BY DEF Unretracted, DelegatesOf, Registered, Tables, AccountEntry
<1>2. /\ \A v \in set : v[2] \in U /\ v[1] = t.account[v[2]].votes_for /\ v = <<v[1], v[2]>>
      /\ \A a \in U : <<t.account[a].votes_for, a>> \in set
  BY DEF inserted_votes
<1>3. set \subseteq Pairs
  BY <1>1 DEF inserted_votes, Pairs
<1>4. U \in SUBSET Account
  BY <1>1
<1>5. IsFiniteSet(U)
  BY <1>4, FiniteAssumption, FS_Subset
<1>6. f \in Surjection(U, set) /\ f \in Injection(U, set)
  <2>1. f \in [U -> set]
    BY <1>2
  <2>2. \A v \in set : \E a \in U : f[a] = v
    BY <1>2
  <2>3. \A a, b \in U : f[a] = f[b] => a = b
    OBVIOUS
  <2> HIDE DEF U, f
  <2>4. QED BY <2>1, <2>2, <2>3 DEF Surjection, Injection, IsInjective
<1> HIDE DEF U, f
<1>7. IsFiniteSet(set) /\ Cardinality(set) = Cardinality(U)
  BY <1>5, <1>6, FS_Surjection
<1>8. QED BY <1>2, <1>3, <1>7 DEF U

(***************************************************************************)
(* The list a round begins with: a permutation of the best voted.          *)
(***************************************************************************)
LEMMA BestOfVotes ==
  ASSUME NEW t \in Tables, NEW set, set = inserted_votes(t.account),
         NEW list, list \in SetToSeqs(next_round_active_delegates(set))
  PROVE  /\ Len(list) = Cardinality(Range(list))
         /\ Len(list) = Least(Cardinality(Unretracted(t.account)))
         /\ Range(list) \subseteq Unretracted(t.account)
         /\ \A a \in Range(list), b \in Unretracted(t.account) \ Range(list) :
              t.account[a].votes_for >= t.account[b].votes_for
<1> DEFINE U == Unretracted(t.account)
           S == next_round_active_delegates(set)
           n == Cardinality(S)
           f == [v \in Top(set) |-> v[2]]
<1>1. /\ set \subseteq Pairs /\ IsFiniteSet(set) /\ Cardinality(set) = Cardinality(U)
      /\ \A v \in set : v[2] \in U /\ v[1] = t.account[v[2]].votes_for /\ v = <<v[1], v[2]>>
      /\ \A a \in U : <<t.account[a].votes_for, a>> \in set
  BY OneEach
<1>2. S = {v[2] : v \in Top(set)}
  BY DEF next_round_active_delegates, Top, Rank
<1>3. Top(set) \in SUBSET set
  BY DEF Top
<1>4. IsFiniteSet(Top(set))
  BY <1>1, <1>3, FS_Subset
<1>5. IsFiniteSet(S) /\ n = Cardinality(Top(set))
  <2>1. f \in Surjection(Top(set), S) /\ f \in Injection(Top(set), S)
    <3>1. f \in [Top(set) -> S]
      BY <1>2
    <3>2. \A a \in S : \E v \in Top(set) : f[v] = a
      BY <1>2
    <3>3. \A v, w \in Top(set) : f[v] = f[w] => v = w
      BY <1>1, <1>3
    <3> HIDE DEF S, f
    <3>4. QED BY <3>1, <3>2, <3>3 DEF Surjection, Injection, IsInjective
  <2> HIDE DEF f, S
  <2>2. QED BY <1>4, <2>1, FS_Surjection DEF n
<1>6. n = Least(Cardinality(U)) /\ n \in Nat
  <2>1. Cardinality(Top(set)) = Least(Cardinality(set))
    BY <1>1, TopCardinality
  <2> HIDE DEF S
  <2>2. QED BY <1>1, <1>5, <2>1, FS_CardinalityType DEF n
<1>7. list \in [1..n -> S] /\ \A i, j \in 1..n : i # j => list[i] # list[j]
  BY DEF SetToSeqs
<1> HIDE DEF n, f
<1>8. Range(list) = S
  <2> HIDE DEF S
  <2>1. list \in Injection(1..n, S)
    BY <1>7 DEF Injection, IsInjective
  <2>2. IsFiniteSet(1..n) /\ Cardinality(1..n) = n
    <3>1. 1 \in Int /\ n \in Int
      BY <1>6
    <3>2. QED BY <1>6, <3>1, FS_Interval
  <2>3. list \in Surjection(1..n, S)
    BY <1>5, <2>1, <2>2, FS_Injection DEF n
  <2>4. QED BY <1>7, <2>3 DEF Range, Surjection
<1>9. Len(list) = n
  BY <1>6, <1>7
<1>10. S \subseteq U
  BY <1>1, <1>2, <1>3
<1>11. ASSUME NEW a \in S, NEW b \in U \ S
       PROVE  t.account[a].votes_for >= t.account[b].votes_for
  <2>1. PICK v \in Top(set) : a = v[2]
    BY <1>2
  <2> DEFINE w == <<t.account[b].votes_for, b>>
  <2>2. w \in set /\ w \notin Top(set) /\ w[1] = t.account[b].votes_for
    BY <1>1, <1>2, <1>11
  <2> HIDE DEF w
  <2>3. v \in set /\ v \in Pairs /\ w \in Pairs /\ v[1] = t.account[a].votes_for
    BY <1>1, <1>3, <2>1, <2>2
  <2>4. v[1] \in Nat /\ w[1] \in Nat
    BY <2>3 DEF Pairs
  <2>5. SUFFICES ASSUME w[1] > v[1] PROVE FALSE
    BY <2>2, <2>3, <2>4
  <2>6. before(w, v)
    BY <2>4, <2>5 DEF before
  <2> DEFINE A == {u \in set : before(u, w)}
             B == {u \in set : before(u, v)}
  <2>7. A \subseteq B
    <3>1. SUFFICES ASSUME NEW u \in set, before(u, w) PROVE before(u, v)
      OBVIOUS
    <3>2. u \in Pairs
      BY <1>1
    <3>3. QED BY <2>3, <2>6, <3>1, <3>2, BeforeOrder
  <2>8. A \in SUBSET B /\ B \in SUBSET set
    BY <2>7
  <2>9. Cardinality(A) = Rank(set, w) /\ Cardinality(B) = Rank(set, v)
    BY DEF Rank
  <2> HIDE DEF A, B
  <2>10. IsFiniteSet(B) /\ IsFiniteSet(A) /\ Cardinality(A) <= Cardinality(B)
    BY <1>1, <2>8, FS_Subset
  <2>11. Cardinality(A) \in Nat /\ Cardinality(B) \in Nat
    BY <2>10, FS_CardinalityType
  <2>12. Rank(set, v) < NumDelegates /\ ~(Rank(set, w) < NumDelegates)
    BY <2>1, <2>2 DEF Top
  <2>13. QED BY <2>9, <2>10, <2>11, <2>12, DelegatesAssumption
<1>12. Len(list) = Cardinality(Range(list))
  BY <1>8, <1>9 DEF n
<1>13. QED BY <1>6, <1>8, <1>9, <1>10, <1>11, <1>12

(***************************************************************************)
(* Whoever signs the next round has been voted for by at least as much as  *)
(* whoever does not, and nobody signs twice: the shuffled list of          *)
(* update_active_delegate_list, after any blocks, retractions and pops.    *)
(***************************************************************************)
THEOREM BestVoted == Spec => BestVotedSign
<1> DEFINE Round == num' > num /\ num' % NumDelegates = 0 =>
              LET list == db'.active
                  chosen == Range(list) IN
              /\ Len(list) = Cardinality(chosen)
              /\ Len(list) = Min({NumDelegates, Cardinality(Unretracted(db.account))})
              /\ chosen \subseteq Unretracted(db.account)
              /\ \A a \in chosen, b \in Unretracted(db.account) \ chosen :
                   db.account[a].votes_for >= db.account[b].votes_for
<1>1. ASSUME DelInv, [Next]_vars PROVE [Round]_vars
  <2>1. num \in Nat /\ db \in Tables
    BY <1>1 DEF DelInv, HeadInv, Good
  <2>2. SUFFICES ASSUME num' > num, num' % NumDelegates = 0 PROVE Round
    OBVIOUS
  <2>3. num' # num
    BY <2>1, <2>2
  <2>4. ~PopBlock
    <3>1. SUFFICES ASSUME PopBlock PROVE FALSE
      OBVIOUS
    <3>2. undo # <<>> /\ num' = undo[Len(undo)].num
      BY <3>1 DEF PopBlock
    <3>3. undo \in Seq([tables : Tables, num : Nat, time : Nat])
      BY <1>1 DEF DelInv
    <3>4. Len(undo) \in 1..Len(undo)
      <4> DEFINE Rec == [tables : Tables, num : Nat, time : Nat]
      <4>1. undo \in Seq(Rec)
        BY <3>3
      <4> HIDE DEF Rec
      <4>2. QED BY <3>2, <4>1
    <3>5. num' = Len(undo) - 1 /\ num = Len(undo)
      BY <1>1, <3>2, <3>4 DEF DelInv, HeadInv, UndoInv
    <3>6. QED BY <2>1, <2>2, <3>5
  <2>5. EndBlock
    <3>1. ASSUME NEW tables, Evaluate(tables) PROVE num' = num
      BY <3>1 DEF Evaluate
    <3>2. /\ \A from, to, amount, fee : Transfer(from, to, amount, fee) => num' = num
          /\ \A a, delegate, rate, from : RegisterAccount(a, delegate, rate, from) => num' = num
          /\ \A a, retract, delegate, rate, from :
               UpdateAccount(a, retract, delegate, rate, from) => num' = num
          /\ \A a, amount, to : WithdrawPay(a, amount, to) => num' = num
      <4>1. ASSUME NEW from, NEW to, NEW amount, NEW fee, Transfer(from, to, amount, fee)
            PROVE  num' = num
        BY <3>1, <4>1 DEF Transfer
      <4>2. ASSUME NEW a, NEW delegate, NEW rate, NEW from,
                   RegisterAccount(a, delegate, rate, from)
            PROVE  num' = num
        BY <3>1, <4>2 DEF RegisterAccount
      <4>3. ASSUME NEW a, NEW retract, NEW delegate, NEW rate, NEW from,
                   UpdateAccount(a, retract, delegate, rate, from)
            PROVE  num' = num
        BY <3>1, <4>3 DEF UpdateAccount
      <4>4. ASSUME NEW a, NEW amount, NEW to, WithdrawPay(a, amount, to) PROVE num' = num
        BY <3>1, <4>4 DEF WithdrawPay
      <4>5. QED BY <4>1, <4>2, <4>3, <4>4
    <3>3. /\ \A s : BeginBlock(s) => num' = num
          /\ DropBlock => num' = num
          /\ UNCHANGED vars => num' = num
      BY DEF BeginBlock, DropBlock, vars
    <3>4. QED BY <1>1, <2>3, <2>4, <3>2, <3>3 DEF Next
  <2>6. PICK list \in next_active :
          db' = [pay_delegate(pending, get_slot_signee(slot)) EXCEPT !.active = list]
    BY <2>5 DEF EndBlock
  <2>7. list \in SetToSeqs(next_round_active_delegates(votes))
    BY <2>2, <2>5, <2>6 DEF next_active, EndBlock
  <2>8. db'.active = list
    <3>1. pending \in Tables
      BY <1>1 DEF DelInv, PendingInv, Good
    <3>2. QED BY <2>6, <3>1 DEF pay_delegate, Tables
  <2>9. votes = inserted_votes(db.account)
    BY <1>1 DEF DelInv, VoteSetMatches
  <2>10. /\ Len(list) = Cardinality(Range(list))
         /\ Len(list) = Least(Cardinality(Unretracted(db.account)))
         /\ Range(list) \subseteq Unretracted(db.account)
         /\ \A a \in Range(list), b \in Unretracted(db.account) \ Range(list) :
              db.account[a].votes_for >= db.account[b].votes_for
    BY <2>1, <2>7, <2>9, BestOfVotes
  <2>11. Least(Cardinality(Unretracted(db.account)))
           = Min({NumDelegates, Cardinality(Unretracted(db.account))})
    <3> DEFINE c == Cardinality(Unretracted(db.account))
    <3>1. c \in Nat
      <4>1. Unretracted(db.account) \in SUBSET Account
        BY DEF Unretracted, DelegatesOf, Registered
      <4>2. QED BY <4>1, FiniteAssumption, FS_Subset, FS_CardinalityType
    <3> HIDE DEF c
    <3>2. Least(c) = Min({NumDelegates, c})
      BY <3>1, DelegatesAssumption DEF Least, Min
    <3>3. QED BY <3>2 DEF c
  <2>12. QED BY <2>8, <2>10, <2>11
<1>2. QED BY <1>1, SpecDel, PTL DEF Spec, BestVotedSign

=============================================================================
