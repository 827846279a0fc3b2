------------------------ MODULE TransactionPoolProofs ------------------------
(***************************************************************************)
(* Proofs about TransactionPool, for every set of transactions and every   *)
(* limit: the set of recognised transactions and the pool follow the       *)
(* chain, the pending state is the head with the transactions of the fee   *)
(* index applied, and the block a delegate makes from that index is one    *)
(* that the chain accepts and that keeps to its size.                      *)
(*                                                                         *)
(* The first induction needs that no block of the chain is later than the  *)
(* latest head ever seen: open purges by the time of the head it finds,    *)
(* which may have gone back in a fork switch.  The others need what a loop *)
(* over transactions leaves: each loop is a fold of FoldTheorems.          *)
(***************************************************************************)
EXTENDS TransactionPool, SumTheorems, TLAPS

Blocks == [time : Nat, trxs : BlockTrxs]

ChainOK == /\ chain \in Seq(Blocks)
           /\ highest \in Nat
           /\ \A i \in 1..Len(chain) : chain[i].time <= highest
PoolInv == ChainOK /\ UniqueFollowsChain /\ PoolUnconfirmed

(* The transactions of the chain have an expiration. *)
LEMMA ConfirmedExpire ==
  ASSUME ChainOK
  PROVE  \A t \in confirmed : Expiration[t] \in Nat
<1>1. \A x \in BlockTrxs : Range(x) \subseteq Trx
  BY DEF BlockTrxs, Range
<1>2. ASSUME NEW i \in DOMAIN chain
      PROVE  chain[i].trxs \in BlockTrxs
  <2>1. chain[i] \in Blocks
    BY DEF ChainOK
  <2> QED
    BY <2>1 DEF Blocks
<1>3. confirmed \subseteq Trx
  BY <1>1, <1>2 DEF confirmed
<1> QED
  BY <1>3, TrxAssumption

(* What an extension adds to the confirmed transactions. *)
LEMMA ConfirmedByExtension ==
  ASSUME ChainOK, NEW b \in Blocks, chain' = Append(chain, b)
  PROVE  confirmed' = confirmed \union Range(b.trxs)
<1>1. /\ DOMAIN chain = 1..Len(chain)
      /\ Len(chain) \in Nat
      /\ DOMAIN chain' = 1..(Len(chain) + 1)
      /\ \A i \in 1..Len(chain) : chain'[i] = chain[i]
      /\ chain'[Len(chain) + 1] = b
  BY DEF ChainOK
<1>2. DOMAIN chain' = DOMAIN chain \union {Len(chain) + 1}
  BY <1>1
<1>3. \A i \in DOMAIN chain : Range(chain'[i].trxs) = Range(chain[i].trxs)
  BY <1>1
<1>4. Range(chain'[Len(chain) + 1].trxs) = Range(b.trxs)
  BY <1>1
<1>5. ASSUME NEW t
      PROVE  t \in confirmed' <=> t \in confirmed \/ t \in Range(b.trxs)
  <2>1. t \in confirmed' <=> \E i \in DOMAIN chain' : t \in Range(chain'[i].trxs)
    BY Zenon DEF confirmed
  <2>2. t \in confirmed <=> \E i \in DOMAIN chain : t \in Range(chain[i].trxs)
    BY Zenon DEF confirmed
  <2> QED
    BY <2>1, <2>2, <1>2, <1>3, <1>4, Zenon
<1> QED
  BY <1>5

(* What a pop leaves of them. *)
LEMMA ConfirmedAfterPop ==
  ASSUME ChainOK, chain # <<>>, chain' = Front(chain)
  PROVE  /\ Len(chain) > 0
         /\ chain' \in Seq(Blocks)
         /\ Len(chain') = Len(chain) - 1
         /\ \A i \in 1..Len(chain') : chain'[i] = chain[i]
         /\ confirmed' = UNION {Range(chain[i].trxs) : i \in 1..(Len(chain) - 1)}
         /\ confirmed = confirmed' \union Range(Last(chain).trxs)
<1>1. /\ DOMAIN chain = 1..Len(chain)
      /\ Len(chain) \in Nat
      /\ Len(chain) > 0
  BY DEF ChainOK
<1>2. /\ chain' \in Seq(Blocks)
      /\ Len(chain') = Len(chain) - 1
      /\ DOMAIN chain' = 1..(Len(chain) - 1)
      /\ \A i \in 1..(Len(chain) - 1) : chain'[i] = chain[i]
  BY <1>1 DEF Front, ChainOK
<1>3. DOMAIN chain = (1..(Len(chain) - 1)) \union {Len(chain)}
  BY <1>1
<1>4. confirmed' = UNION {Range(chain[i].trxs) : i \in 1..(Len(chain) - 1)}
  <2>1. \A i \in 1..(Len(chain) - 1) :
          Range(chain'[i].trxs) = Range(chain[i].trxs)
    BY <1>2
  <2> QED
    BY <2>1, <1>2, Zenon DEF confirmed
<1>5. confirmed = confirmed' \union Range(Last(chain).trxs)
  <2>1. Last(chain) = chain[Len(chain)]
    BY DEF Last
  <2> QED
    BY <2>1, <1>3, <1>4, Zenon DEF confirmed
<1> QED
  BY <1>1, <1>2, <1>4, <1>5

LEMMA InitPool == Init => PoolInv
<1> SUFFICES ASSUME Init PROVE PoolInv
  OBVIOUS
<1>1. confirmed = {}
  BY DEF Init, confirmed
<1>2. ChainOK
  BY DEF Init, ChainOK
<1> QED
  BY <1>1, <1>2 DEF Init, PoolInv, UniqueFollowsChain, PoolUnconfirmed

(* A transaction enters the pool only if the chain does not know it. *)
LEMMA StoreKeeps ==
  ASSUME PoolInv, NEW t \in Trx, NEW override_limits \in BOOLEAN,
         store_pending_transaction(t, override_limits)
  PROVE  PoolInv'
<1>1. /\ chain' = chain /\ highest' = highest /\ unique' = unique
      /\ pool' = pool \union {t}
      /\ confirmed' = confirmed
  BY DEF store_pending_transaction, confirmed
<1>2. t \notin unique
  BY DEF store_pending_transaction, evaluate_transaction, valid,
         is_known_transaction, OnChain
<1>3. t \in confirmed => Expiration[t] <= highest
  BY <1>2, TrxAssumption DEF PoolInv, UniqueFollowsChain, ChainOK
<1> QED
  BY <1>1, <1>3 DEF PoolInv, ChainOK, UniqueFollowsChain, PoolUnconfirmed

LEMMA ExtendKeeps ==
  ASSUME PoolInv, NEW trxs \in BlockTrxs, NEW time \in 1..MaxTime,
         extend_chain(trxs, time)
  PROVE  PoolInv'
<1> DEFINE b == [time |-> time, trxs |-> trxs]
<1>1. /\ b \in Blocks
      /\ chain' = Append(chain, b)
      /\ unique' = {t \in unique \union Range(trxs) : Expiration[t] > time}
      /\ highest' = IF time > highest THEN time ELSE highest
      /\ pool' = pool \ Range(trxs)
  BY LimitsAssumption DEF extend_chain, clear_pending, purge, Blocks
<1>2. confirmed' = confirmed \union Range(trxs)
  BY <1>1, ConfirmedByExtension DEF PoolInv
<1>3. /\ highest' \in Nat
      /\ highest <= highest'
      /\ time <= highest'
      /\ highest \in Nat /\ time \in Nat
  BY <1>1, LimitsAssumption DEF PoolInv, ChainOK
<1>4. ChainOK'
  <2>1. /\ chain' \in Seq(Blocks)
        /\ Len(chain') = Len(chain) + 1
        /\ \A i \in 1..Len(chain) : chain'[i] = chain[i]
        /\ chain'[Len(chain) + 1] = b
        /\ Len(chain) \in Nat
    BY <1>1 DEF PoolInv, ChainOK
  <2>2. ASSUME NEW i \in 1..Len(chain')
        PROVE  chain'[i].time <= highest'
    <3>1. CASE i = Len(chain) + 1
      BY <3>1, <2>1, <1>3
    <3>2. CASE i \in 1..Len(chain)
      <4>1. chain[i] \in Blocks /\ chain[i].time <= highest
        BY <3>2 DEF PoolInv, ChainOK
      <4> QED
        BY <4>1, <3>2, <2>1, <1>3 DEF Blocks
    <3> QED
      BY <3>1, <3>2, <2>1
  <2> QED
    BY <2>1, <2>2, <1>3 DEF ChainOK
<1>5. \A t \in confirmed' : Expiration[t] \in Nat
  <2>1. Range(trxs) \subseteq Trx
    BY DEF BlockTrxs, Range
  <2> QED
    BY <2>1, <1>2, ConfirmedExpire, TrxAssumption DEF PoolInv
<1>6. UniqueFollowsChain'
  <2>1. unique' \subseteq confirmed'
    BY <1>1, <1>2 DEF PoolInv, UniqueFollowsChain
  <2>2. ASSUME NEW t \in confirmed', Expiration[t] > highest'
        PROVE  t \in unique'
    <3>1. Expiration[t] > highest /\ Expiration[t] > time
      BY <2>2, <1>3, <1>5
    <3> QED
      BY <3>1, <1>1, <1>2 DEF PoolInv, UniqueFollowsChain
  <2> QED
    BY <2>1, <2>2 DEF UniqueFollowsChain
<1>7. PoolUnconfirmed'
  <2>1. ASSUME NEW t \in pool' \intersect confirmed'
        PROVE  Expiration[t] <= highest'
    <3>1. t \in pool \intersect confirmed
      BY <1>1, <1>2
    <3>2. Expiration[t] <= highest
      BY <3>1 DEF PoolInv, PoolUnconfirmed
    <3> QED
      BY <3>2, <1>3, <1>5
  <2> QED
    BY <2>1 DEF PoolUnconfirmed
<1> QED
  BY <1>4, <1>6, <1>7 DEF PoolInv

LEMMA PopKeeps ==
  ASSUME PoolInv, pop_block
  PROVE  PoolInv'
<1> DEFINE R == Range(Last(chain).trxs)
<1>1. /\ chain # <<>> /\ chain' = Front(chain)
      /\ highest' = highest /\ pool' = pool
      /\ unique' = undone(Last(chain).trxs)
  BY DEF pop_block
<1>2. /\ Len(chain) > 0
      /\ chain' \in Seq(Blocks)
      /\ Len(chain') = Len(chain) - 1
      /\ \A i \in 1..Len(chain') : chain'[i] = chain[i]
      /\ confirmed' = UNION {Range(chain[i].trxs) : i \in 1..(Len(chain) - 1)}
      /\ confirmed = confirmed' \union R
  BY <1>1, ConfirmedAfterPop DEF PoolInv
<1>3. unique' = (unique \ R) \union (R \intersect confirmed')
  BY <1>1, <1>2 DEF undone
<1>4. ChainOK'
  <2>1. \A i \in 1..Len(chain') : chain'[i].time <= highest
    BY <1>2 DEF PoolInv, ChainOK
  <2> QED
    BY <2>1, <1>1, <1>2 DEF PoolInv, ChainOK
<1> HIDE DEF R
<1>5. UniqueFollowsChain'
  BY <1>1, <1>2, <1>3 DEF PoolInv, UniqueFollowsChain
<1>6. PoolUnconfirmed'
  BY <1>1, <1>2 DEF PoolInv, PoolUnconfirmed
<1> QED
  BY <1>4, <1>5, <1>6 DEF PoolInv

(* open fills the set from the chain; no later head outlived what it keeps. *)
LEMMA OpenKeeps ==
  ASSUME PoolInv, open
  PROVE  PoolInv'
<1>1. /\ chain' = chain /\ highest' = highest /\ pool' = pool
      /\ confirmed' = confirmed
      /\ unique' = {t \in confirmed : Expiration[t] > now}
  BY DEF open, confirmed, purge
<1>2. now <= highest /\ now \in Nat /\ highest \in Nat
  <2>1. CASE chain = <<>>
    BY <2>1 DEF now, PoolInv, ChainOK
  <2>2. CASE chain # <<>>
    <3>1. Len(chain) \in 1..Len(chain) /\ now = chain[Len(chain)].time
      BY <2>2 DEF now, Last, PoolInv, ChainOK
    <3>2. chain[Len(chain)] \in Blocks
      BY <3>1 DEF PoolInv, ChainOK
    <3> QED
      BY <3>1, <3>2 DEF PoolInv, ChainOK, Blocks
  <2> QED
    BY <2>1, <2>2
<1>3. \A t \in confirmed : Expiration[t] \in Nat
  BY ConfirmedExpire DEF PoolInv
<1>4. {t \in confirmed : Expiration[t] > highest} \subseteq unique'
  BY <1>1, <1>2, <1>3
<1> QED
  BY <1>1, <1>4 DEF PoolInv, ChainOK, UniqueFollowsChain, PoolUnconfirmed

LEMMA StepKeepsPool == PoolInv /\ [Next]_vars => PoolInv'
<1> SUFFICES ASSUME PoolInv, [Next]_vars PROVE PoolInv'
  OBVIOUS
<1>1. ASSUME NEW t \in Trx, NEW override_limits \in BOOLEAN,
             store_pending_transaction(t, override_limits)
      PROVE  PoolInv'
  BY <1>1, StoreKeeps
<1>2. CASE revalidate_pending
  <2>1. /\ chain' = chain /\ highest' = highest /\ unique' = unique
        /\ pool' \subseteq pool
        /\ confirmed' = confirmed
    BY <1>2 DEF revalidate_pending, confirmed
  <2> QED
    BY <2>1 DEF PoolInv, ChainOK, UniqueFollowsChain, PoolUnconfirmed
<1>3. ASSUME NEW trxs \in BlockTrxs, NEW time \in 1..MaxTime,
             extend_chain(trxs, time)
      PROVE  PoolInv'
  BY <1>3, ExtendKeeps
<1>4. ASSUME NEW time \in 1..MaxTime, produce_block(time)
      PROVE  PoolInv'
  BY <1>4, ExtendKeeps DEF produce_block
<1>5. CASE pop_block
  BY <1>5, PopKeeps
<1>6. CASE open
  BY <1>6, OpenKeeps
<1>7. CASE UNCHANGED vars
  <2>1. /\ chain' = chain /\ highest' = highest /\ unique' = unique
        /\ pool' = pool
        /\ confirmed' = confirmed
    BY <1>7 DEF vars, confirmed
  <2> QED
    BY <2>1 DEF PoolInv, ChainOK, UniqueFollowsChain, PoolUnconfirmed
<1> QED
  BY <1>1, <1>2, <1>3, <1>4, <1>5, <1>6, <1>7 DEF Next

(* The induction. *)
THEOREM PoolInvariant == Spec => []PoolInv
<1> QED
  BY InitPool, StepKeepsPool, PTL DEF Spec

(***************************************************************************)
(* _unique_transactions holds only confirmed transactions, and all those   *)
(* that no head has outlived, after any blocks, pops and restarts: before  *)
(* its expiration has passed once, no transaction is evaluated twice.      *)
(***************************************************************************)
THEOREM UniqueCorrect == Spec => []UniqueFollowsChain
<1>1. PoolInv => UniqueFollowsChain
  BY DEF PoolInv
<1> QED
  BY <1>1, PoolInvariant, PTL

(***************************************************************************)
(* No transaction is both confirmed and waiting in the pool, until some    *)
(* head has outlived it.                                                   *)
(***************************************************************************)
THEOREM PoolDisjoint == Spec => []PoolUnconfirmed
<1>1. PoolInv => PoolUnconfirmed
  BY DEF PoolInv
<1> QED
  BY <1>1, PoolInvariant, PTL

-----------------------------------------------------------------------------
(***************************************************************************)
(* What an evaluation leaves: the balances of the head with the accepted   *)
(* transactions applied to them, each of which is counted once.            *)
(***************************************************************************)
NatTable == [Key -> Nat \union {Absent}]
NatOverlay == [store : NatTable, remove : SUBSET Key]

Count(S, F, k) == Cardinality({t \in S : F[t] = k})

(* What the balances add up to, a table seen through an overlay *)
Amounts(o, table) ==
  [k \in Key |-> IF lookup(o, table, k) = Absent THEN 0 ELSE lookup(o, table, k)]
Worth(o, table) == SumOf(Amounts(o, table), Key)

HeadPlus(o, S) ==
  /\ \A k \in Key :
       amount(o, k) = amount(EmptyOverlay, k) + Count(S, To, k) - Count(S, From, k)
  /\ o.remove = {}
  /\ Worth(o, db) = Worth(EmptyOverlay, db)

Evaluated(known) ==
  {s \in [state : NatOverlay, seen : SUBSET Trx, below : {known}, trxs : Seq(Trx)] :
     /\ Cardinality(s.seen) = Len(s.trxs)
     /\ HeadPlus(s.state, s.seen)}

(***************************************************************************)
(* The evaluation of transactions in order.  Each loop of the pool over    *)
(* transactions is a fold, of which FoldTheorems is given the step, the    *)
(* start and what holds throughout; the loops are told apart by a mode,    *)
(* and block_size is a fold with another step.                             *)
(***************************************************************************)
Accepts(m, t, s) ==
  \/ m.loop = "pool" /\ Len(s.trxs) <= m.limit /\ valid(t, s) /\ Fee[t] >= RelayFee
  \/ m.loop = "block" /\ valid(t, s)
  \/ /\ m.loop = "delegate"
     /\ Len(s.trxs) < MaxBlockTrx
     /\ block_size(s.trxs) + Size[t] <= MaxBlockSize
     /\ t \notin Excluded
     /\ valid(t, s)
     /\ Fee[t] >= MinFee

Advance(m, t, s) ==
  IF m.loop = "size" THEN s + BlockSize[t]
  ELSE IF Accepts(m, t, s) THEN Applied(t, s) ELSE s

Start(m) == IF m.loop = "size" THEN 0 ELSE OnChain(m.known)

PoolLoop(known, limit) == [loop |-> "pool", known |-> known, limit |-> limit]
BlockLoop(known) == [loop |-> "block", known |-> known, limit |-> 0]
DelegateLoop(known) == [loop |-> "delegate", known |-> known, limit |-> 0]
SizeLoop == [loop |-> "size", known |-> {}, limit |-> 0]

Holds(m, s) == IF m.loop = "size" THEN s \in Nat ELSE s \in Evaluated(m.known)

Eval == INSTANCE FoldTheorems WITH Advance <- Advance, Start <- Start, Holds <- Holds

-----------------------------------------------------------------------------
(***************************************************************************)
(* The iteration of an index.  Of the entries of a finite index that a     *)
(* relation R orders, each number of predecessors below their count        *)
(* belongs to one, so that in_order gives entries of the index.            *)
(***************************************************************************)
Ordered(R, S) ==
  /\ \A x \in S : <<x, x>> \notin R
  /\ \A x, y, z \in S : <<x, y>> \in R /\ <<y, z>> \in R => <<x, z>> \in R
  /\ \A x, y \in S : x = y \/ <<x, y>> \in R \/ <<y, x>> \in R

RankIn(R, S, t) == Cardinality({u \in S : <<u, t>> \in R})

LEMMA LastEntry ==
  ASSUME NEW R, NEW T, IsFiniteSet(T), Ordered(R, T), T # {}
  PROVE  \E z \in T : \A w \in T \ {z} : <<w, z>> \in R /\ <<z, w>> \notin R
<1> DEFINE After(w) == {u \in T : <<w, u>> \in R}
           All == {After(w) : w \in T}
<1>1. All \subseteq SUBSET T /\ All # {}
  OBVIOUS
<1>2. PICK s \in All : \A r \in All : r \subseteq s => r = s
  <2> HIDE DEF All
  <2>1. QED BY <1>1, SmallestSubset
<1>3. PICK z \in T : s = After(z)
  BY <1>2
<1>4. After(z) = {}
  <2>1. SUFFICES ASSUME NEW u \in After(z) PROVE FALSE
    OBVIOUS
  <2>2. u \in T /\ <<z, u>> \in R
    OBVIOUS
  <2>3. After(u) \subseteq After(z)
    BY <2>2 DEF Ordered
  <2>4. After(u) = After(z)
    <3>1. After(u) \in All
      BY <2>2
    <3> HIDE DEF All, After
    <3>2. QED BY <1>2, <1>3, <2>3, <3>1
  <2>5. <<u, u>> \notin R
    BY <2>2 DEF Ordered
  <2>6. QED BY <2>1, <2>4, <2>5
<1>5. ASSUME NEW w \in T \ {z} PROVE <<w, z>> \in R /\ <<z, w>> \notin R
  <2>1. <<z, w>> \notin R
    BY <1>4
  <2>2. QED BY <2>1 DEF Ordered
<1>6. QED BY <1>5

LEMMA RankExists ==
  ASSUME NEW R, NEW S, IsFiniteSet(S), Ordered(R, S)
  PROVE  \A r \in 0..(Cardinality(S) - 1) : \E t \in S : RankIn(R, S, t) = r
<1> DEFINE Full(s) == \A r \in 0..(Cardinality(s) - 1) : \E t \in s : RankIn(R, s, t) = r
           Bad == {s \in SUBSET S : ~Full(s)}
<1>1. SUFFICES ASSUME Bad # {} PROVE FALSE
  OBVIOUS
<1>2. PICK s \in Bad : \A u \in Bad : u \subseteq s => u = s
  <2>1. Bad \subseteq SUBSET S
    OBVIOUS
  <2> HIDE DEF Bad
  <2>2. QED BY <1>1, <2>1, SmallestSubset
<1>3. s \in SUBSET S /\ IsFiniteSet(s) /\ Ordered(R, s)
  <2>1. s \in SUBSET S
    OBVIOUS
  <2>2. IsFiniteSet(s)
    BY <2>1, FS_Subset
  <2>3. QED BY <2>1, <2>2 DEF Ordered
<1>4. s # {}
  <2>1. Full({})
    <3>1. Cardinality({}) = 0
      BY FS_EmptySet
    <3>2. QED BY <3>1
  <2>2. QED BY <1>2, <2>1
<1>5. PICK z \in s : \A w \in s \ {z} : <<w, z>> \in R /\ <<z, w>> \notin R
  BY <1>3, <1>4, LastEntry
<1> DEFINE p == s \ {z}
<1>6. Full(p)
  <2>1. p \in SUBSET S /\ p \subseteq s /\ p # s
    BY <1>3
  <2>2. QED BY <1>2, <2>1
<1>7. Cardinality(s) = Cardinality(p) + 1 /\ Cardinality(p) \in Nat
  <2>1. /\ IsFiniteSet(p)
        /\ Cardinality(p) = Cardinality(s) - 1
    BY <1>3, <1>5, FS_RemoveElement
  <2>2. Cardinality(p) \in Nat /\ Cardinality(s) \in Nat
    BY <1>3, <2>1, FS_CardinalityType
  <2>3. QED BY <2>1, <2>2
<1>8. RankIn(R, s, z) = Cardinality(p)
  <2>1. <<z, z>> \notin R
    BY <1>3 DEF Ordered
  <2>2. {u \in s : <<u, z>> \in R} = p
    BY <1>5, <2>1
  <2>3. QED BY <2>2 DEF RankIn
<1>9. ASSUME NEW w \in p PROVE RankIn(R, s, w) = RankIn(R, p, w)
  <2>1. {u \in s : <<u, w>> \in R} = {u \in p : <<u, w>> \in R}
    BY <1>5
  <2>2. QED BY <2>1 DEF RankIn
<1>10. Full(s)
  <2>1. SUFFICES ASSUME NEW r \in 0..(Cardinality(s) - 1)
                 PROVE  \E t \in s : RankIn(R, s, t) = r
    OBVIOUS
  <2>2. r = Cardinality(p) \/ r \in 0..(Cardinality(p) - 1)
    BY <1>7
  <2>3. CASE r = Cardinality(p)
    BY <2>3, <1>8
  <2>4. CASE r \in 0..(Cardinality(p) - 1)
    <3>1. PICK t \in p : RankIn(R, p, t) = r
      BY <2>4, <1>6
    <3>2. t \in s /\ RankIn(R, s, t) = r
      BY <3>1, <1>9
    <3>3. QED BY <3>2
  <2>5. QED BY <2>2, <2>3, <2>4
<1>11. QED BY <1>2, <1>10

LEMMA IdOrderTyped ==
  ASSUME NEW S \in SUBSET Trx
  PROVE  in_id_order(S) \in Seq(Trx)
<1> DEFINE R == {p \in Nat \X Nat : p[1] < p[2]}
           n == Cardinality(S)
<1>1. IsFiniteSet(S) /\ n \in Nat /\ S \subseteq Nat
  <2>1. IsFiniteSet(S)
    BY TrxAssumption, FS_Subset
  <2>2. QED BY <2>1, TrxAssumption, FS_CardinalityType
<1>2. \A x, y \in S : <<x, y>> \in R <=> x < y
  BY <1>1
<1>3. Ordered(R, S)
  <2>1. \A x, y \in S : x \in Int /\ y \in Int
    BY <1>1
  <2> HIDE DEF R
  <2>2. QED BY <1>2, <2>1 DEF Ordered
<1>4. \A r \in 0..(n - 1) : \E t \in S : RankIn(R, S, t) = r
  <2> HIDE DEF R
  <2>1. QED BY <1>1, <1>3, RankExists
<1>5. ASSUME NEW t \in S PROVE RankIn(R, S, t) = Cardinality({u \in S : u < t})
  <2>1. {u \in S : <<u, t>> \in R} = {u \in S : u < t}
    BY <1>2
  <2>2. QED BY <2>1 DEF RankIn
<1> HIDE DEF R, n
<1>6. ASSUME NEW i \in 1..n
      PROVE  (CHOOSE t \in S : Cardinality({u \in S : u < t}) = i - 1) \in S
  <2>1. i - 1 \in 0..(n - 1)
    BY <1>1
  <2>2. PICK t \in S : RankIn(R, S, t) = i - 1
    BY <1>4, <2>1
  <2>3. \E t1 \in S : Cardinality({u \in S : u < t1}) = i - 1
    BY <1>5, <2>2
  <2>4. QED BY <2>3
<1>7. in_id_order(S) = [i \in 1..n |-> CHOOSE t \in S : Cardinality({u \in S : u < t}) = i - 1]
  BY DEF in_id_order, in_order, n
<1>8. in_id_order(S) \in [1..n -> Trx]
  BY <1>6, <1>7
<1>9. QED BY <1>1, <1>8

LEMMA FeeOrderTyped ==
  ASSUME fees \in SUBSET Trx
  PROVE  get_pending_transactions \in Seq(Trx)
<1> DEFINE Higher(a, b) == Fee[a] > Fee[b] \/ (Fee[a] = Fee[b] /\ a > b)
           R == {p \in Trx \X Trx : Higher(p[1], p[2])}
           S == fees
           n == Cardinality(S)
<1>1. IsFiniteSet(S) /\ n \in Nat /\ S \subseteq Trx
  <2>1. IsFiniteSet(S)
    BY TrxAssumption, FS_Subset
  <2>2. QED BY <2>1, FS_CardinalityType
<1>2. \A x, y \in S : <<x, y>> \in R <=> Higher(x, y)
  BY <1>1
<1>3. Ordered(R, S)
  <2>1. \A x \in S : x \in Int /\ Fee[x] \in Int
    BY <1>1, TrxAssumption
  <2> HIDE DEF R
  <2>2. QED BY <1>2, <2>1 DEF Ordered
<1>4. \A r \in 0..(n - 1) : \E t \in S : RankIn(R, S, t) = r
  <2> HIDE DEF R
  <2>1. QED BY <1>1, <1>3, RankExists
<1>5. ASSUME NEW t \in S PROVE RankIn(R, S, t) = Cardinality({u \in S : Higher(u, t)})
  <2>1. {u \in S : <<u, t>> \in R} = {u \in S : Higher(u, t)}
    BY <1>2
  <2>2. QED BY <2>1 DEF RankIn
<1>7. get_pending_transactions
        = [i \in 1..n |-> CHOOSE t \in S : Cardinality({u \in S : Higher(u, t)}) = i - 1]
  BY DEF get_pending_transactions, in_order
<1> HIDE DEF R, n, S, Higher
<1>6. ASSUME NEW i \in 1..n
      PROVE  (CHOOSE t \in S : Cardinality({u \in S : Higher(u, t)}) = i - 1) \in S
  <2>1. i - 1 \in 0..(n - 1)
    BY <1>1
  <2>2. PICK t \in S : RankIn(R, S, t) = i - 1
    BY <1>4, <2>1
  <2>3. \E t1 \in S : Cardinality({u \in S : Higher(u, t1)}) = i - 1
    BY <1>5, <2>2
  <2>4. QED BY <2>3
<1>8. get_pending_transactions \in [1..n -> Trx]
  BY <1>1, <1>6, <1>7
<1>9. QED BY <1>1, <1>8

-----------------------------------------------------------------------------
(* The loops of the model are these folds.                                 *)

RawPool(g, ts, known, limit) ==
  g = [s \in SUBSET DOMAIN ts |-> IF s = {} THEN OnChain(known)
                                  ELSE IF Len(g[s \ {Max(s)}].trxs) <= limit /\ valid(ts[Max(s)], g[s \ {Max(s)}]) /\ Fee[ts[Max(s)]] >= RelayFee
                                       THEN Applied(ts[Max(s)], g[s \ {Max(s)}]) ELSE g[s \ {Max(s)}]]

LEMMA PoolFold ==
  ASSUME NEW known, NEW limit, NEW ts \in Seq(Trx)
  PROVE  (CHOOSE g : RawPool(g, ts, known, limit))[DOMAIN ts] = Eval!Fold(PoolLoop(known, limit), ts)
<1> DEFINE m == PoolLoop(known, limit)
           D == DOMAIN ts
<1>1. Eval!Positions(D) /\ D = 1..Len(ts)
  BY DEF Eval!Positions
<1>2. Start(m) = OnChain(known)
  BY DEF Start, PoolLoop
<1>3. \A t, s : Advance(m, t, s) = IF Len(s.trxs) <= limit /\ valid(t, s) /\ Fee[t] >= RelayFee
                                       THEN Applied(t, s) ELSE s
  BY DEF Advance, Accepts, PoolLoop
<1> HIDE DEF m
<1>4. ASSUME NEW g PROVE RawPool(g, ts, known, limit) <=> Eval!Folds(g, m, ts, D)
  <2>1. [s \in SUBSET D |-> IF s = {} THEN Start(m) ELSE Advance(m, ts[Max(s)], g[s \ {Max(s)}])]
        = [s \in SUBSET D |-> IF s = {} THEN OnChain(known)
                              ELSE IF Len(g[s \ {Max(s)}].trxs) <= limit /\ valid(ts[Max(s)], g[s \ {Max(s)}]) /\ Fee[ts[Max(s)]] >= RelayFee
                                       THEN Applied(ts[Max(s)], g[s \ {Max(s)}]) ELSE g[s \ {Max(s)}]]
    BY <1>2, <1>3
  <2>2. QED BY <2>1 DEF Eval!Folds, Eval!Max, Max, RawPool
<1> HIDE DEF D
<1>5. PICK h : Eval!Folds(h, m, ts, D)
  BY <1>1, Eval!FoldsExists
<1>6. RawPool(CHOOSE g : RawPool(g, ts, known, limit), ts, known, limit)
  <2>1. RawPool(h, ts, known, limit)
    BY <1>4, <1>5
  <2>2. QED BY <2>1
<1>7. Eval!Folds(CHOOSE g : RawPool(g, ts, known, limit), m, ts, D)
  BY <1>4, <1>6
<1>8. (CHOOSE g : RawPool(g, ts, known, limit))[D] = Eval!FoldOver(m, ts, D)
  BY <1>1, <1>7, Eval!FoldOfFolds
<1>9. QED BY <1>1, <1>8 DEF Eval!Fold, Eval!FoldTo, D, m

RawBlock(g, ts, known) ==
  g = [s \in SUBSET DOMAIN ts |-> IF s = {} THEN OnChain(known)
                                  ELSE IF valid(ts[Max(s)], g[s \ {Max(s)}]) THEN Applied(ts[Max(s)], g[s \ {Max(s)}])
                                       ELSE g[s \ {Max(s)}]]

LEMMA BlockFold ==
  ASSUME NEW known, NEW ts \in Seq(Trx)
  PROVE  (CHOOSE g : RawBlock(g, ts, known))[DOMAIN ts] = Eval!Fold(BlockLoop(known), ts)
<1> DEFINE m == BlockLoop(known)
           D == DOMAIN ts
<1>1. Eval!Positions(D) /\ D = 1..Len(ts)
  BY DEF Eval!Positions
<1>2. Start(m) = OnChain(known)
  BY DEF Start, BlockLoop
<1>3. \A t, s : Advance(m, t, s) = IF valid(t, s) THEN Applied(t, s)
                                       ELSE s
  BY DEF Advance, Accepts, BlockLoop
<1> HIDE DEF m
<1>4. ASSUME NEW g PROVE RawBlock(g, ts, known) <=> Eval!Folds(g, m, ts, D)
  <2>1. [s \in SUBSET D |-> IF s = {} THEN Start(m) ELSE Advance(m, ts[Max(s)], g[s \ {Max(s)}])]
        = [s \in SUBSET D |-> IF s = {} THEN OnChain(known)
                              ELSE IF valid(ts[Max(s)], g[s \ {Max(s)}]) THEN Applied(ts[Max(s)], g[s \ {Max(s)}])
                                       ELSE g[s \ {Max(s)}]]
    BY <1>2, <1>3
  <2>2. QED BY <2>1 DEF Eval!Folds, Eval!Max, Max, RawBlock
<1> HIDE DEF D
<1>5. PICK h : Eval!Folds(h, m, ts, D)
  BY <1>1, Eval!FoldsExists
<1>6. RawBlock(CHOOSE g : RawBlock(g, ts, known), ts, known)
  <2>1. RawBlock(h, ts, known)
    BY <1>4, <1>5
  <2>2. QED BY <2>1
<1>7. Eval!Folds(CHOOSE g : RawBlock(g, ts, known), m, ts, D)
  BY <1>4, <1>6
<1>8. (CHOOSE g : RawBlock(g, ts, known))[D] = Eval!FoldOver(m, ts, D)
  BY <1>1, <1>7, Eval!FoldOfFolds
<1>9. QED BY <1>1, <1>8 DEF Eval!Fold, Eval!FoldTo, D, m

RawDelegate(g, ts, known) ==
  g = [s \in SUBSET DOMAIN ts |-> IF s = {} THEN OnChain(known)
                                  ELSE IF /\ Len(g[s \ {Max(s)}].trxs) < MaxBlockTrx
                                          /\ block_size(g[s \ {Max(s)}].trxs) + Size[ts[Max(s)]] <= MaxBlockSize
                                          /\ ts[Max(s)] \notin Excluded
                                          /\ valid(ts[Max(s)], g[s \ {Max(s)}])
                                          /\ Fee[ts[Max(s)]] >= MinFee
                                       THEN Applied(ts[Max(s)], g[s \ {Max(s)}]) ELSE g[s \ {Max(s)}]]

LEMMA DelegateFold ==
  ASSUME NEW known, NEW ts \in Seq(Trx)
  PROVE  (CHOOSE g : RawDelegate(g, ts, known))[DOMAIN ts] = Eval!Fold(DelegateLoop(known), ts)
<1> DEFINE m == DelegateLoop(known)
           D == DOMAIN ts
<1>1. Eval!Positions(D) /\ D = 1..Len(ts)
  BY DEF Eval!Positions
<1>2. Start(m) = OnChain(known)
  BY DEF Start, DelegateLoop
<1>3. \A t, s : Advance(m, t, s) = IF /\ Len(s.trxs) < MaxBlockTrx
                                          /\ block_size(s.trxs) + Size[t] <= MaxBlockSize
                                          /\ t \notin Excluded
                                          /\ valid(t, s)
                                          /\ Fee[t] >= MinFee
                                       THEN Applied(t, s) ELSE s
  BY DEF Advance, Accepts, DelegateLoop
<1> HIDE DEF m
<1>4. ASSUME NEW g PROVE RawDelegate(g, ts, known) <=> Eval!Folds(g, m, ts, D)
  <2>1. [s \in SUBSET D |-> IF s = {} THEN Start(m) ELSE Advance(m, ts[Max(s)], g[s \ {Max(s)}])]
        = [s \in SUBSET D |-> IF s = {} THEN OnChain(known)
                              ELSE IF /\ Len(g[s \ {Max(s)}].trxs) < MaxBlockTrx
                                          /\ block_size(g[s \ {Max(s)}].trxs) + Size[ts[Max(s)]] <= MaxBlockSize
                                          /\ ts[Max(s)] \notin Excluded
                                          /\ valid(ts[Max(s)], g[s \ {Max(s)}])
                                          /\ Fee[ts[Max(s)]] >= MinFee
                                       THEN Applied(ts[Max(s)], g[s \ {Max(s)}]) ELSE g[s \ {Max(s)}]]
    BY <1>2, <1>3
  <2>2. QED BY <2>1 DEF Eval!Folds, Eval!Max, Max, RawDelegate
<1> HIDE DEF D
<1>5. PICK h : Eval!Folds(h, m, ts, D)
  BY <1>1, Eval!FoldsExists
<1>6. RawDelegate(CHOOSE g : RawDelegate(g, ts, known), ts, known)
  <2>1. RawDelegate(h, ts, known)
    BY <1>4, <1>5
  <2>2. QED BY <2>1
<1>7. Eval!Folds(CHOOSE g : RawDelegate(g, ts, known), m, ts, D)
  BY <1>4, <1>6
<1>8. (CHOOSE g : RawDelegate(g, ts, known))[D] = Eval!FoldOver(m, ts, D)
  BY <1>1, <1>7, Eval!FoldOfFolds
<1>9. QED BY <1>1, <1>8 DEF Eval!Fold, Eval!FoldTo, D, m

RawSize(g, ts) ==
  g = [s \in SUBSET DOMAIN ts |-> IF s = {} THEN 0
                                  ELSE g[s \ {Max(s)}] + BlockSize[ts[Max(s)]]]

LEMMA SizeFold ==
  ASSUME NEW ts \in Seq(Trx)
  PROVE  (CHOOSE g : RawSize(g, ts))[DOMAIN ts] = Eval!Fold(SizeLoop, ts)
<1> DEFINE m == SizeLoop
           D == DOMAIN ts
<1>1. Eval!Positions(D) /\ D = 1..Len(ts)
  BY DEF Eval!Positions
<1>2. Start(m) = 0
  BY DEF Start, SizeLoop
<1>3. \A t, s : Advance(m, t, s) = s + BlockSize[t]
  BY DEF Advance, Accepts, SizeLoop
<1> HIDE DEF m
<1>4. ASSUME NEW g PROVE RawSize(g, ts) <=> Eval!Folds(g, m, ts, D)
  <2>1. [s \in SUBSET D |-> IF s = {} THEN Start(m) ELSE Advance(m, ts[Max(s)], g[s \ {Max(s)}])]
        = [s \in SUBSET D |-> IF s = {} THEN 0
                              ELSE g[s \ {Max(s)}] + BlockSize[ts[Max(s)]]]
    BY <1>2, <1>3
  <2>2. QED BY <2>1 DEF Eval!Folds, Eval!Max, Max, RawSize
<1> HIDE DEF D
<1>5. PICK h : Eval!Folds(h, m, ts, D)
  BY <1>1, Eval!FoldsExists
<1>6. RawSize(CHOOSE g : RawSize(g, ts), ts)
  <2>1. RawSize(h, ts)
    BY <1>4, <1>5
  <2>2. QED BY <2>1
<1>7. Eval!Folds(CHOOSE g : RawSize(g, ts), m, ts, D)
  BY <1>4, <1>6
<1>8. (CHOOSE g : RawSize(g, ts))[D] = Eval!FoldOver(m, ts, D)
  BY <1>1, <1>7, Eval!FoldOfFolds
<1>9. QED BY <1>1, <1>8 DEF Eval!Fold, Eval!FoldTo, D, m

LEMMA LoopsAreFolds ==
  /\ \A known, limit : pool \in SUBSET Trx =>
       Reevaluated(known, limit) = Eval!Fold(PoolLoop(known, limit), in_id_order(pool))
  /\ \A trxs \in Seq(Trx) : apply_transactions(trxs) = Eval!Fold(BlockLoop(unique), trxs)
  /\ fees \in SUBSET Trx =>
       generate_block = Eval!Fold(DelegateLoop(unique), get_pending_transactions).trxs
  /\ \A trxs \in Seq(Trx) : block_size(trxs) = Eval!Fold(SizeLoop, trxs)
<1>1. ASSUME NEW known, NEW limit, pool \in SUBSET Trx
      PROVE  Reevaluated(known, limit) = Eval!Fold(PoolLoop(known, limit), in_id_order(pool))
  <2> DEFINE ts == in_id_order(pool)
  <2>1. ts \in Seq(Trx)
    BY <1>1, IdOrderTyped
  <2>2. Reevaluated(known, limit) = (CHOOSE g : RawPool(g, ts, known, limit))[DOMAIN ts]
    BY DEF Reevaluated, EvaluateInOrder, FoldLeft, MapThenFoldSet, RawPool
  <2> HIDE DEF ts
  <2>3. QED BY <2>1, <2>2, PoolFold DEF ts
<1>2. ASSUME NEW trxs \in Seq(Trx)
      PROVE  apply_transactions(trxs) = Eval!Fold(BlockLoop(unique), trxs)
  <2>1. apply_transactions(trxs) = (CHOOSE g : RawBlock(g, trxs, unique))[DOMAIN trxs]
    BY DEF apply_transactions, EvaluateInOrder, FoldLeft, MapThenFoldSet, RawBlock
  <2>2. QED BY <2>1, BlockFold
<1>3. ASSUME fees \in SUBSET Trx
      PROVE  generate_block = Eval!Fold(DelegateLoop(unique), get_pending_transactions).trxs
  <2> DEFINE ts == get_pending_transactions
  <2>1. ts \in Seq(Trx)
    BY <1>3, FeeOrderTyped
  <2>2. generate_block = (CHOOSE g : RawDelegate(g, ts, unique))[DOMAIN ts].trxs
    BY DEF generate_block, EvaluateInOrder, FoldLeft, MapThenFoldSet, RawDelegate
  <2> HIDE DEF ts
  <2>3. QED BY <2>1, <2>2, DelegateFold DEF ts
<1>4. ASSUME NEW trxs \in Seq(Trx)
      PROVE  block_size(trxs) = Eval!Fold(SizeLoop, trxs)
  <2>1. block_size(trxs) = (CHOOSE g : RawSize(g, trxs))[DOMAIN trxs]
    BY DEF block_size, FoldLeft, MapThenFoldSet, RawSize
  <2>2. QED BY <2>1, SizeFold
<1>5. QED BY <1>1, <1>2, <1>3, <1>4

-----------------------------------------------------------------------------
(* What a transfer does to the balances.                                  *)

LEMMA AmountTyped ==
  ASSUME db \in NatTable, NEW o \in NatOverlay
  PROVE  \A k \in Key : amount(o, k) \in Nat
  BY LedgerAssumption DEF NatTable, NatOverlay, amount, lookup

LEMMA EmptyTyped ==
  ASSUME db \in NatTable
  PROVE  EmptyOverlay \in NatOverlay /\ HeadPlus(EmptyOverlay, {})
<1>1. EmptyOverlay \in NatOverlay
  BY DEF EmptyOverlay, NatOverlay, NatTable
<1>2. \A k \in Key : amount(EmptyOverlay, k) \in Nat
  BY <1>1, AmountTyped
<1>3. ASSUME NEW F, NEW k PROVE Count({}, F, k) = 0
  <2>1. {t \in {} : F[t] = k} = {}
    OBVIOUS
  <2>2. QED BY <2>1, FS_EmptySet DEF Count
<1>4. EmptyOverlay.remove = {}
  BY DEF EmptyOverlay
<1>5. QED BY <1>1, <1>2, <1>3, <1>4 DEF HeadPlus

LEMMA InsertAmount ==
  ASSUME db \in NatTable, NEW o \in NatOverlay, NEW j \in Key, NEW v \in Nat
  PROVE  /\ insert(o, j, v) \in NatOverlay
         /\ \A k \in Key : amount(insert(o, j, v), k) = IF k = j THEN v ELSE amount(o, k)
  BY LedgerAssumption DEF NatTable, NatOverlay, amount, lookup, insert

LEMMA TransferAmount ==
  ASSUME db \in NatTable, NEW o \in NatOverlay, NEW t \in Trx, amount(o, From[t]) > 0
  PROVE  /\ transfer(o, t) \in NatOverlay
         /\ \A k \in Key : amount(transfer(o, t), k)
              = amount(o, k) + (IF To[t] = k THEN 1 ELSE 0) - (IF From[t] = k THEN 1 ELSE 0)
<1> DEFINE f == From[t]
           d == To[t]
           v == amount(o, f) - 1
           w == amount(o, d) + 1
           p == insert(o, f, v)
<1>1. f \in Key /\ d \in Key /\ f # d
  BY TrxAssumption
<1>2. \A k \in Key : amount(o, k) \in Nat
  BY AmountTyped
<1>3. v \in Nat /\ w \in Nat
  BY <1>1, <1>2
<1>4. transfer(o, t) = insert(p, d, w)
  BY DEF transfer
<1>5. v = amount(o, f) - 1 /\ w = amount(o, d) + 1 /\ f = From[t] /\ d = To[t]
  OBVIOUS
<1> HIDE DEF f, d, v, w
<1>6. /\ p \in NatOverlay
      /\ \A k \in Key : amount(p, k) = IF k = f THEN v ELSE amount(o, k)
  BY <1>1, <1>3, InsertAmount
<1> HIDE DEF p
<1>7. /\ insert(p, d, w) \in NatOverlay
      /\ \A k \in Key : amount(insert(p, d, w), k) = IF k = d THEN w ELSE amount(p, k)
  BY <1>1, <1>3, <1>6, InsertAmount
<1>8. ASSUME NEW k \in Key
      PROVE  amount(transfer(o, t), k)
              = amount(o, k) + (IF d = k THEN 1 ELSE 0) - (IF f = k THEN 1 ELSE 0)
  <2>1. amount(transfer(o, t), k) = IF k = d THEN w ELSE IF k = f THEN v ELSE amount(o, k)
    BY <1>4, <1>6, <1>7
  <2>2. QED BY <2>1, <1>1, <1>2, <1>5
<1>9. QED BY <1>4, <1>5, <1>7, <1>8

LEMMA CountAdded ==
  ASSUME NEW S \in SUBSET Trx, NEW t \in Trx, t \notin S, NEW F, NEW k
  PROVE  /\ Count(S, F, k) \in Nat
         /\ Count(S \union {t}, F, k) = Count(S, F, k) + (IF F[t] = k THEN 1 ELSE 0)
<1> DEFINE C == {u \in S : F[u] = k}
<1>1. IsFiniteSet(C)
  <2>1. C \in SUBSET Trx
    OBVIOUS
  <2>2. QED BY <2>1, TrxAssumption, FS_Subset
<1>2. Cardinality(C) \in Nat
  BY <1>1, FS_CardinalityType
<1>3. CASE F[t] = k
  <2>1. {u \in S \union {t} : F[u] = k} = C \union {t} /\ t \notin C
    BY <1>3
  <2>2. Cardinality(C \union {t}) = Cardinality(C) + 1
    <3> HIDE DEF C
    <3>1. QED BY <1>1, <2>1, FS_AddElement
  <2>3. QED BY <1>2, <1>3, <2>1, <2>2 DEF Count
<1>4. CASE F[t] # k
  <2>1. {u \in S \union {t} : F[u] = k} = C
    BY <1>4
  <2>2. QED BY <1>2, <1>4, <2>1 DEF Count
<1>5. QED BY <1>3, <1>4

LEMMA TransferWorth ==
  ASSUME db \in NatTable, NEW o \in NatOverlay, NEW t \in Trx, amount(o, From[t]) > 0
  PROVE  Worth(transfer(o, t), db) = Worth(o, db)
<1> DEFINE f == Amounts(o, db)
           h == Amounts(transfer(o, t), db)
           a == From[t]
           b == To[t]
           g == [k \in Key |-> IF k = a THEN h[k] ELSE f[k]]
<1>1. a \in Key /\ b \in Key /\ a # b
  BY TrxAssumption
<1>2. /\ transfer(o, t) \in NatOverlay
      /\ \A k \in Key : amount(transfer(o, t), k)
           = amount(o, k) + (IF b = k THEN 1 ELSE 0) - (IF a = k THEN 1 ELSE 0)
  BY TransferAmount
<1>3. \A k \in Key : f[k] = amount(o, k) /\ h[k] = amount(transfer(o, t), k)
  BY DEF Amounts, amount
<1>4. \A k \in Key : f[k] \in Nat /\ h[k] \in Nat
  BY <1>2, <1>3, AmountTyped
<1>5. \A k \in Key : h[k] = f[k] + (IF b = k THEN 1 ELSE 0) - (IF a = k THEN 1 ELSE 0)
  BY <1>2, <1>3
<1> HIDE DEF f, h, a, b
<1>6. /\ g[a] = h[a] /\ g[b] = f[b]
      /\ \A k \in Key : g[k] \in Int /\ f[k] \in Int /\ h[k] \in Int
      /\ \A k \in Key \ {a} : g[k] = f[k]
      /\ \A k \in Key \ {b} : h[k] = g[k]
  <2>1. \A k \in Key : g[k] = IF k = a THEN h[k] ELSE f[k]
    OBVIOUS
  <2>2. ASSUME NEW k \in Key, k # a, k # b PROVE h[k] = f[k]
    <3>1. h[k] = f[k] + 0 - 0 /\ f[k] \in Nat
      BY <2>2, <1>4, <1>5
    <3>2. QED BY <3>1
  <2> HIDE DEF g
  <2>3. QED BY <2>1, <2>2, <1>1, <1>4
<1> HIDE DEF g
<1>7. SumOf(g, Key) = SumOf(f, Key) + (g[a] - f[a])
  BY <1>1, <1>6, ValueAssumption, SumUpdate
<1>8. SumOf(h, Key) = SumOf(g, Key) + (h[b] - g[b])
  <2>1. \A k \in Key : g[k] \in Int /\ h[k] \in Int
    BY <1>6
  <2>2. \A k \in Key \ {b} : h[k] = g[k]
    BY <1>6
  <2>3. IsFiniteSet(Key)
    BY ValueAssumption
  <2>4. QED BY <1>1, <2>1, <2>2, <2>3, SumUpdate
<1>9. g[a] - f[a] = -1 /\ h[b] - g[b] = 1
  BY <1>1, <1>4, <1>5, <1>6
<1>10. SumOf(f, Key) \in Int
  BY <1>4, ValueAssumption, SumNat
<1>11. SumOf(h, Key) = SumOf(f, Key)
  BY <1>7, <1>8, <1>9, <1>10
<1>12. QED BY <1>11 DEF Worth, f, h

(* One more transaction *)
LEMMA TransferHeadPlus ==
  ASSUME db \in NatTable, NEW o \in NatOverlay, NEW S \in SUBSET Trx, HeadPlus(o, S),
         NEW t \in Trx, t \notin S, amount(o, From[t]) > 0
  PROVE  HeadPlus(transfer(o, t), S \union {t})
<1>1. ASSUME NEW k \in Key
      PROVE  amount(transfer(o, t), k) = amount(EmptyOverlay, k)
               + Count(S \union {t}, To, k) - Count(S \union {t}, From, k)
  <2>1. /\ amount(o, k) \in Nat
        /\ amount(EmptyOverlay, k) \in Nat
    BY AmountTyped, EmptyTyped
  <2>2. amount(transfer(o, t), k)
          = amount(o, k) + (IF To[t] = k THEN 1 ELSE 0) - (IF From[t] = k THEN 1 ELSE 0)
    BY TransferAmount
  <2>3. /\ Count(S, To, k) \in Nat /\ Count(S, From, k) \in Nat
        /\ Count(S \union {t}, To, k) = Count(S, To, k) + (IF To[t] = k THEN 1 ELSE 0)
        /\ Count(S \union {t}, From, k) = Count(S, From, k) + (IF From[t] = k THEN 1 ELSE 0)
    <3>1. /\ Count(S, To, k) \in Nat
          /\ Count(S \union {t}, To, k) = Count(S, To, k) + (IF To[t] = k THEN 1 ELSE 0)
      <4>1. \A F : /\ Count(S, F, k) \in Nat
                  /\ Count(S \union {t}, F, k) = Count(S, F, k) + (IF F[t] = k THEN 1 ELSE 0)
        BY CountAdded
      <4>2. QED BY <4>1
    <3>2. /\ Count(S, From, k) \in Nat
          /\ Count(S \union {t}, From, k) = Count(S, From, k) + (IF From[t] = k THEN 1 ELSE 0)
      BY CountAdded
    <3>3. QED BY <3>1, <3>2
  <2>4. amount(o, k) = amount(EmptyOverlay, k) + Count(S, To, k) - Count(S, From, k)
    BY DEF HeadPlus
  <2>5. QED BY <2>1, <2>2, <2>3, <2>4
<1>2. transfer(o, t).remove = {}
  <2>1. o.remove = {}
    BY DEF HeadPlus
  <2>2. QED BY <2>1 DEF transfer, insert
<1>3. Worth(transfer(o, t), db) = Worth(EmptyOverlay, db)
  BY TransferWorth DEF HeadPlus
<1>4. QED BY <1>1, <1>2, <1>3 DEF HeadPlus

LEMMA EvaluatedRecord ==
  ASSUME NEW known, NEW o \in NatOverlay, NEW S \in SUBSET Trx, NEW q \in Seq(Trx),
         Cardinality(S) = Len(q), HeadPlus(o, S)
  PROVE  [state |-> o, seen |-> S, below |-> known, trxs |-> q] \in Evaluated(known)
<1> DEFINE e == [state |-> o, seen |-> S, below |-> known, trxs |-> q]
<1>1. /\ e \in [state : NatOverlay, seen : SUBSET Trx, below : {known}, trxs : Seq(Trx)]
      /\ e.state = o /\ e.seen = S /\ e.trxs = q
  OBVIOUS
<1> HIDE DEF e
<1>2. e \in Evaluated(known)
  BY <1>1 DEF Evaluated
<1>3. QED BY <1>2 DEF e

LEMMA AppliedRecord ==
  ASSUME NEW A, NEW B, NEW C, NEW D, NEW s \in [state : A, seen : B, below : C, trxs : D],
         NEW x, NEW y, NEW z
  PROVE  [s EXCEPT !.state = x, !.seen = y, !.trxs = z]
           = [state |-> x, seen |-> y, below |-> s.below, trxs |-> z]
<1> DEFINE e == [s EXCEPT !.state = x, !.seen = y, !.trxs = z]
           b == s.below
<1>1. e \in [state : {x}, seen : {y}, below : {b}, trxs : {z}]
  OBVIOUS
<1> HIDE DEF e, b
<1>2. e = [state |-> x, seen |-> y, below |-> b, trxs |-> z]
  BY <1>1
<1>3. QED BY <1>2 DEF e, b

LEMMA AppliedEvaluated ==
  ASSUME db \in NatTable, NEW known, NEW s \in Evaluated(known), NEW t \in Trx, valid(t, s)
  PROVE  /\ Applied(t, s) \in Evaluated(known)
         /\ Applied(t, s).trxs = Append(s.trxs, t)
<1>1. /\ s.state \in NatOverlay /\ s.seen \in SUBSET Trx /\ s.below = known
      /\ s.trxs \in Seq(Trx)
      /\ Cardinality(s.seen) = Len(s.trxs)
      /\ HeadPlus(s.state, s.seen)
  BY DEF Evaluated
<1>2. t \notin s.seen /\ amount(s.state, From[t]) > 0
  BY DEF valid, is_known_transaction
<1>3. Applied(t, s) = [state |-> transfer(s.state, t), seen |-> s.seen \union {t},
                       below |-> known, trxs |-> Append(s.trxs, t)]
  <2>1. s \in [state : NatOverlay, seen : SUBSET Trx, below : {known}, trxs : Seq(Trx)]
    BY DEF Evaluated
  <2>2. Applied(t, s) = [s EXCEPT !.state = transfer(s.state, t),
                                  !.seen = s.seen \union {t}, !.trxs = Append(s.trxs, t)]
    BY DEF Applied
  <2>3. QED BY <2>1, <2>2, <1>1, AppliedRecord
<1>4. /\ transfer(s.state, t) \in NatOverlay
      /\ HeadPlus(transfer(s.state, t), s.seen \union {t})
  BY <1>1, <1>2, TransferAmount, TransferHeadPlus
<1>5. Cardinality(s.seen \union {t}) = Len(Append(s.trxs, t))
  <2>1. IsFiniteSet(s.seen)
    BY <1>1, TrxAssumption, FS_Subset
  <2>2. Cardinality(s.seen \union {t}) = Cardinality(s.seen) + 1
    BY <1>2, <2>1, FS_AddElement
  <2>3. QED BY <1>1, <2>2
<1>6. s.seen \union {t} \in SUBSET Trx /\ Append(s.trxs, t) \in Seq(Trx)
  BY <1>1
<1> DEFINE o == transfer(s.state, t)
           S == s.seen \union {t}
           q == Append(s.trxs, t)
<1>7. /\ o \in NatOverlay /\ S \in SUBSET Trx /\ q \in Seq(Trx)
      /\ Cardinality(S) = Len(q) /\ HeadPlus(o, S)
      /\ Applied(t, s) = [state |-> o, seen |-> S, below |-> known, trxs |-> q]
  BY <1>3, <1>4, <1>5, <1>6
<1> HIDE DEF o, S, q
<1>8. Applied(t, s) \in Evaluated(known)
  BY <1>7, EvaluatedRecord
<1>9. QED BY <1>7, <1>8 DEF q

Evaluates(m) == m.loop = "pool" \/ m.loop = "block" \/ m.loop = "delegate"

LEMMA FoldEvaluated ==
  ASSUME db \in NatTable, NEW m, Evaluates(m), NEW ts \in Seq(Trx)
  PROVE  \A i \in 0..Len(ts) : Eval!FoldTo(m, ts, i) \in Evaluated(m.known)
<1>1. \A s : Holds(m, s) <=> s \in Evaluated(m.known)
  BY DEF Holds, Evaluates
<1>2. Start(m) = OnChain(m.known)
  BY DEF Start, Evaluates
<1>3. OnChain(m.known) \in Evaluated(m.known)
  <2>1. Cardinality({}) = Len(<<>>)
    BY FS_EmptySet
  <2>2. <<>> \in Seq(Trx) /\ {} \in SUBSET Trx
    OBVIOUS
  <2>3. EmptyOverlay \in NatOverlay /\ HeadPlus(EmptyOverlay, {})
    BY EmptyTyped
  <2>4. QED BY <2>1, <2>2, <2>3, EvaluatedRecord DEF OnChain
<1>4. Holds(m, Start(m))
  BY <1>1, <1>2, <1>3
<1>5. ASSUME NEW t \in Trx, NEW s, Holds(m, s) PROVE Holds(m, Advance(m, t, s))
  <2>1. Advance(m, t, s) = s \/ (valid(t, s) /\ Advance(m, t, s) = Applied(t, s))
    BY DEF Advance, Accepts, Evaluates
  <2>2. s \in Evaluated(m.known)
    BY <1>1, <1>5
  <2>3. Advance(m, t, s) \in Evaluated(m.known)
    BY <2>1, <2>2, AppliedEvaluated
  <2>4. QED BY <1>1, <2>3
<1>6. \A i \in 0..Len(ts) : Holds(m, Eval!FoldTo(m, ts, i))
  BY <1>4, <1>5, Eval!FoldHolds
<1>7. QED BY <1>1, <1>6

-----------------------------------------------------------------------------
(* The delegate's block.                                                   *)

(* What the delegate accepted so far is, evaluated again, accepted again:  *)
(* the guards of its loop are those of the block and more.                 *)
LEMMA DelegateFoldAgain ==
  ASSUME db \in NatTable, NEW ts \in Seq(Trx), NEW known
  PROVE  \A i \in 0..Len(ts) :
           Eval!Fold(BlockLoop(known), Eval!FoldTo(DelegateLoop(known), ts, i).trxs)
             = Eval!FoldTo(DelegateLoop(known), ts, i)
<1> DEFINE m == DelegateLoop(known)
           b == BlockLoop(known)
           Again(i) == Eval!Fold(b, Eval!FoldTo(m, ts, i).trxs) = Eval!FoldTo(m, ts, i)
           B == {i \in 0..Len(ts) : ~Again(i)}
<1>1. SUFFICES ASSUME B # {} PROVE FALSE
  OBVIOUS
<1>2. PICK i \in B : \A j \in B : i <= j
  <2>1. B \in SUBSET (0..Len(ts)) /\ Len(ts) \in Nat
    OBVIOUS
  <2> HIDE DEF B
  <2>2. QED BY <1>1, <2>1, FirstIndex
<1>m. Evaluates(m) /\ m.known = known /\ Start(m) = OnChain(known) /\ Start(b) = OnChain(known)
  BY DEF Evaluates, DelegateLoop, BlockLoop, Start
<1>a. \A t, s : \/ Advance(m, t, s) = s
                \/ /\ valid(t, s)
                   /\ Advance(m, t, s) = Applied(t, s)
                   /\ Advance(b, t, s) = Applied(t, s)
  BY DEF Advance, Accepts, DelegateLoop, BlockLoop
<1> HIDE DEF m, b
<1>4. i # 0
  <2>1. Eval!FoldTo(m, ts, 0) = OnChain(known)
    BY <1>m, Eval!FoldStep
  <2>2. OnChain(known).trxs = <<>>
    BY DEF OnChain
  <2>3. Eval!Fold(b, <<>>) = OnChain(known)
    BY <1>m, Eval!FoldStep DEF Eval!Fold
  <2>4. QED BY <1>2, <2>1, <2>2, <2>3
<1>5. i - 1 \in Nat /\ i - 1 \in 0..Len(ts) /\ i \in 1..Len(ts) /\ (i - 1) + 1 = i /\ ~(i <= i - 1)
  BY <1>4
<1> DEFINE s == Eval!FoldTo(m, ts, i - 1)
           t == ts[i]
<1>6. Eval!Fold(b, s.trxs) = s
  BY <1>2, <1>5
<1>7. Eval!FoldTo(m, ts, i) = Advance(m, t, s)
  BY <1>5, Eval!FoldStep
<1>8. t \in Trx
  BY <1>5
<1>9. s \in Evaluated(known) /\ s.trxs \in Seq(Trx)
  <2>1. s \in Evaluated(known)
    BY <1>5, <1>m, FoldEvaluated
  <2> HIDE DEF s
  <2>2. QED BY <2>1 DEF Evaluated
<1>10. ~Again(i)
  BY <1>2
<1> HIDE DEF s, t
<1>11. CASE Advance(m, t, s) = s
  BY <1>6, <1>7, <1>10, <1>11
<1>12. CASE /\ valid(t, s)
            /\ Advance(m, t, s) = Applied(t, s)
            /\ Advance(b, t, s) = Applied(t, s)
  <2>1. Applied(t, s).trxs = Append(s.trxs, t)
    BY <1>8, <1>9, <1>12, AppliedEvaluated
  <2>2. Eval!Fold(b, Append(s.trxs, t)) = Advance(b, t, Eval!Fold(b, s.trxs))
    BY <1>8, <1>9, Eval!FoldAppend
  <2>3. QED BY <1>6, <1>7, <1>10, <1>12, <2>1, <2>2
<1>13. QED BY <1>a, <1>11, <1>12

LEMMA GeneratedAgain ==
  ASSUME db \in NatTable, fees \in SUBSET Trx
  PROVE  GeneratedAccepted
<1> DEFINE ts == get_pending_transactions
           m == DelegateLoop(unique)
           n == Len(ts)
           s == Eval!FoldTo(m, ts, n)
<1>1. ts \in Seq(Trx) /\ n \in Nat /\ n \in 0..n
  BY FeeOrderTyped
<1>2. Evaluates(m) /\ m.known = unique
  BY DEF Evaluates, DelegateLoop
<1>3. Eval!Fold(BlockLoop(unique), s.trxs) = s
  <2> HIDE DEF ts
  <2>1. QED BY <1>1, DelegateFoldAgain
<1>4. s \in Evaluated(unique)
  <2> HIDE DEF ts, m
  <2>1. QED BY <1>1, <1>2, FoldEvaluated
<1>5. generate_block = s.trxs
  BY LoopsAreFolds DEF Eval!Fold
<1> HIDE DEF s
<1>6. s.trxs \in Seq(Trx)
  BY <1>4 DEF Evaluated
<1>7. apply_transactions(s.trxs) = s
  BY <1>3, <1>6, LoopsAreFolds
<1>8. QED BY <1>5, <1>7 DEF GeneratedAccepted

LEMMA SizeNat ==
  ASSUME NEW q \in Seq(Trx)
  PROVE  Eval!Fold(SizeLoop, q) \in Nat
<1> DEFINE m == SizeLoop
<1>1. Start(m) = 0 /\ \A s : Holds(m, s) <=> s \in Nat
  BY DEF Start, Holds, SizeLoop
<1>2. \A t, s : Advance(m, t, s) = s + BlockSize[t]
  BY DEF Advance, SizeLoop
<1> HIDE DEF m
<1>3. ASSUME NEW t \in Trx, NEW s, Holds(m, s) PROVE Holds(m, Advance(m, t, s))
  <2>1. BlockSize[t] \in Nat
    BY TrxAssumption
  <2>2. QED BY <1>1, <1>2, <1>3, <2>1
<1>4. Holds(m, Start(m))
  BY <1>1
<1>5. \A i \in 0..Len(q) : Holds(m, Eval!FoldTo(m, q, i))
  BY <1>3, <1>4, Eval!FoldHolds
<1>6. Len(q) \in 0..Len(q)
  OBVIOUS
<1>7. QED BY <1>1, <1>5, <1>6 DEF Eval!Fold, m

SizeBounded(q) ==
  q # <<>> => block_size(q) <= MaxBlockSize + BlockSize[Last(q)] - Size[Last(q)]

LEMMA DelegateFoldSize ==
  ASSUME db \in NatTable, NEW ts \in Seq(Trx), NEW known
  PROVE  \A i \in 0..Len(ts) : SizeBounded(Eval!FoldTo(DelegateLoop(known), ts, i).trxs)
<1> DEFINE m == DelegateLoop(known)
           B == {i \in 0..Len(ts) : ~SizeBounded(Eval!FoldTo(m, ts, i).trxs)}
<1>1. SUFFICES ASSUME B # {} PROVE FALSE
  OBVIOUS
<1>2. PICK i \in B : \A j \in B : i <= j
  <2>1. B \in SUBSET (0..Len(ts)) /\ Len(ts) \in Nat
    OBVIOUS
  <2> HIDE DEF B
  <2>2. QED BY <1>1, <2>1, FirstIndex
<1>m. Evaluates(m) /\ m.known = known /\ Start(m) = OnChain(known)
  BY DEF Evaluates, DelegateLoop, Start
<1>a. \A t, s : \/ Advance(m, t, s) = s
                \/ /\ valid(t, s)
                   /\ block_size(s.trxs) + Size[t] <= MaxBlockSize
                   /\ Advance(m, t, s) = Applied(t, s)
  BY DEF Advance, Accepts, DelegateLoop
<1> HIDE DEF m
<1>4. i # 0
  <2>1. Eval!FoldTo(m, ts, 0) = OnChain(known)
    BY <1>m, Eval!FoldStep
  <2>2. OnChain(known).trxs = <<>>
    BY DEF OnChain
  <2>3. QED BY <1>2, <2>1, <2>2 DEF SizeBounded
<1>5. i - 1 \in Nat /\ i - 1 \in 0..Len(ts) /\ i \in 1..Len(ts) /\ (i - 1) + 1 = i /\ ~(i <= i - 1)
  BY <1>4
<1> DEFINE s == Eval!FoldTo(m, ts, i - 1)
           t == ts[i]
<1>6. SizeBounded(s.trxs)
  BY <1>2, <1>5
<1>7. Eval!FoldTo(m, ts, i) = Advance(m, t, s)
  BY <1>5, Eval!FoldStep
<1>8. t \in Trx
  BY <1>5
<1>9. s \in Evaluated(known) /\ s.trxs \in Seq(Trx)
  <2>1. s \in Evaluated(known)
    BY <1>5, <1>m, FoldEvaluated
  <2> HIDE DEF s
  <2>2. QED BY <2>1 DEF Evaluated
<1>10. ~SizeBounded(Eval!FoldTo(m, ts, i).trxs)
  BY <1>2
<1> HIDE DEF s, t
<1>11. CASE Advance(m, t, s) = s
  BY <1>6, <1>7, <1>10, <1>11
<1>12. CASE /\ valid(t, s)
            /\ block_size(s.trxs) + Size[t] <= MaxBlockSize
            /\ Advance(m, t, s) = Applied(t, s)
  <2> DEFINE q == s.trxs
             p == Append(q, t)
  <2>1. Applied(t, s).trxs = p
    BY <1>8, <1>9, <1>12, AppliedEvaluated
  <2>2. p \in Seq(Trx) /\ Last(p) = t /\ q \in Seq(Trx)
    BY <1>8, <1>9 DEF Last
  <2>3. block_size(p) = block_size(q) + BlockSize[t] /\ block_size(q) \in Nat
    <3>1. Eval!Fold(SizeLoop, p) = Advance(SizeLoop, t, Eval!Fold(SizeLoop, q))
      <4> HIDE DEF q
      <4>1. QED BY <1>8, <2>2, Eval!FoldAppend
    <3>2. block_size(p) = Eval!Fold(SizeLoop, p) /\ block_size(q) = Eval!Fold(SizeLoop, q)
      <4> HIDE DEF p, q
      <4>1. QED BY <2>2, LoopsAreFolds
    <3>3. Eval!Fold(SizeLoop, q) \in Nat
      <4> HIDE DEF q
      <4>1. QED BY <2>2, SizeNat
    <3> HIDE DEF p, q
    <3>4. QED BY <3>1, <3>2, <3>3 DEF Advance, SizeLoop
  <2>4. block_size(q) + Size[t] <= MaxBlockSize
    BY <1>12
  <2>5. Size[t] \in Nat /\ BlockSize[t] \in Nat /\ MaxBlockSize \in Nat
    BY <1>8, TrxAssumption, LimitsAssumption
  <2> HIDE DEF p, q
  <2>6. block_size(p) <= MaxBlockSize + BlockSize[t] - Size[t]
    BY <2>3, <2>4, <2>5
  <2>7. SizeBounded(p)
    BY <2>2, <2>6 DEF SizeBounded
  <2>8. QED BY <1>7, <1>10, <1>12, <2>1, <2>7
<1>13. QED BY <1>a, <1>11, <1>12

LEMMA GeneratedSize ==
  ASSUME db \in NatTable, fees \in SUBSET Trx
  PROVE  BlockSizeBounded
<1> DEFINE ts == get_pending_transactions
           n == Len(ts)
           s == Eval!FoldTo(DelegateLoop(unique), ts, n)
<1>1. ts \in Seq(Trx) /\ n \in Nat /\ n \in 0..n
  BY FeeOrderTyped
<1>2. SizeBounded(s.trxs)
  <2> HIDE DEF ts
  <2>1. QED BY <1>1, DelegateFoldSize
<1>3. generate_block = s.trxs
  BY LoopsAreFolds DEF Eval!Fold
<1> HIDE DEF s
<1>4. QED BY <1>2, <1>3 DEF BlockSizeBounded, SizeBounded

-----------------------------------------------------------------------------
(***************************************************************************)
(* The induction on the pending state.  Between a pop and the end of the   *)
(* switch the pending state is stale; every switch ends in an extension,   *)
(* which clears it.                                                        *)
(***************************************************************************)
HeldTypes ==
  /\ db \in NatTable
  /\ undo \in Seq(NatTable) /\ Len(undo) = Len(chain)
  /\ pool \in SUBSET Trx /\ fees \in SUBSET Trx /\ digests \in SUBSET Trx
  /\ pending \in NatOverlay
  /\ switching \in Nat
PendingMatches == switching = 0 => digests = fees /\ HeadPlus(pending, fees)
HeldInv == PoolInv /\ HeldTypes /\ PendingMatches /\ NothingForgotten

LEMMA BlockTrxsSeq == BlockTrxs \subseteq Seq(Trx)
<1>1. ASSUME NEW x \in BlockTrxs PROVE x \in Seq(Trx)
  <2>1. PICK n \in 0..MaxBlockTrx : x \in [1..n -> Trx]
    BY DEF BlockTrxs
  <2>2. n \in Nat
    BY LimitsAssumption
  <2>3. QED BY <2>1, <2>2
<1>2. QED BY <1>1

LEMMA InitHeld == Init => HeldInv
<1>1. SUFFICES ASSUME Init PROVE HeldInv
  OBVIOUS
<1>2. db \in NatTable
  BY <1>1, LedgerAssumption DEF Init, Table, NatTable
<1>3. EmptyOverlay \in NatOverlay /\ HeadPlus(EmptyOverlay, {})
  BY <1>2, EmptyTyped
<1>4. HeldTypes
  BY <1>1, <1>2, <1>3 DEF Init, HeldTypes
<1>5. PendingMatches /\ NothingForgotten
  BY <1>1, <1>3 DEF Init, PendingMatches, NothingForgotten
<1>6. QED BY <1>1, <1>4, <1>5, InitPool DEF HeldInv

LEMMA SmallerFees ==
  ASSUME NEW S \in SUBSET Trx, NEW T \in SUBSET S
  PROVE  /\ Cardinality(S) \in Nat /\ Cardinality(T) \in Nat
         /\ Cardinality(T) <= Cardinality(S)
<1>1. IsFiniteSet(S)
  BY TrxAssumption, FS_Subset
<1>2. IsFiniteSet(T) /\ Cardinality(T) <= Cardinality(S)
  BY <1>1, FS_Subset
<1>3. QED BY <1>1, <1>2, FS_CardinalityType

(* HeadPlus is about the head, and the head stays. *)
LEMMA SameHead ==
  ASSUME db' = db, NEW o, NEW S, HeadPlus(o, S), pending' = o, fees' = S
  PROVE  HeadPlus(pending, fees)'
<1>1. \A k : amount(pending, k)' = amount(o, k) /\ amount(EmptyOverlay, k)' = amount(EmptyOverlay, k)
  BY DEF amount, lookup, EmptyOverlay
<1>2. pending'.remove = {} /\ Worth(pending, db)' = Worth(EmptyOverlay, db)'
  BY DEF HeadPlus, Worth, Amounts, lookup, EmptyOverlay
<1>3. QED BY <1>1, <1>2 DEF HeadPlus, Count

LEMMA StoreHolds ==
  ASSUME HeldInv, NEW t \in Trx, NEW override_limits \in BOOLEAN,
         store_pending_transaction(t, override_limits)
  PROVE  HeldTypes' /\ PendingMatches' /\ NothingForgotten'
<1> DEFINE s == [OnChain(unique) EXCEPT !.state = pending, !.seen = digests]
           o == transfer(pending, t)
           S == fees \union {t}
<1>1. /\ switching = 0
      /\ fees' = S /\ pool' = pool \union {t}
      /\ UNCHANGED <<chain, db, undo, unique, scheduled, switching, unproven>>
  BY DEF store_pending_transaction
<1>2. s \in [state : {pending}, seen : {digests}, below : {unique}, trxs : {<<>>}]
  <2> DEFINE c == OnChain(unique)
  <2>1. c \in [state : {EmptyOverlay}, seen : {{}}, below : {unique}, trxs : {<<>>}]
    BY DEF OnChain
  <2>2. s = [c EXCEPT !.state = pending, !.seen = digests]
    OBVIOUS
  <2> HIDE DEF c, s
  <2>3. QED BY <2>1, <2>2
<1>3. /\ t \notin digests /\ amount(pending, From[t]) > 0
      /\ pending' = o /\ digests' = digests \union {t}
  <2>1. valid(t, s) /\ pending' = Applied(t, s).state /\ digests' = Applied(t, s).seen
    BY DEF store_pending_transaction, evaluate_transaction
  <2>2. s.state = pending /\ s.seen = digests
    BY <1>2
  <2>3. Applied(t, s) = [s EXCEPT !.state = transfer(s.state, t),
                                  !.seen = s.seen \union {t}, !.trxs = Append(s.trxs, t)]
    BY DEF Applied
  <2> HIDE DEF s
  <2>5. Applied(t, s).state = transfer(s.state, t) /\ Applied(t, s).seen = s.seen \union {t}
    BY <1>2, <2>3
  <2>6. t \notin s.seen /\ amount(s.state, From[t]) > 0
    BY <2>1 DEF valid, is_known_transaction
  <2>7. QED BY <2>1, <2>2, <2>5, <2>6
<1>4. /\ db \in NatTable /\ pending \in NatOverlay
      /\ fees \in SUBSET Trx /\ digests = fees
      /\ HeadPlus(pending, fees)
  BY <1>1 DEF HeldInv, HeldTypes, PendingMatches
<1>5. o \in NatOverlay /\ HeadPlus(o, S)
  BY <1>3, <1>4, TransferAmount, TransferHeadPlus
<1>6. S \in SUBSET Trx /\ digests' = S
  BY <1>3, <1>4
<1> HIDE DEF o, S, s
<1>7. HeldTypes'
  BY <1>1, <1>3, <1>5, <1>6 DEF HeldInv, HeldTypes
<1>8. PendingMatches'
  <2>1. HeadPlus(pending, fees)'
    BY <1>1, <1>3, <1>5, SameHead
  <2>2. QED BY <2>1, <1>1, <1>6 DEF PendingMatches
<1>9. NothingForgotten'
  <2>1. SUFFICES ASSUME ~scheduled, Cardinality(S) <= MaxRevalidate
                 PROVE  pool' \ fees' \subseteq unproven
    BY <1>1 DEF NothingForgotten
  <2>2. Cardinality(fees) <= MaxRevalidate
    <3>1. fees \in SUBSET S
      BY DEF S
    <3>2. /\ Cardinality(S) \in Nat /\ Cardinality(fees) \in Nat
          /\ Cardinality(fees) <= Cardinality(S)
      BY <1>6, <3>1, SmallerFees
    <3>3. MaxRevalidate \in Nat
      BY LimitsAssumption
    <3>4. QED BY <2>1, <3>2, <3>3
  <2>3. pool \ fees \subseteq unproven
    BY <1>1, <2>1, <2>2 DEF HeldInv, NothingForgotten
  <2>4. QED BY <1>1, <2>3 DEF S
<1>10. QED BY <1>7, <1>8, <1>9

(* The loops over the pool give a state of the head. *)
LEMMA ReevaluatedTyped ==
  ASSUME HeldTypes, NEW known, NEW limit
  PROVE  Reevaluated(known, limit) \in Evaluated(known)
<1> DEFINE m == PoolLoop(known, limit)
           ts == in_id_order(pool)
           n == Len(ts)
<1>1. ts \in Seq(Trx) /\ n \in Nat /\ n \in 0..n
  BY IdOrderTyped DEF HeldTypes
<1>2. Evaluates(m) /\ m.known = known
  BY DEF Evaluates, PoolLoop
<1>3. Reevaluated(known, limit) = Eval!FoldTo(m, ts, n)
  BY LoopsAreFolds DEF HeldTypes, Eval!Fold
<1> HIDE DEF m, ts
<1>4. QED BY <1>1, <1>2, <1>3, FoldEvaluated DEF HeldTypes

LEMMA UsePendingHolds ==
  ASSUME HeldInv, NEW known, NEW s \in Evaluated(known), UsePending(s),
         UNCHANGED <<chain, db, undo, switching>>, pool' \subseteq pool
  PROVE  HeldTypes' /\ PendingMatches'
<1>1. /\ s.state \in NatOverlay /\ s.seen \in SUBSET Trx
      /\ HeadPlus(s.state, s.seen)
  BY DEF Evaluated
<1>2. pending' = s.state /\ digests' = s.seen /\ fees' = s.seen
  BY DEF UsePending
<1>3. HeldTypes'
  BY <1>1, <1>2 DEF HeldInv, HeldTypes
<1>4. HeadPlus(pending, fees)'
  BY <1>1, <1>2, SameHead
<1>5. QED BY <1>2, <1>3, <1>4 DEF PendingMatches

LEMMA RevalidateHolds ==
  ASSUME HeldInv, revalidate_pending
  PROVE  HeldTypes' /\ PendingMatches' /\ NothingForgotten'
<1> DEFINE s == Reevaluated(unique, MaxRevalidate)
<1>1. s \in Evaluated(unique)
  BY ReevaluatedTyped DEF HeldInv
<1>2. /\ UsePending(s) /\ pool' = pool \ (visited(s) \ s.seen)
      /\ UNCHANGED <<chain, db, undo, unique, switching>>
  BY DEF revalidate_pending
<1> HIDE DEF s
<1>3. HeldTypes' /\ PendingMatches'
  BY <1>1, <1>2, UsePendingHolds
<1>4. NothingForgotten'
  <2>1. SUFFICES ASSUME Cardinality(fees') <= MaxRevalidate
                 PROVE  pool' \ fees' \subseteq unproven'
    BY DEF NothingForgotten
  <2>2. fees' = s.seen /\ Cardinality(s.seen) = Len(s.trxs)
    BY <1>1, <1>2 DEF UsePending, Evaluated
  <2>3. visited(s) = pool
    BY <2>1, <2>2 DEF visited
  <2>4. QED BY <1>2, <2>2, <2>3
<1>5. QED BY <1>3, <1>4

LEMMA OpenHolds ==
  ASSUME HeldInv, open
  PROVE  HeldTypes' /\ PendingMatches' /\ NothingForgotten'
<1> DEFINE known == purge(confirmed, now)
           s == Reevaluated(known, Cardinality(Trx))
<1>1. s \in Evaluated(known)
  <2> HIDE DEF known
  <2>1. QED BY ReevaluatedTyped DEF HeldInv
<1>2. /\ UsePending(s) /\ pool' = pool /\ unproven' = pool \ s.seen
      /\ UNCHANGED <<chain, db, undo, switching>>
  BY DEF open
<1> HIDE DEF s, known
<1>3. HeldTypes' /\ PendingMatches'
  BY <1>1, <1>2, UsePendingHolds
<1>4. NothingForgotten'
  BY <1>2 DEF NothingForgotten, UsePending
<1>5. QED BY <1>3, <1>4

LEMMA AppliedTable ==
  ASSUME NEW o \in NatOverlay, NEW table \in NatTable
  PROVE  apply_changes(o, table) \in NatTable
  BY DEF NatOverlay, NatTable, apply_changes

LEMMA ExtendHolds ==
  ASSUME HeldInv, NEW trxs \in BlockTrxs, NEW time \in 1..MaxTime, extend_chain(trxs, time)
  PROVE  HeldTypes' /\ PendingMatches' /\ NothingForgotten'
<1> DEFINE s == apply_transactions(trxs)
           b == [time |-> time, trxs |-> trxs]
<1>1. /\ chain' = Append(chain, b)
      /\ undo' = Append(undo, db)
      /\ db' = apply_changes(s.state, db)
      /\ pool' = pool \ Range(trxs) /\ fees' = {} /\ digests' = {}
      /\ pending' = EmptyOverlay /\ scheduled' = TRUE
      /\ switching' = IF Len(chain') >= switching THEN 0 ELSE switching
  BY DEF extend_chain, clear_pending
<1>2. trxs \in Seq(Trx)
  BY BlockTrxsSeq
<1>3. s \in Evaluated(unique)
  <2> DEFINE m == BlockLoop(unique)
             n == Len(trxs)
  <2>1. Evaluates(m) /\ m.known = unique
    BY DEF Evaluates, BlockLoop
  <2>2. s = Eval!FoldTo(m, trxs, n) /\ n \in 0..n
    BY <1>2, LoopsAreFolds DEF Eval!Fold
  <2> HIDE DEF m, s
  <2>3. QED BY <1>2, <2>1, <2>2, FoldEvaluated DEF HeldInv, HeldTypes
<1> HIDE DEF s
<1>4. db' \in NatTable
  <2>1. s.state \in NatOverlay
    BY <1>3 DEF Evaluated
  <2>2. QED BY <1>1, <2>1, AppliedTable DEF HeldInv, HeldTypes
<1>5. undo' \in Seq(NatTable) /\ Len(undo') = Len(chain')
  BY <1>1 DEF HeldInv, HeldTypes, PoolInv, ChainOK
<1>6. EmptyOverlay \in NatOverlay
  BY EmptyTyped DEF HeldInv, HeldTypes
<1>7. HeldTypes'
  <2>1. switching' \in Nat
    BY <1>1 DEF HeldInv, HeldTypes
  <2>2. QED BY <1>1, <1>4, <1>5, <1>6, <2>1 DEF HeldInv, HeldTypes
<1>8. PendingMatches'
  <2>1. \A F, k : Count({}, F, k) = 0
    <3>1. \A F, k : {t \in {} : F[t] = k} = {}
      OBVIOUS
    <3>2. QED BY <3>1, FS_EmptySet DEF Count
  <2>2. ASSUME NEW k \in Key PROVE amount(EmptyOverlay, k)' \in Nat
    BY <1>4, LedgerAssumption DEF amount, lookup, EmptyOverlay, NatTable
  <2>3. ASSUME NEW k \in Key
        PROVE  amount(pending, k)' = amount(EmptyOverlay, k)' + Count({}, To, k) - Count({}, From, k)
    <3>1. amount(pending, k)' = amount(EmptyOverlay, k)'
      BY <1>1 DEF amount, EmptyOverlay
    <3>2. QED BY <2>1, <2>2, <3>1
  <2>4. pending'.remove = {} /\ Worth(pending, db)' = Worth(EmptyOverlay, db)'
    BY <1>1 DEF Worth, Amounts, lookup, EmptyOverlay
  <2>5. QED BY <1>1, <2>3, <2>4 DEF PendingMatches, HeadPlus, Count
<1>9. NothingForgotten'
  BY <1>1 DEF NothingForgotten
<1>10. QED BY <1>7, <1>8, <1>9

LEMMA PopHolds ==
  ASSUME HeldInv, pop_block
  PROVE  HeldTypes' /\ PendingMatches' /\ NothingForgotten'
<1>1. /\ chain # <<>> /\ chain' = Front(chain)
      /\ db' = Last(undo) /\ undo' = Front(undo)
      /\ switching' = IF switching = 0 THEN Len(chain) ELSE switching
      /\ UNCHANGED <<pool, fees, pending, digests>>
  BY DEF pop_block
<1>2. /\ Len(chain) \in Nat \ {0} /\ Len(undo) = Len(chain)
      /\ undo \in Seq(NatTable)
      /\ Len(chain') = Len(chain) - 1
  BY <1>1, ConfirmedAfterPop DEF HeldInv, HeldTypes, PoolInv, ChainOK
<1>3. db' \in NatTable
  <2>1. Len(undo) \in 1..Len(undo)
    BY <1>2
  <2>2. QED BY <1>1, <1>2, <2>1 DEF Last
<1>4. undo' \in Seq(NatTable) /\ Len(undo') = Len(undo) - 1
  BY <1>1, <1>2 DEF Front
<1>5. switching' \in Nat /\ switching' # 0
  BY <1>1, <1>2 DEF HeldInv, HeldTypes
<1>6. HeldTypes'
  BY <1>1, <1>2, <1>3, <1>4, <1>5 DEF HeldInv, HeldTypes
<1>7. QED BY <1>5, <1>6 DEF PendingMatches, NothingForgotten

LEMMA StepHolds == HeldInv /\ [Next]_vars => HeldInv'
<1> SUFFICES ASSUME HeldInv, [Next]_vars PROVE HeldInv'
  OBVIOUS
<1>0. PoolInv'
  BY StepKeepsPool DEF HeldInv
<1>a. SUFFICES HeldTypes' /\ PendingMatches' /\ NothingForgotten'
  BY <1>0 DEF HeldInv
<1>1. ASSUME NEW t \in Trx, NEW override_limits \in BOOLEAN,
             store_pending_transaction(t, override_limits)
      PROVE  HeldTypes' /\ PendingMatches' /\ NothingForgotten'
  BY <1>1, StoreHolds
<1>2. CASE revalidate_pending
  BY <1>2, RevalidateHolds
<1>3. ASSUME NEW trxs \in BlockTrxs, NEW time \in 1..MaxTime, extend_chain(trxs, time)
      PROVE  HeldTypes' /\ PendingMatches' /\ NothingForgotten'
  BY <1>3, ExtendHolds
<1>4. ASSUME NEW time \in 1..MaxTime, produce_block(time)
      PROVE  HeldTypes' /\ PendingMatches' /\ NothingForgotten'
  BY <1>4, ExtendHolds DEF produce_block
<1>5. CASE pop_block
  BY <1>5, PopHolds
<1>6. CASE open
  BY <1>6, OpenHolds
<1>7. CASE UNCHANGED vars
  <2>1. UNCHANGED <<chain, db, undo, unique, pool, fees, pending, digests, scheduled, switching, unproven>>
    BY <1>7 DEF vars
  <2>2. HeldTypes' /\ NothingForgotten'
    BY <2>1 DEF HeldInv, HeldTypes, NothingForgotten
  <2>3. PendingMatches'
    <3>1. switching = 0 => HeadPlus(pending, fees)'
      BY <2>1, SameHead DEF HeldInv, PendingMatches
    <3>2. QED BY <2>1, <3>1 DEF HeldInv, PendingMatches
  <2>4. QED BY <2>2, <2>3
<1>8. QED BY <1>1, <1>2, <1>3, <1>4, <1>5, <1>6, <1>7 DEF Next

THEOREM HeldInvariant == Spec => []HeldInv
<1>1. QED BY InitHeld, StepHolds, PTL DEF Spec

(***************************************************************************)
(* _pending_trx_state never shows a stale balance to another fiber: it is  *)
(* the head's state with every transaction of the fee index applied to it  *)
(* once, whatever blocks, pops, revalidations and restarts came before.    *)
(***************************************************************************)
THEOREM PendingCurrent == Spec => []PendingIsHeadPlusFees
<1>1. HeldInv => PendingIsHeadPlusFees
  BY DEF HeldInv, PendingMatches, PendingIsHeadPlusFees, HeadPlus, Count
<1>2. QED BY <1>1, HeldInvariant, PTL

(***************************************************************************)
(* Once the scheduled revalidation has run, short of its limit no          *)
(* transaction of the pool is missing from the fee index, but for those    *)
(* that open could not evaluate.                                           *)
(***************************************************************************)
THEOREM PoolIndexed == Spec => []NothingForgotten
<1>1. HeldInv => NothingForgotten
  BY DEF HeldInv
<1>2. QED BY <1>1, HeldInvariant, PTL

(***************************************************************************)
(* Every block generate_block puts together passes the evaluation that     *)
(* extend_chain makes of it, in whatever order the pool accepted it.       *)
(***************************************************************************)
THEOREM OwnBlockAccepted == Spec => []GeneratedAccepted
<1>1. HeldInv => GeneratedAccepted
  BY GeneratedAgain DEF HeldInv, HeldTypes
<1>2. QED BY <1>1, HeldInvariant, PTL

(***************************************************************************)
(* A generated block is over the delegate's limit by no more than what     *)
(* execution added to its last transaction.                                *)
(***************************************************************************)
THEOREM OwnBlockSize == Spec => []BlockSizeBounded
<1>1. HeldInv => BlockSizeBounded
  BY GeneratedSize DEF HeldInv, HeldTypes
<1>2. QED BY <1>1, HeldInvariant, PTL

-----------------------------------------------------------------------------
(***************************************************************************)
(* Transfers neither create nor destroy anything: the balances of the head *)
(* and of every undo state add up to what the ledger began with, so that   *)
(* no amount is out of range.                                              *)
(***************************************************************************)
BlockRecord == [time : 1..MaxTime, trxs : Seq(Trx)]

RangeInv ==
  /\ chain \in Seq(BlockRecord) /\ Len(chain) <= MaxLen
  /\ Worth(EmptyOverlay, db) = LedgerTotal
  /\ \A i \in 1..Len(undo) : Worth(EmptyOverlay, undo[i]) = LedgerTotal
  /\ pending \in Overlay
  /\ unproven \in SUBSET Trx
  /\ scheduled \in BOOLEAN
  /\ switching \in 0..MaxLen
  /\ highest \in 0..MaxTime

FullInv == HeldInv /\ RangeInv

RawTotal(g) ==
  g = [s \in SUBSET Key |->
         IF s = {} THEN 0
         ELSE (IF OldLedger[CHOOSE x \in s : TRUE] = Absent THEN 0
               ELSE OldLedger[CHOOSE x \in s : TRUE])
              + g[s \ {CHOOSE x \in s : TRUE}]]

LEMMA TotalIsWorth == LedgerTotal = Worth(EmptyOverlay, OldLedger)
<1> DEFINE f == Amounts(EmptyOverlay, OldLedger)
<1>1. LedgerTotal = (CHOOSE g : RawTotal(g))[Key]
  BY DEF LedgerTotal, MapThenSumSet, MapThenFoldSet, RawTotal
<1>2. \A k \in Key : f[k] = IF OldLedger[k] = Absent THEN 0 ELSE OldLedger[k]
  BY DEF Amounts, lookup, EmptyOverlay
<1> HIDE DEF f
<1>3. ASSUME NEW g PROVE RawTotal(g) <=> Sums(g, f, Key)
  <2>1. \A s \in SUBSET Key : s # {} =>
          f[Pick(s)] = IF OldLedger[Pick(s)] = Absent THEN 0 ELSE OldLedger[Pick(s)]
    BY <1>2, PickIn
  <2>2. [s \in SUBSET Key |-> IF s = {} THEN 0
           ELSE (IF OldLedger[Pick(s)] = Absent THEN 0 ELSE OldLedger[Pick(s)])
                + g[s \ {Pick(s)}]]
        = [s \in SUBSET Key |-> IF s = {} THEN 0 ELSE f[Pick(s)] + g[s \ {Pick(s)}]]
    BY <2>1
  <2>3. QED BY <2>2 DEF Sums, Pick, RawTotal
<1>4. PICK h : Sums(h, f, Key)
  BY ValueAssumption, SumsExists
<1>5. RawTotal(CHOOSE g : RawTotal(g))
  <2>1. RawTotal(h)
    BY <1>3, <1>4
  <2>2. QED BY <2>1
<1>6. Sums(CHOOSE g : RawTotal(g), f, Key)
  BY <1>3, <1>5
<1>7. (CHOOSE g : RawTotal(g))[Key] = SumOf(f, Key)
  <2> DEFINE c == CHOOSE g : RawTotal(g)
  <2>1. Sums(c, f, Key) /\ IsFiniteSet(Key) /\ Key \in SUBSET Key
    BY <1>6, ValueAssumption
  <2> HIDE DEF c
  <2>2. c[Key] = SumOf(f, Key)
    BY <2>1, SumOfSums
  <2>3. QED BY <2>2 DEF c
<1>8. QED BY <1>1, <1>7 DEF Worth, f

LEMMA WorthApplied ==
  ASSUME NEW o \in NatOverlay, NEW table \in NatTable
  PROVE  Worth(EmptyOverlay, apply_changes(o, table)) = Worth(o, table)
<1>1. \A k \in Key : lookup(EmptyOverlay, apply_changes(o, table), k) = lookup(o, table, k)
  BY DEF lookup, EmptyOverlay, apply_changes, touched, stored
<1>2. Amounts(EmptyOverlay, apply_changes(o, table)) = Amounts(o, table)
  BY <1>1 DEF Amounts
<1>3. QED BY <1>2 DEF Worth

(* An amount is no more than the total. *)
LEMMA WorthBounds ==
  ASSUME NEW o \in NatOverlay, NEW table \in NatTable, Worth(o, table) = LedgerTotal
  PROVE  \A k \in Key : lookup(o, table, k) \in Value \union {Absent}
<1> DEFINE f == Amounts(o, table)
<1>1. \A k \in Key : lookup(o, table, k) \in Nat \union {Absent}
  BY DEF lookup, NatOverlay, NatTable
<1>2. \A k \in Key : f[k] = IF lookup(o, table, k) = Absent THEN 0 ELSE lookup(o, table, k)
  BY DEF Amounts
<1> HIDE DEF f
<1>3. ASSUME NEW k \in Key PROVE f[k] \in Nat
  <2>1. /\ lookup(o, table, k) \in Nat \union {Absent}
        /\ f[k] = IF lookup(o, table, k) = Absent THEN 0 ELSE lookup(o, table, k)
    BY <1>1, <1>2
  <2>2. QED BY <2>1
<1>4. SumOf(f, Key) \in Nat /\ \A k \in Key : f[k] <= SumOf(f, Key)
  BY <1>3, ValueAssumption, SumNat
<1>5. SumOf(f, Key) = LedgerTotal
  BY DEF Worth, f
<1>6. \A k \in Key : f[k] \in 0..LedgerTotal
  <2>1. ASSUME NEW k \in Key PROVE f[k] \in 0..LedgerTotal
    <3>1. f[k] \in Nat /\ LedgerTotal \in Nat /\ f[k] <= LedgerTotal
      BY <1>3, <1>4, <1>5
    <3>2. QED BY <3>1
  <2>2. QED BY <2>1
<1>7. QED BY <1>2, <1>6, ValueAssumption

LEMMA WorthTable ==
  ASSUME NEW table \in NatTable, Worth(EmptyOverlay, table) = LedgerTotal
  PROVE  table \in Table
<1>1. EmptyOverlay \in NatOverlay
  BY DEF EmptyOverlay, NatOverlay, NatTable
<1>2. \A k \in Key : lookup(EmptyOverlay, table, k) \in Value \union {Absent}
  BY <1>1, WorthBounds
<1>3. \A k \in Key : table[k] \in Value \union {Absent}
  BY <1>2 DEF lookup, EmptyOverlay
<1>4. QED BY <1>3 DEF NatTable, Table

LEMMA WorthOverlay ==
  ASSUME NEW o \in NatOverlay, NEW table \in NatTable, Worth(o, table) = LedgerTotal,
         o.remove = {}
  PROVE  o \in Overlay
<1>1. \A k \in Key : lookup(o, table, k) \in Value \union {Absent}
  BY WorthBounds
<1>2. \A k \in Key : o.store[k] \in Value \union {Absent}
  BY <1>1 DEF lookup
<1>3. o.store \in Table
  BY <1>2 DEF NatOverlay, NatTable, Table
<1>4. o \in [store : Table, remove : SUBSET Key]
  BY <1>3 DEF NatOverlay
<1>5. QED BY <1>4 DEF Overlay

LEMMA EmptyInOverlay == EmptyOverlay \in Overlay
  BY DEF EmptyOverlay, Overlay, Table

(* What the pending state is after a step *)
LEMMA PendingRange ==
  ASSUME RangeInv, HeldInv', Worth(EmptyOverlay, db') = LedgerTotal,
         switching' = 0 \/ pending' = pending \/ pending' = EmptyOverlay
  PROVE  pending' \in Overlay
<1>1. CASE switching' = 0
  <2>1. pending' \in NatOverlay /\ db' \in NatTable
    BY DEF HeldInv, HeldTypes
  <2>2. pending'.remove = {} /\ Worth(pending', db') = LedgerTotal
    BY <1>1 DEF HeldInv, PendingMatches, HeadPlus
  <2>3. QED BY <2>1, <2>2, WorthOverlay
<1>2. CASE pending' = pending
  BY <1>2 DEF RangeInv
<1>3. CASE pending' = EmptyOverlay
  BY <1>3, EmptyInOverlay
<1>4. QED BY <1>1, <1>2, <1>3

LEMMA InitRange == Init => RangeInv
<1>1. SUFFICES ASSUME Init PROVE RangeInv
  OBVIOUS
<1>2. Worth(EmptyOverlay, db) = LedgerTotal
  BY <1>1, TotalIsWorth DEF Init
<1>3. MaxLen \in Nat /\ MaxTime \in Nat
  BY LimitsAssumption
<1>4. chain = <<>> /\ undo = <<>> /\ pending = EmptyOverlay
  BY <1>1 DEF Init
<1>5. chain \in Seq(BlockRecord) /\ Len(chain) = 0 /\ Len(undo) = 0
  BY <1>4
<1>6. \A i \in 1..Len(undo) : Worth(EmptyOverlay, undo[i]) = LedgerTotal
  BY <1>5
<1>7. /\ unproven \in SUBSET Trx /\ scheduled \in BOOLEAN
      /\ switching \in 0..MaxLen /\ highest \in 0..MaxTime
  <2>1. scheduled \in BOOLEAN
    BY <1>1, Zenon DEF Init
  <2>2. unproven = {} /\ switching = 0 /\ highest = 0
    BY <1>1 DEF Init
  <2>3. QED BY <2>1, <2>2, <1>3
<1>8. Len(chain) <= MaxLen
  BY <1>3, <1>5
<1>9. QED BY <1>2, <1>4, <1>5, <1>6, <1>7, <1>8, EmptyInOverlay DEF RangeInv

LEMMA ExtendRange ==
  ASSUME FullInv, HeldInv', NEW trxs \in BlockTrxs, NEW time \in 1..MaxTime,
         extend_chain(trxs, time)
  PROVE  RangeInv'
<1> DEFINE s == apply_transactions(trxs)
           b == [time |-> time, trxs |-> trxs]
<1>1. /\ Len(chain) < MaxLen
      /\ chain' = Append(chain, b)
      /\ undo' = Append(undo, db)
      /\ db' = apply_changes(s.state, db)
      /\ pending' = EmptyOverlay /\ scheduled' = TRUE
      /\ switching' = IF Len(chain') >= switching THEN 0 ELSE switching
      /\ highest' = IF time > highest THEN time ELSE highest
      /\ unproven' = unproven \ Range(trxs)
  BY DEF extend_chain, clear_pending
<1>2. trxs \in Seq(Trx)
  BY BlockTrxsSeq
<1>3. s \in Evaluated(unique)
  <2> DEFINE m == BlockLoop(unique)
             n == Len(trxs)
  <2>1. Evaluates(m) /\ m.known = unique
    BY DEF Evaluates, BlockLoop
  <2>2. s = Eval!FoldTo(m, trxs, n) /\ n \in 0..n
    BY <1>2, LoopsAreFolds DEF Eval!Fold
  <2> HIDE DEF m, s
  <2>3. QED BY <1>2, <2>1, <2>2, FoldEvaluated DEF FullInv, HeldInv, HeldTypes
<1> HIDE DEF s
<1>4. Worth(EmptyOverlay, db') = LedgerTotal
  <2>1. s.state \in NatOverlay /\ Worth(s.state, db) = Worth(EmptyOverlay, db)
    BY <1>3 DEF Evaluated, HeadPlus
  <2>2. db \in NatTable
    BY DEF FullInv, HeldInv, HeldTypes
  <2>3. QED BY <1>1, <2>1, <2>2, WorthApplied DEF FullInv, RangeInv
<1>5. b \in BlockRecord
  BY <1>2 DEF BlockRecord
<1> HIDE DEF b
<1>6. chain' \in Seq(BlockRecord) /\ Len(chain') <= MaxLen
  BY <1>1, <1>5, LimitsAssumption DEF FullInv, RangeInv
<1>7. ASSUME NEW i \in 1..Len(undo') PROVE Worth(EmptyOverlay, undo'[i]) = LedgerTotal
  <2>1. undo \in Seq(NatTable) /\ Len(undo) \in Nat /\ db \in NatTable
    BY DEF FullInv, HeldInv, HeldTypes
  <2>2. Len(undo') = Len(undo) + 1
    BY <1>1, <2>1
  <2>3. CASE i = Len(undo) + 1
    <3>1. undo'[i] = db
      BY <1>1, <2>1, <2>3
    <3>2. QED BY <3>1 DEF FullInv, RangeInv
  <2>4. CASE i \in 1..Len(undo)
    <3>1. undo'[i] = undo[i]
      BY <1>1, <2>1, <2>4
    <3>2. QED BY <2>4, <3>1 DEF FullInv, RangeInv
  <2>5. QED BY <2>1, <2>2, <2>3, <2>4
<1>8. pending' \in Overlay
  BY <1>1, <1>4, PendingRange DEF FullInv
<1>9. switching' \in 0..MaxLen /\ highest' \in 0..MaxTime /\ unproven' \in SUBSET Trx
  <2>1. switching \in 0..MaxLen /\ highest \in 0..MaxTime /\ unproven \in SUBSET Trx
    BY DEF FullInv, RangeInv
  <2>2. MaxLen \in Nat /\ MaxTime \in Nat
    BY LimitsAssumption
  <2>3. QED BY <1>1, <2>1, <2>2
<1>10. QED BY <1>1, <1>4, <1>6, <1>7, <1>8, <1>9 DEF RangeInv

LEMMA PopRange ==
  ASSUME FullInv, HeldInv', pop_block
  PROVE  RangeInv'
<1>1. /\ chain # <<>> /\ chain' = Front(chain)
      /\ db' = Last(undo) /\ undo' = Front(undo)
      /\ switching' = IF switching = 0 THEN Len(chain) ELSE switching
      /\ UNCHANGED <<pending, scheduled, highest, unproven>>
  BY DEF pop_block
<1>2. /\ chain \in Seq(BlockRecord) /\ Len(chain) <= MaxLen
      /\ undo \in Seq(NatTable) /\ Len(undo) = Len(chain)
      /\ switching \in 0..MaxLen
      /\ \A i \in 1..Len(undo) : Worth(EmptyOverlay, undo[i]) = LedgerTotal
  BY DEF FullInv, HeldInv, HeldTypes, RangeInv
<1>3. Len(chain) \in Nat \ {0} /\ MaxLen \in Nat
  BY <1>1, <1>2, LimitsAssumption
<1>4. chain' \in Seq(BlockRecord) /\ Len(chain') = Len(chain) - 1
  BY <1>1, <1>2, <1>3 DEF Front
<1>5. /\ Len(undo') = Len(undo) - 1
      /\ \A i \in 1..(Len(undo) - 1) : undo'[i] = undo[i]
  BY <1>1, <1>2, <1>3 DEF Front
<1>6. Worth(EmptyOverlay, db') = LedgerTotal
  <2>1. Len(undo) \in 1..Len(undo) /\ db' = undo[Len(undo)]
    BY <1>1, <1>2, <1>3 DEF Last
  <2>2. QED BY <1>2, <2>1
<1>7. \A i \in 1..Len(undo') : Worth(EmptyOverlay, undo'[i]) = LedgerTotal
  <2>1. \A i \in 1..Len(undo') : i \in 1..(Len(undo) - 1) /\ i \in 1..Len(undo)
    BY <1>2, <1>3, <1>5
  <2>2. QED BY <1>2, <1>5, <2>1
<1>8. pending' \in Overlay
  BY <1>1, <1>6, PendingRange DEF FullInv
<1>9. switching' \in 0..MaxLen /\ Len(chain') <= MaxLen
  BY <1>1, <1>2, <1>3, <1>4
<1>10. QED BY <1>1, <1>4, <1>6, <1>7, <1>8, <1>9 DEF FullInv, RangeInv

(* The other steps leave the chain and the balances alone. *)
LEMMA PoolStepRange ==
  ASSUME FullInv, HeldInv', UNCHANGED <<chain, db, undo, switching, highest>>,
         switching = 0 \/ pending' = pending,
         unproven' \in SUBSET Trx, scheduled' \in BOOLEAN
  PROVE  RangeInv'
<1>1. Worth(EmptyOverlay, db') = LedgerTotal
  BY DEF FullInv, RangeInv
<1>2. pending' \in Overlay
  BY <1>1, PendingRange DEF FullInv
<1>3. QED BY <1>1, <1>2 DEF FullInv, RangeInv

LEMMA StepRange == FullInv /\ [Next]_vars => FullInv'
<1> SUFFICES ASSUME FullInv, [Next]_vars PROVE FullInv'
  OBVIOUS
<1>0. HeldInv'
  BY StepHolds DEF FullInv
<1>a. SUFFICES RangeInv'
  BY <1>0 DEF FullInv
<1>b. unproven \in SUBSET Trx /\ scheduled \in BOOLEAN /\ pool \in SUBSET Trx
  BY DEF FullInv, RangeInv, HeldInv, HeldTypes
<1>1. ASSUME NEW t \in Trx, NEW override_limits \in BOOLEAN,
             store_pending_transaction(t, override_limits)
      PROVE  RangeInv'
  BY <1>0, <1>1, <1>b, PoolStepRange DEF store_pending_transaction
<1>2. CASE revalidate_pending
  BY <1>0, <1>2, <1>b, PoolStepRange DEF revalidate_pending
<1>3. ASSUME NEW trxs \in BlockTrxs, NEW time \in 1..MaxTime, extend_chain(trxs, time)
      PROVE  RangeInv'
  BY <1>0, <1>3, ExtendRange
<1>4. ASSUME NEW time \in 1..MaxTime, produce_block(time)
      PROVE  RangeInv'
  BY <1>0, <1>4, ExtendRange DEF produce_block
<1>5. CASE pop_block
  BY <1>0, <1>5, PopRange
<1>6. CASE open
  <2>1. /\ switching = 0 /\ unproven' \in SUBSET Trx /\ scheduled' \in BOOLEAN
        /\ UNCHANGED <<chain, db, undo, switching, highest>>
    BY <1>6, <1>b DEF open
  <2>2. QED BY <1>0, <2>1, PoolStepRange
<1>7. CASE UNCHANGED vars
  BY <1>0, <1>7, <1>b, PoolStepRange DEF vars
<1>8. QED BY <1>1, <1>2, <1>3, <1>4, <1>5, <1>6, <1>7 DEF Next

(***************************************************************************)
(* Every amount of the ledger, the undo states and _pending_trx_state is   *)
(* in range, no height or time leaves its bounds, and there is an undo     *)
(* state for every block.                                                  *)
(***************************************************************************)
THEOREM PoolTyped == Spec => []TypeOK
<1>1. Init => FullInv
  BY InitHeld, InitRange DEF FullInv
<1>2. ASSUME FullInv PROVE TypeOK
  <2>1. db \in Table
    BY <1>2, WorthTable DEF FullInv, HeldInv, HeldTypes, RangeInv
  <2>2. undo \in Seq(Table)
    <3>1. undo \in Seq(NatTable) /\ \A i \in 1..Len(undo) : Worth(EmptyOverlay, undo[i]) = LedgerTotal
      BY <1>2 DEF FullInv, HeldInv, HeldTypes, RangeInv
    <3>2. \A i \in 1..Len(undo) : undo[i] \in Table
      BY <3>1, WorthTable
    <3>3. QED BY <3>1, <3>2
  <2>3. unique \subseteq Trx
    <3>1. \A x \in BlockTrxs : Range(x) \subseteq Trx
      BY DEF BlockTrxs, Range
    <3>2. ASSUME NEW i \in DOMAIN chain PROVE chain[i].trxs \in BlockTrxs
      <4>1. chain[i] \in Blocks
        BY <1>2 DEF FullInv, HeldInv, PoolInv, ChainOK
      <4>2. QED BY <4>1 DEF Blocks
    <3>3. confirmed \subseteq Trx
      BY <3>1, <3>2 DEF confirmed
    <3>4. QED BY <1>2, <3>3 DEF FullInv, HeldInv, PoolInv, UniqueFollowsChain
  <2>4. QED BY <1>2, <2>1, <2>2, <2>3
         DEF FullInv, HeldInv, HeldTypes, RangeInv, TypeOK, BlockRecord
<1>3. QED BY <1>1, <1>2, StepRange, PTL DEF Spec

=============================================================================
