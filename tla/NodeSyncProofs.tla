--------------------------- MODULE NodeSyncProofs ---------------------------
(***************************************************************************)
(* What the node asks of its peers, for every set of peers and every       *)
(* limit: no block is requested from two connections at once, and the      *)
(* state keeps its types, the limit on the client's calls included.        *)
(*                                                                         *)
(* The induction needs the types of the messages that are under way and of *)
(* the calls that wait (NodeTypes), and that a block the client was handed *)
(* is stored by the time the call returns (ReturnsStored).                 *)
(***************************************************************************)
EXTENDS NodeSync, SumTheorems, SequenceTheorems, TLAPS

Msg ==
  [type : {"fetch_ids", "fetch_items", "fetch_sync_items",
           "ids", "block", "not_available", "inventory"},
   items : Seq(Block), remaining : Nat]

(* Messages to the node; one about a block names it *)
Delivery ==
  {x \in Msg : x.type \in {"block", "not_available", "inventory"} => x.items # <<>>}

(* Calls of the client: of a peer's fiber, or of none for a sync block *)
CallRecord ==
  {c \in [op : {"has_item", "block", "sync_block"}, peer : Peers \union {NoPeer},
          message : Msg, first : BOOLEAN] :
     /\ c.op = "sync_block" \/ c.peer \in Peers
     /\ c.op = "has_item" \/ c.message.items # <<>>}
ReturnRecord ==
  {c \in [op : {"has_item", "block", "sync_block"}, peer : Peers \union {NoPeer},
          message : Msg, first : BOOLEAN, has : SUBSET Block] :
     /\ c.op = "sync_block" \/ c.peer \in Peers
     /\ c.op = "has_item" \/ c.message.items # <<>>}

NodeTypes ==
  /\ conn \in [Peers -> {"disconnected", "active", "closing", "terminating"}]
  /\ peer \in [Peers -> PeerConnection]
  /\ out \in [Peers -> Seq(Msg)]
  /\ inbox \in [Peers -> Seq(Delivery)]
  /\ height \in [Peers -> 0..MaxBlock]
  /\ known \in SUBSET Block /\ recent \in SUBSET known
  /\ active_sync_requests \in SUBSET Block
  /\ new_received_sync_items \in Seq(Block) /\ received_sync_items \in Seq(Block)
  /\ calls \in Seq(CallRecord) /\ returns \in Seq(ReturnRecord)
  /\ items_to_fetch \in SUBSET Block /\ new_inventory \in SUBSET Block

ReturnsStored ==
  \A i \in 1..Len(returns) : returns[i].op # "has_item" => returns[i].message.items[1] \in known

HandlersBounded == in_progress <= MaxHandle

NodeInv == NodeTypes /\ ReturnsStored /\ HandlersBounded /\ RequestedOnce

-----------------------------------------------------------------------------
(* Sequences and bounded sets of numbers.                                  *)

LEMMA BlockFacts ==
  /\ MaxBlock \in Nat
  /\ \A b \in Block : b \in Nat /\ b \in 0..MaxBlock /\ 1 <= b /\ b <= MaxBlock
  /\ \A n \in Nat : 1 <= n /\ n <= MaxBlock => n \in Block
  BY NodeSyncAssumption DEF Block

LEMMA SeqParts ==
  ASSUME NEW T, NEW s \in Seq(T)
  PROVE  /\ s # <<>> => Head(s) \in T /\ Last(s) \in T /\ s[1] \in T /\ Head(s) = s[1]
         /\ Tail(s) \in Seq(T) \/ s = <<>>
         /\ \A t \in Seq(T) : s \o t \in Seq(T)
         /\ \A x \in T : Append(s, x) \in Seq(T) /\ <<x>> \in Seq(T)
         /\ ToSet(s) \subseteq T
  BY DEF Last, ToSet

LEMMA SubSeqTyped ==
  ASSUME NEW T, NEW s \in Seq(T), NEW i \in Nat, NEW j \in Int, 1 <= i, j <= Len(s)
  PROVE  /\ SubSeq(s, i, j) \in Seq(T)
         /\ Len(SubSeq(s, i, j)) = IF i <= j THEN j - i + 1 ELSE 0
<1>1. \A k \in i..j : s[k] \in T
  OBVIOUS
<1>2. QED BY <1>1, SubSeqProperties

LEMMA ReverseTyped ==
  ASSUME NEW T, NEW s \in Seq(T)
  PROVE  Reverse(s) \in Seq(T)
<1>1. \A i \in 1..Len(s) : s[(Len(s) - i) + 1] \in T
  OBVIOUS
<1>2. Reverse(s) \in [1..Len(s) -> T]
  BY <1>1 DEF Reverse
<1>3. QED BY <1>2

LEMMA RemoveAtTyped ==
  ASSUME NEW T, NEW s \in Seq(T), NEW i \in 1..Len(s)
  PROVE  RemoveAt(s, i) \in Seq(T)
<1>1. SubSeq(s, 1, i - 1) \in Seq(T)
  BY SubSeqTyped
<1>2. SubSeq(s, i + 1, Len(s)) \in Seq(T)
  BY SubSeqTyped
<1>3. QED BY <1>1, <1>2 DEF RemoveAt

LEMMA SetToSeqTyped ==
  ASSUME NEW T, NEW S \in SUBSET T, IsFiniteSet(S)
  PROVE  SetToSeq(S) \in Seq(T)
<1> DEFINE n == Cardinality(S)
<1>1. n \in Nat /\ ExistsBijection(1..n, S)
  BY FS_CardinalityType
<1>2. \E f \in [1..n -> S] : IsInjective(f)
  BY <1>1 DEF ExistsBijection, Bijection, Injection, IsInjective
<1>3. SetToSeq(S) \in [1..n -> S]
  BY <1>2 DEF SetToSeq
<1> HIDE DEF n
<1>4. QED BY <1>1, <1>3

-----------------------------------------------------------------------------
(* What the node and its peers say of a chain.                             *)

LEMMA HeadNumTyped ==
  ASSUME NEW bs
  PROVE  head_num(bs) \in 0..MaxBlock
<1> DEFINE S == {n \in 0..MaxBlock : 1..n \subseteq bs}
<1>1. S \in SUBSET (0..MaxBlock) /\ MaxBlock \in Nat
  BY BlockFacts
<1>2. 0 \in S
  BY BlockFacts
<1> HIDE DEF S
<1>3. Max(S) \in S
  BY <1>1, <1>2, Highest
<1>4. QED BY <1>1, <1>3 DEF head_num, S

(* The loop of get_blockchain_synopsis *)
Low(high, s) == IF s = <<>> THEN 1 ELSE Last(s) + (high - Last(s) + 2) \div 2
HalvingStep(high, i, s) == IF Low(high, s) > high THEN s ELSE Append(s, Low(high, s))
HalvingStart(high) == <<>>
HalvingHolds(high, s) == s \in Seq(1..high)

Halving == INSTANCE FoldTheorems WITH
  Advance <- HalvingStep, Start <- HalvingStart, Holds <- HalvingHolds

LEMMA HalvingsTyped ==
  ASSUME NEW high \in Nat
  PROVE  halvings(high) \in Seq(1..high)
<1> DEFINE ts == [i \in 1..high |-> i]
<1>1. ts \in Seq(Nat) /\ Len(ts) = high /\ DOMAIN ts = 1..Len(ts)
  OBVIOUS
<1>2. halvings(high) = Halving!FoldOver(high, ts, DOMAIN ts)
  BY DEF halvings, FoldLeft, MapThenFoldSet, Halving!FoldOver, Halving!Folds,
         HalvingStep, HalvingStart, Low, Halving!Max, Max
<1> HIDE DEF ts
<1>3. HalvingHolds(high, HalvingStart(high))
  BY DEF HalvingHolds, HalvingStart
<1>4. ASSUME NEW i \in Nat, NEW s, HalvingHolds(high, s)
      PROVE  HalvingHolds(high, HalvingStep(high, i, s))
  <2>1. s \in Seq(1..high)
    BY <1>4 DEF HalvingHolds
  <2>2. s # <<>> => Last(s) \in 1..high
    BY <2>1 DEF Last
  <2>3. Low(high, s) \in Nat /\ Low(high, s) >= 1
    <3>1. CASE s = <<>>
      BY <3>1 DEF Low
    <3>2. CASE s # <<>>
      <4> DEFINE l == Last(s)
      <4>1. l \in 1..high
        BY <2>2, <3>2
      <4> HIDE DEF l
      <4>2. l + (high - l + 2) \div 2 \in Nat /\ l + (high - l + 2) \div 2 >= 1
        BY <4>1
      <4>3. QED BY <3>2, <4>2 DEF Low, l
    <3>3. QED BY <3>1, <3>2
  <2>4. Low(high, s) > high \/ Low(high, s) \in 1..high
    BY <2>3
  <2>5. HalvingStep(high, i, s) \in Seq(1..high)
    <3> DEFINE T == 1..high
               l == Low(high, s)
    <3>1. s \in Seq(T) /\ (l > high \/ l \in T)
      BY <2>1, <2>4
    <3> HIDE DEF T, l
    <3>2. (IF l > high THEN s ELSE Append(s, l)) \in Seq(T)
      BY <3>1
    <3>3. QED BY <3>2 DEF HalvingStep, T, l
  <2>6. QED BY <2>5 DEF HalvingHolds
<1>5. \A i \in 0..Len(ts) : HalvingHolds(high, Halving!FoldTo(high, ts, i))
  BY <1>1, <1>3, <1>4, Halving!FoldHolds
<1>6. HalvingHolds(high, Halving!FoldTo(high, ts, Len(ts)))
  BY <1>1, <1>5
<1>7. QED BY <1>1, <1>2, <1>6 DEF HalvingHolds, Halving!FoldTo

LEMMA SynopsisTyped ==
  ASSUME NEW high \in 0..MaxBlock
  PROVE  halvings(high) \in Seq(Block)
<1>1. high \in Nat /\ 1..high \subseteq Block
  BY BlockFacts DEF Block
<1>2. halvings(high) \in Seq(1..high)
  BY <1>1, HalvingsTyped
<1>3. QED BY <1>1, <1>2, SeqMonotonic

LEMMA SynopsisForPeer ==
  ASSUME NEW r \in PeerConnection
  PROVE  create_blockchain_synopsis_for_peer(r) \in Seq(Block)
<1>1. r.ids_of_items_to_get \in Seq(Block) /\ r.last_block_seen \in 0..MaxBlock
  BY DEF PeerConnection
<1>2. r.ids_of_items_to_get # <<>> => <<Last(r.ids_of_items_to_get)>> \in Seq(Block)
  BY <1>1, SeqParts
<1>3. (IF r.last_block_seen = 0 THEN head_num(known) ELSE r.last_block_seen) \in 0..MaxBlock
  BY <1>1, HeadNumTyped
<1>4. QED BY <1>2, <1>3, SynopsisTyped DEF create_blockchain_synopsis_for_peer

LEMMA MsgRecord ==
  ASSUME NEW t \in {"fetch_ids", "fetch_items", "fetch_sync_items", "ids", "block",
                    "not_available", "inventory"},
         NEW s \in Seq(Block), NEW n \in Nat
  PROVE  /\ Message(t, s, n) \in Msg
         /\ Message(t, s, n).type = t /\ Message(t, s, n).items = s
         /\ (t \in {"block", "not_available", "inventory"} => s # <<>>)
              => Message(t, s, n) \in Delivery
  BY DEF Message, Msg, Delivery

LEMMA ItemIdsTyped ==
  ASSUME NEW h \in 0..MaxBlock, NEW synopsis \in Seq(Block)
  PROVE  get_item_ids(h, synopsis) \in Delivery
<1> DEFINE common == {n \in ToSet(synopsis) : n <= h}
           last_seen == IF common = {} THEN 1 ELSE Max(common)
           count == Min({IdsLimit, h - last_seen + 1})
           items == [i \in 1..count |-> last_seen + i - 1]
<1>1. h \in Nat
  BY BlockFacts
<1>2. CASE h = 0
  <2>1. <<>> \in Seq(Block) /\ 0 \in Nat
    OBVIOUS
  <2>2. Message("ids", <<>>, 0) \in Delivery
    BY <2>1, MsgRecord
  <2>3. QED BY <1>2, <2>2 DEF get_item_ids
<1>3. CASE h # 0
  <2>1. common \in SUBSET (0..h) /\ \A n \in common : 1 <= n /\ n <= h /\ n \in Nat
    <3>1. \A n \in ToSet(synopsis) : n \in Block
      BY SeqParts
    <3>2. QED BY <1>1, <3>1, BlockFacts
  <2>2. last_seen \in Nat /\ 1 <= last_seen /\ last_seen <= h
    <3> HIDE DEF common
    <3>1. common # {} => Max(common) \in common
      BY <1>1, <2>1, Highest
    <3>2. CASE common = {}
      <4>1. last_seen = 1
        BY <3>2
      <4>2. QED BY <1>1, <1>3, <4>1
    <3>3. CASE common # {}
      <4>1. last_seen \in common
        BY <3>1, <3>3
      <4>2. QED BY <2>1, <4>1
    <3>4. QED BY <3>2, <3>3
  <2> HIDE DEF last_seen
  <2>3. count \in Nat /\ count <= h - last_seen + 1
    <3> DEFINE k == h - last_seen + 1
               S == {IdsLimit, k}
               n == IdsLimit + k
    <3>1. k \in Nat /\ IdsLimit \in Nat
      BY <1>1, <2>2, NodeSyncAssumption
    <3> HIDE DEF k
    <3>2. \E x \in S : \A y \in S : x <= y
      BY <3>1
    <3>3. Min(S) \in S /\ \A y \in S : Min(S) <= y
      BY <3>2 DEF Min
    <3>4. QED BY <3>1, <3>3 DEF k
  <2> HIDE DEF count
  <2>4. \A i \in 1..count : last_seen + i - 1 \in Block
    <3>1. \A i \in 1..count : last_seen + i - 1 \in Nat /\ 1 <= last_seen + i - 1 /\ last_seen + i - 1 <= h
      BY <1>1, <2>2, <2>3
    <3>2. h <= MaxBlock
      BY BlockFacts
    <3>3. \A i \in 1..count : last_seen + i - 1 <= MaxBlock
      BY <1>1, <3>1, <3>2, BlockFacts
    <3>4. QED BY <3>1, <3>3, BlockFacts
  <2>5. items \in [1..count -> Block]
    BY <2>4
  <2>6. items \in Seq(Block)
    BY <2>3, <2>5
  <2>7. h - last_seen + 1 - count \in Nat
    BY <1>1, <2>2, <2>3
  <2> HIDE DEF items
  <2>8. Message("ids", items, h - last_seen + 1 - count) \in Delivery
    BY <2>6, <2>7, MsgRecord
  <2>9. QED BY <1>3, <2>8 DEF get_item_ids, items, count, last_seen, common
<1>4. QED BY <1>2, <1>3

-----------------------------------------------------------------------------
(* Changes to a connection.  Few of them touch the requested blocks.       *)

Keeps(r, e) == e \in PeerConnection /\ e.sync_items_requested = r.sync_items_requested

LEMMA NewConnectionTyped ==
  NewConnection \in PeerConnection /\ NewConnection.sync_items_requested = {}
<1>1. <<>> \in Seq(Block) /\ {} \in SUBSET Block /\ 0 \in Nat /\ 0 \in 0..MaxBlock
  BY BlockFacts
<1>2. QED BY <1>1 DEF NewConnection, PeerConnection

LEMMA FieldsTyped ==
  ASSUME NEW r \in PeerConnection
  PROVE  /\ r.we_need_sync_items_from_peer \in BOOLEAN
         /\ r.peer_needs_sync_items_from_us \in BOOLEAN
         /\ r.ids_of_items_to_get \in Seq(Block)
         /\ r.ids_of_items_being_processed \in SUBSET Block
         /\ r.number_of_unfetched_item_ids \in Nat
         /\ r.item_ids_requested \in BOOLEAN
         /\ r.sync_items_requested \in SUBSET Block
         /\ r.items_requested \in SUBSET Block
         /\ r.inventory_advertised_to_us \in SUBSET Block
         /\ r.inventory_advertised_to_peer \in SUBSET Block
         /\ r.inhibit_fetching_sync_blocks \in BOOLEAN
         /\ r.last_block_seen \in 0..MaxBlock
  BY DEF PeerConnection

LEMMA StartSynchronizing ==
  ASSUME NEW r \in PeerConnection
  PROVE  Keeps(r, start_synchronizing_with_peer(r))
<1>1. <<>> \in Seq(Block) /\ 0 \in Nat /\ 0 \in 0..MaxBlock
  BY BlockFacts
<1>2. QED BY <1>1 DEF Keeps, start_synchronizing_with_peer, PeerConnection

LEMMA SetIdsRequested ==
  ASSUME NEW r \in PeerConnection, NEW v \in BOOLEAN
  PROVE  Keeps(r, [r EXCEPT !.item_ids_requested = v])
  BY DEF Keeps, PeerConnection

LEMMA SetPeerNeeds ==
  ASSUME NEW r \in PeerConnection, NEW v \in BOOLEAN
  PROVE  Keeps(r, [r EXCEPT !.peer_needs_sync_items_from_us = v])
  BY DEF Keeps, PeerConnection

LEMMA SetWeNeed ==
  ASSUME NEW r \in PeerConnection, NEW v \in BOOLEAN
  PROVE  Keeps(r, [r EXCEPT !.we_need_sync_items_from_peer = v])
  BY DEF Keeps, PeerConnection

LEMMA SetList ==
  ASSUME NEW r \in PeerConnection, NEW s \in Seq(Block), NEW b \in 0..MaxBlock, NEW n \in Nat
  PROVE  Keeps(r, [r EXCEPT !.ids_of_items_to_get = s, !.last_block_seen = b,
                            !.number_of_unfetched_item_ids = n])
  BY DEF Keeps, PeerConnection

LEMMA SetSeen ==
  ASSUME NEW r \in PeerConnection, NEW b \in 0..MaxBlock
  PROVE  Keeps(r, [r EXCEPT !.last_block_seen = b])
  BY DEF Keeps, PeerConnection

LEMMA SetItemsRequested ==
  ASSUME NEW r \in PeerConnection, NEW S \in SUBSET Block
  PROVE  Keeps(r, [r EXCEPT !.items_requested = S])
  BY DEF Keeps, PeerConnection

LEMMA SetAdvertisedToUs ==
  ASSUME NEW r \in PeerConnection, NEW S \in SUBSET Block
  PROVE  Keeps(r, [r EXCEPT !.inventory_advertised_to_us = S])
  BY DEF Keeps, PeerConnection

LEMMA SetAdvertisedToPeer ==
  ASSUME NEW r \in PeerConnection, NEW S \in SUBSET Block
  PROVE  Keeps(r, [r EXCEPT !.inventory_advertised_to_peer = S])
  BY DEF Keeps, PeerConnection

LEMMA SetProcessing ==
  ASSUME NEW r \in PeerConnection, NEW s \in Seq(Block), NEW S \in SUBSET Block
  PROVE  Keeps(r, [r EXCEPT !.ids_of_items_to_get = s, !.ids_of_items_being_processed = S])
  BY DEF Keeps, PeerConnection

LEMMA SetProcessed ==
  ASSUME NEW r \in PeerConnection, NEW b \in 0..MaxBlock, NEW S \in SUBSET Block
  PROVE  Keeps(r, [r EXCEPT !.last_block_seen = b, !.ids_of_items_being_processed = S])
  BY DEF Keeps, PeerConnection

LEMMA SetSyncRequested ==
  ASSUME NEW r \in PeerConnection, NEW S \in SUBSET Block, NEW v \in BOOLEAN
  PROVE  /\ [r EXCEPT !.sync_items_requested = S] \in PeerConnection
         /\ [r EXCEPT !.sync_items_requested = S].sync_items_requested = S
         /\ [r EXCEPT !.sync_items_requested = S, !.inhibit_fetching_sync_blocks = v] \in PeerConnection
         /\ [r EXCEPT !.sync_items_requested = S, !.inhibit_fetching_sync_blocks = v].sync_items_requested = S
  BY DEF PeerConnection

(* The connections np request no blocks that peer does not *)
NoMore(np) ==
  /\ np \in [Peers -> PeerConnection]
  /\ \A p \in Peers : np[p].sync_items_requested \subseteq peer[p].sync_items_requested

LEMMA NoMorePeer == NodeTypes => NoMore(peer)
  BY DEF NodeTypes, NoMore

LEMMA NoMoreSet ==
  ASSUME NEW np, NoMore(np), NEW p \in Peers, NEW e, Keeps(np[p], e)
  PROVE  NoMore([np EXCEPT ![p] = e]) /\ [np EXCEPT ![p] = e][p] = e
  BY DEF NoMore, Keeps

LEMMA AskedNoMore ==
  ASSUME NEW np, NoMore(np), NEW ps
  PROVE  NoMore(asked(np, ps))
<1> DEFINE nq == asked(np, ps)
<1>1. ASSUME NEW p \in Peers PROVE Keeps(np[p], nq[p])
  <2>1. np[p] \in PeerConnection
    BY DEF NoMore
  <2>2. TRUE \in BOOLEAN
    OBVIOUS
  <2>3. Keeps(np[p], [np[p] EXCEPT !.item_ids_requested = TRUE])
    BY <2>1, <2>2, SetIdsRequested
  <2>4. Keeps(np[p], np[p])
    BY <2>1 DEF Keeps
  <2>5. nq[p] = IF p \in ps THEN [np[p] EXCEPT !.item_ids_requested = TRUE] ELSE np[p]
    BY DEF asked
  <2>6. QED BY <2>3, <2>4, <2>5
<1>2. nq = [p \in Peers |-> nq[p]]
  BY DEF asked
<1> HIDE DEF nq
<1>3. QED BY <1>1, <1>2 DEF NoMore, Keeps, nq

LEMMA AskTyped ==
  ASSUME NodeTypes, NEW np \in [Peers -> PeerConnection], NEW ps
  PROVE  ask(np, ps) \in [Peers -> Seq(Msg)]
<1>1. ASSUME NEW p \in Peers
      PROVE  Append(out[p], Message("fetch_ids", create_blockchain_synopsis_for_peer(np[p]), 0)) \in Seq(Msg)
  <2>1. out[p] \in Seq(Msg)
    BY DEF NodeTypes
  <2>2. create_blockchain_synopsis_for_peer(np[p]) \in Seq(Block)
    BY SynopsisForPeer
  <2>3. Message("fetch_ids", create_blockchain_synopsis_for_peer(np[p]), 0) \in Msg
    BY <2>2, MsgRecord
  <2>4. QED BY <2>1, <2>3
<1>2. \A p \in Peers : out[p] \in Seq(Msg)
  BY DEF NodeTypes
<1>3. QED BY <1>1, <1>2 DEF ask

-----------------------------------------------------------------------------
(* A list of ids received.                                                 *)

LEMMA FlushTyped ==
  ASSUME NEW items \in Seq(Block), NEW has
  PROVE  /\ flush(items, has) \in Seq(Block)
         /\ Len(items) - Len(flush(items, has)) \in 0..Len(items)
<1> DEFINE S == {n \in 0..Len(items) : \A i \in 1..n : items[i] \in has}
           k == Max(S)
<1>1. Len(items) \in Nat /\ S \in SUBSET (0..Len(items)) /\ 0 \in S
  OBVIOUS
<1>2. k \in 0..Len(items)
  <2> HIDE DEF S
  <2>1. QED BY <1>1, Highest
<1> HIDE DEF k
<1>3. 1 + k \in Nat /\ 1 <= 1 + k /\ Len(items) \in Int /\ Len(items) <= Len(items)
  BY <1>1, <1>2
<1>4. /\ SubSeq(items, 1 + k, Len(items)) \in Seq(Block)
      /\ Len(SubSeq(items, 1 + k, Len(items))) = IF 1 + k <= Len(items) THEN Len(items) - (1 + k) + 1 ELSE 0
  BY <1>3, SubSeqTyped
<1>5. flush(items, has) = SubSeq(items, 1 + k, Len(items))
  BY DEF flush, k
<1>6. QED BY <1>1, <1>2, <1>4, <1>5

LEMMA ExtendedTyped ==
  ASSUME NEW r \in PeerConnection, NEW items \in Seq(Block), NEW has, NEW first
  PROVE  extended_ids(r, items, has, first) \in Seq(Block)
<1> DEFINE old == r.ids_of_items_to_get
           S == {n \in 0..Len(old) : n = 0 \/ (items # <<>> /\ old[n] = items[1])}
           kept == SubSeq(old, 1, Max(S))
<1>1. old \in Seq(Block)
  BY FieldsTyped
<1> HIDE DEF old
<1>2. Len(old) \in Nat /\ S \in SUBSET (0..Len(old)) /\ 0 \in S
  BY <1>1
<1>3. Max(S) \in 0..Len(old)
  <2> HIDE DEF S
  <2>1. QED BY <1>2, Highest
<1>4. kept \in Seq(Block)
  <2> HIDE DEF S
  <2>1. Max(S) \in Int /\ Max(S) <= Len(old) /\ 1 \in Nat /\ 1 <= 1
    BY <1>2, <1>3
  <2>2. QED BY <1>1, <2>1, SubSeqTyped
<1> HIDE DEF kept
<1>5. Front(kept) \in Seq(Block)
  <2>1. Len(kept) \in Nat /\ Len(kept) - 1 \in Int /\ Len(kept) - 1 <= Len(kept) /\ 1 \in Nat /\ 1 <= 1
    BY <1>4
  <2>2. QED BY <1>4, <2>1, SubSeqTyped DEF Front
<1>6. items # <<>> => Tail(items) \in Seq(Block)
  BY SeqParts
<1>7. Front(kept) \o items \in Seq(Block)
  BY <1>5, SeqParts
<1>8. flush(items, has) \in Seq(Block)
  BY FlushTyped
<1>9. \/ extended_ids(r, items, has, first) = old
      \/ extended_ids(r, items, has, first) = items
      \/ extended_ids(r, items, has, first) = flush(items, has)
      \/ items # <<>> /\ extended_ids(r, items, has, first) = Tail(items)
      \/ extended_ids(r, items, has, first) = Front(kept) \o items
  BY DEF extended_ids, kept, S, old
<1>10. QED BY <1>1, <1>6, <1>7, <1>8, <1>9

LEMMA LastSeenTyped ==
  ASSUME NEW r \in PeerConnection, NEW items \in Seq(Block), NEW has, NEW first
  PROVE  last_seen_of_list(r, items, has, first) \in 0..MaxBlock
<1> DEFINE n == Len(items) - Len(flush(items, has))
<1>1. n \in 0..Len(items) /\ Len(items) \in Nat
  BY FlushTyped
<1>2. r.last_block_seen \in 0..MaxBlock
  BY FieldsTyped
<1> HIDE DEF n
<1>3. n # 0 => n \in 1..Len(items)
  BY <1>1
<1>4. n # 0 => items[n] \in Block
  BY <1>3, ElementOfSeq
<1>5. items # <<>> => items[1] \in Block
  BY SeqParts
<1>6. \/ last_seen_of_list(r, items, has, first) = r.last_block_seen
      \/ n # 0 /\ last_seen_of_list(r, items, has, first) = items[n]
      \/ items # <<>> /\ last_seen_of_list(r, items, has, first) = items[1]
  BY DEF last_seen_of_list, n
<1>7. QED BY <1>2, <1>4, <1>5, <1>6, BlockFacts

-----------------------------------------------------------------------------
(* The calls of the client, and how many of them handle a sync block.      *)

Sync(q) == {i \in 1..Len(q) : q[i].op = "sync_block"}
SyncCalls(q) == Cardinality(Sync(q))

LEMMA SyncFinite ==
  ASSUME NEW T, NEW q \in Seq(T)
  PROVE  IsFiniteSet(Sync(q)) /\ SyncCalls(q) \in Nat
<1> DEFINE N == 1..Len(q)
<1>1. IsFiniteSet(N)
  BY FS_Interval
<1>2. Sync(q) \in SUBSET N
  BY DEF Sync
<1> HIDE DEF N
<1>3. IsFiniteSet(Sync(q))
  BY <1>1, <1>2, FS_Subset
<1>4. QED BY <1>3, FS_CardinalityType DEF SyncCalls

LEMMA SyncConcat ==
  ASSUME NEW T, NEW q \in Seq(T), NEW r \in Seq(T)
  PROVE  SyncCalls(q \o r) = SyncCalls(q) + SyncCalls(r)
<1> DEFINE n == Len(q)
           R == {i \in (n + 1)..(n + Len(r)) : r[i - n].op = "sync_block"}
<1>1. n \in Nat /\ Len(r) \in Nat /\ Len(q \o r) = n + Len(r)
  OBVIOUS
<1>2. \A i \in 1..(n + Len(r)) : (q \o r)[i] = IF i <= n THEN q[i] ELSE r[i - n]
  OBVIOUS
<1>3. Sync(q \o r) = Sync(q) \union R /\ Sync(q) \intersect R = {}
  <2> HIDE DEF n
  <2>1. \A i \in 1..(n + Len(r)) : i <= n \/ i \in (n + 1)..(n + Len(r))
    BY <1>1
  <2>2. \A i \in (n + 1)..(n + Len(r)) : i \in 1..(n + Len(r)) /\ ~(i <= n)
    BY <1>1
  <2>3. \A i \in 1..n : i \in 1..(n + Len(r)) /\ i <= n
    BY <1>1
  <2>4. Sync(q) = {i \in 1..n : q[i].op = "sync_block"}
    BY DEF Sync, n
  <2>5. Sync(q \o r) = {i \in 1..(n + Len(r)) : (q \o r)[i].op = "sync_block"}
    BY <1>1 DEF Sync
  <2>6. QED BY <1>1, <1>2, <2>1, <2>2, <2>3, <2>4, <2>5
<1>4. ExistsBijection(Sync(r), R)
  <2> DEFINE f == [i \in Sync(r) |-> i + n]
  <2> HIDE DEF n
  <2>1. \A i \in Sync(r) : i \in Nat /\ i + n \in R
    <3>1. \A i \in 1..Len(r) : i \in Nat /\ i + n \in (n + 1)..(n + Len(r)) /\ (i + n) - n = i
      BY <1>1
    <3>2. QED BY <3>1 DEF Sync
  <2>2. \A j \in R : j - n \in Sync(r) /\ (j - n) + n = j
    <3>1. \A j \in (n + 1)..(n + Len(r)) : j - n \in 1..Len(r) /\ (j - n) + n = j
      BY <1>1
    <3>2. QED BY <3>1 DEF Sync
  <2>3. f \in [Sync(r) -> R]
    BY <2>1
  <2>4. \A a, b \in Sync(r) : f[a] = f[b] => a = b
    <3>1. \A a, b \in Nat : a + n = b + n => a = b
      BY <1>1
    <3>2. QED BY <2>1, <3>1
  <2>5. \A j \in R : \E i \in Sync(r) : f[i] = j
    BY <2>2
  <2> HIDE DEF f, R
  <2>6. f \in Bijection(Sync(r), R)
    BY <2>3, <2>4, <2>5 DEF Bijection, Injection, Surjection, IsInjective
  <2>7. QED BY <2>6 DEF ExistsBijection
<1> HIDE DEF R, n
<1>5. IsFiniteSet(Sync(q)) /\ IsFiniteSet(Sync(r)) /\ SyncCalls(q) \in Nat /\ SyncCalls(r) \in Nat
  BY SyncFinite
<1>6. IsFiniteSet(R) /\ Cardinality(R) = SyncCalls(r)
  BY <1>4, <1>5, FS_Bijection DEF SyncCalls
<1>7. Cardinality(Sync(q) \union R) = Cardinality(Sync(q)) + Cardinality(R) - Cardinality(Sync(q) \intersect R)
  BY <1>5, <1>6, FS_Union
<1>8. Cardinality(Sync(q) \intersect R) = 0
  BY <1>3, FS_EmptySet
<1>9. QED BY <1>3, <1>5, <1>6, <1>7, <1>8 DEF SyncCalls

LEMMA SyncOne ==
  ASSUME NEW c
  PROVE  SyncCalls(<<c>>) = IF c.op = "sync_block" THEN 1 ELSE 0
<1>1. Sync(<<c>>) = IF c.op = "sync_block" THEN {1} ELSE {}
  BY DEF Sync
<1>2. Cardinality({1}) = 1
  BY FS_Singleton
<1>3. Cardinality({}) = 0
  BY FS_EmptySet
<1>4. QED BY <1>1, <1>2, <1>3 DEF SyncCalls

LEMMA SyncAppend ==
  ASSUME NEW T, NEW q \in Seq(T), NEW c \in T
  PROVE  SyncCalls(Append(q, c)) = SyncCalls(q) + (IF c.op = "sync_block" THEN 1 ELSE 0)
<1>1. Append(q, c) = q \o <<c>> /\ <<c>> \in Seq(T)
  OBVIOUS
<1>2. SyncCalls(q \o <<c>>) = SyncCalls(q) + SyncCalls(<<c>>)
  BY <1>1, SyncConcat
<1>3. QED BY <1>1, <1>2, SyncOne

LEMMA SyncTail ==
  ASSUME NEW T, NEW q \in Seq(T), q # <<>>
  PROVE  SyncCalls(q) = SyncCalls(Tail(q)) + (IF Head(q).op = "sync_block" THEN 1 ELSE 0)
<1>1. Head(q) \in T /\ Tail(q) \in Seq(T)
  OBVIOUS
<1>2. q = <<Head(q)>> \o Tail(q) /\ <<Head(q)>> \in Seq(T)
  BY <1>1
<1>3. SyncCalls(<<Head(q)>> \o Tail(q)) = SyncCalls(<<Head(q)>>) + SyncCalls(Tail(q))
  BY <1>1, <1>2, SyncConcat
<1>4. SyncCalls(Tail(q)) \in Nat
  BY <1>1, SyncFinite
<1>5. SyncCalls(<<Head(q)>>) = IF Head(q).op = "sync_block" THEN 1 ELSE 0
  BY SyncOne
<1> DEFINE c == SyncCalls(<<Head(q)>>)
           d == SyncCalls(Tail(q))
<1>6. SyncCalls(q) = c + d
  BY <1>2, <1>3
<1> HIDE DEF c, d
<1>7. c \in Nat /\ d \in Nat => c + d = d + c
  OBVIOUS
<1>8. QED BY <1>4, <1>5, <1>6, <1>7 DEF c, d

Busy(c, r) == Cardinality({i \in DOMAIN (c \o r) : (c \o r)[i].op = "sync_block"})

LEMMA InProgress ==
  ASSUME NEW c \in Seq(CallRecord), NEW r \in Seq(ReturnRecord)
  PROVE  /\ Busy(c, r) = SyncCalls(c) + SyncCalls(r)
         /\ SyncCalls(c) \in Nat /\ SyncCalls(r) \in Nat
<1> DEFINE T == CallRecord \union ReturnRecord
<1>1. c \in Seq(T) /\ r \in Seq(T)
  <2>1. CallRecord \subseteq T /\ ReturnRecord \subseteq T
    OBVIOUS
  <2> HIDE DEF T
  <2>2. QED BY <2>1, SeqMonotonic
<1> HIDE DEF T
<1>2. DOMAIN (c \o r) = 1..Len(c \o r)
  BY <1>1
<1>3. Busy(c, r) = SyncCalls(c \o r)
  BY <1>2 DEF Busy, SyncCalls, Sync
<1>4. QED BY <1>1, <1>3, SyncConcat, SyncFinite

-----------------------------------------------------------------------------
(* The loops over the peers' lists: what one peer is asked for is asked of *)
(* nobody else.                                                            *)

RequestStep(requested, b, s) ==
  IF /\ Len(s) < MaxPerPeer
     /\ ~have_already_received(b)
     /\ b \notin already_requested(requested \union ToSet(s))
  THEN Append(s, b) ELSE s
RequestStart(requested) == <<>>
RequestHolds(requested, s) ==
  s \in Seq(Block) /\ \A b \in ToSet(s) : b \notin already_requested(requested)

Requests == INSTANCE FoldTheorems WITH
  Advance <- RequestStep, Start <- RequestStart, Holds <- RequestHolds

LEMMA ToSetAppend ==
  ASSUME NEW T, NEW s \in Seq(T), NEW x \in T
  PROVE  /\ ToSet(Append(s, x)) = ToSet(s) \union {x}
         /\ ToSet(<<>>) = {}
<1>1. DOMAIN s = 1..Len(s) /\ DOMAIN Append(s, x) = 1..(Len(s) + 1) /\ Len(s) \in Nat
  OBVIOUS
<1>2. \A i \in 1..Len(s) : Append(s, x)[i] = s[i]
  OBVIOUS
<1>3. Append(s, x)[Len(s) + 1] = x
  OBVIOUS
<1>4. 1..(Len(s) + 1) = 1..Len(s) \union {Len(s) + 1}
  BY <1>1
<1>5. ToSet(Append(s, x)) = ToSet(s) \union {x}
  BY <1>1, <1>2, <1>3, <1>4 DEF ToSet
<1>6. ToSet(<<>>) = {}
  BY DEF ToSet
<1>7. QED BY <1>5, <1>6

LEMMA ItemsToRequest ==
  ASSUME NodeTypes, NEW p \in Peers, NEW requested
  PROVE  /\ sync_items_to_request(p, requested) \in Seq(Block)
         /\ \A b \in ToSet(sync_items_to_request(p, requested)) :
              b \notin requested /\ b \notin active_sync_requests
<1> DEFINE ts == peer[p].ids_of_items_to_get
           s == sync_items_to_request(p, requested)
<1>1. ts \in Seq(Block)
  <2>1. peer[p] \in PeerConnection
    BY DEF NodeTypes
  <2>2. QED BY <2>1, FieldsTyped
<1>2. s = Requests!FoldOver(requested, ts, DOMAIN ts) \/ s = <<>>
  BY DEF sync_items_to_request, FoldLeft, MapThenFoldSet, Requests!FoldOver, Requests!Folds,
         RequestStep, RequestStart, Requests!Max, Max
<1>3. Requests!FoldOver(requested, ts, DOMAIN ts) = Requests!FoldTo(requested, ts, Len(ts))
  BY <1>1 DEF Requests!FoldTo
<1> HIDE DEF ts, s
<1>4. RequestHolds(requested, RequestStart(requested))
  BY DEF RequestHolds, RequestStart, ToSet
<1>5. ASSUME NEW b \in Block, NEW u, RequestHolds(requested, u)
      PROVE  RequestHolds(requested, RequestStep(requested, b, u))
  <2>1. u \in Seq(Block) /\ \A x \in ToSet(u) : x \notin already_requested(requested)
    BY <1>5 DEF RequestHolds
  <2>2. CASE RequestStep(requested, b, u) = u
    BY <1>5, <2>2
  <2>3. CASE RequestStep(requested, b, u) # u
    <3>1. RequestStep(requested, b, u) = Append(u, b) /\ b \notin already_requested(requested \union ToSet(u))
      BY <2>3 DEF RequestStep
    <3>2. b \notin already_requested(requested)
      BY <3>1 DEF already_requested
    <3>3. Append(u, b) \in Seq(Block) /\ ToSet(Append(u, b)) = ToSet(u) \union {b}
      BY <2>1, ToSetAppend
    <3>4. QED BY <2>1, <3>1, <3>2, <3>3 DEF RequestHolds
  <2>4. QED BY <2>2, <2>3
<1>6. \A i \in 0..Len(ts) : RequestHolds(requested, Requests!FoldTo(requested, ts, i))
  BY <1>1, <1>4, <1>5, Requests!FoldHolds
<1>7. RequestHolds(requested, Requests!FoldTo(requested, ts, Len(ts)))
  BY <1>1, <1>6
<1>8. RequestHolds(requested, s)
  BY <1>2, <1>3, <1>4, <1>7 DEF RequestStart
<1>9. QED BY <1>8 DEF RequestHolds, already_requested, s

Planned(st) == UNION {ToSet(st[q]) : q \in Peers}

PlanStep(m, p, st) == [st EXCEPT ![p] = sync_items_to_request(p, Planned(st))]
PlanStart(m) == [p \in Peers |-> <<>>]
Plan(st) ==
  /\ st \in [Peers -> Seq(Block)]
  /\ \A p \in Peers : \A b \in ToSet(st[p]) :
       b \notin active_sync_requests /\ \A q \in Peers \ {p} : b \notin ToSet(st[q])
PlanHolds(m, st) == Plan(st)

Plans == INSTANCE FoldTheorems WITH
  Advance <- PlanStep, Start <- PlanStart, Holds <- PlanHolds

LEMMA EmptyPlan == Plan([p \in Peers |-> <<>>])
  BY DEF Plan, ToSet

LEMMA RequestsPlan ==
  ASSUME NodeTypes, NEW order \in orders
  PROVE  Plan(sync_requests(order))
<1>1. order \in Seq(Peers)
  <2>1. Active \in SUBSET Peers
    BY DEF Active
  <2>2. IsFiniteSet(Active)
    BY <2>1, NodeSyncAssumption, FS_Subset
  <2>3. Cardinality(Active) \in Nat
    BY <2>2, FS_CardinalityType
  <2>4. order \in [1..Cardinality(Active) -> Active]
    BY DEF orders
  <2>5. order \in [1..Cardinality(Active) -> Peers]
    BY <2>1, <2>4
  <2>6. QED BY <2>3, <2>5
<1>2. sync_requests(order) = Plans!FoldOver(0, order, DOMAIN order)
  BY DEF sync_requests, FoldLeft, MapThenFoldSet, Plans!FoldOver, Plans!Folds,
         PlanStep, PlanStart, Planned, Plans!Max, Max
<1>3. Plans!FoldOver(0, order, DOMAIN order) = Plans!FoldTo(0, order, Len(order))
  BY <1>1 DEF Plans!FoldTo
<1>4. PlanHolds(0, PlanStart(0))
  BY EmptyPlan DEF PlanHolds, PlanStart
<1>5. ASSUME NEW p \in Peers, NEW st, PlanHolds(0, st)
      PROVE  PlanHolds(0, PlanStep(0, p, st))
  <2> DEFINE s == sync_items_to_request(p, Planned(st))
             su == [st EXCEPT ![p] = s]
  <2>1. Plan(st)
    BY <1>5 DEF PlanHolds
  <2>2. s \in Seq(Block) /\ \A b \in ToSet(s) : b \notin Planned(st) /\ b \notin active_sync_requests
    BY ItemsToRequest
  <2>3. PlanStep(0, p, st) = su
    BY DEF PlanStep
  <2> HIDE DEF s
  <2>4. su \in [Peers -> Seq(Block)] /\ su[p] = s /\ \A q \in Peers \ {p} : su[q] = st[q]
    BY <2>1, <2>2 DEF Plan
  <2> HIDE DEF su
  <2>5. \A q \in Peers : \A b \in ToSet(s) : b \notin ToSet(st[q])
    BY <2>2 DEF Planned
  <2>6. ASSUME NEW q \in Peers, NEW b \in ToSet(su[q])
        PROVE  b \notin active_sync_requests /\ \A x \in Peers \ {q} : b \notin ToSet(su[x])
    <3>1. CASE q = p
      BY <2>2, <2>4, <2>5, <2>6, <3>1
    <3>2. CASE q # p
      BY <2>1, <2>4, <2>5, <2>6, <3>2 DEF Plan
    <3>3. QED BY <3>1, <3>2
  <2>7. QED BY <2>3, <2>4, <2>6 DEF PlanHolds, Plan
<1>6. \A i \in 0..Len(order) : PlanHolds(0, Plans!FoldTo(0, order, i))
  BY <1>1, <1>4, <1>5, Plans!FoldHolds
<1>7. PlanHolds(0, Plans!FoldTo(0, order, Len(order)))
  BY <1>1, <1>6
<1>8. QED BY <1>2, <1>3, <1>7 DEF PlanHolds

-----------------------------------------------------------------------------
(* The rounds of process_backlog_of_sync_blocks start no call too many.    *)

RoundStep(m, i, st) == backlog_round(st)
RoundStart(m) ==
  [received |-> Reverse(new_received_sync_items) \o received_sync_items,
   peer |-> peer, started |-> <<>>, again |-> TRUE, suspended |-> FALSE]
RoundHolds(m, st) ==
  /\ st \in [received : Seq(Block), peer : [Peers -> PeerConnection], started : Seq(Block),
             again : BOOLEAN, suspended : BOOLEAN]
  /\ NoMore(st.peer)
  /\ in_progress + Len(st.started) <= MaxHandle
  /\ st.again => in_progress + Len(st.started) < MaxHandle

Rounds == INSTANCE FoldTheorems WITH
  Advance <- RoundStep, Start <- RoundStart, Holds <- RoundHolds

LEMMA BeingProcessed ==
  ASSUME NEW np, NoMore(np), NEW b \in Block
  PROVE  NoMore(being_processed(np, b))
<1> DEFINE nq == being_processed(np, b)
<1>1. ASSUME NEW p \in Peers PROVE Keeps(np[p], nq[p])
  <2>1. np[p] \in PeerConnection
    BY DEF NoMore
  <2>2. np[p].ids_of_items_to_get \in Seq(Block) /\ np[p].ids_of_items_being_processed \in SUBSET Block
    BY <2>1, FieldsTyped
  <2> DEFINE l == Tail(np[p].ids_of_items_to_get)
             S == np[p].ids_of_items_being_processed \union {b}
  <2>3. CASE p \in Active /\ offers(np, p, b)
    <3>1. l \in Seq(Block) /\ S \in SUBSET Block
      BY <2>2, <2>3 DEF offers
    <3>2. nq[p] = [np[p] EXCEPT !.ids_of_items_to_get = l, !.ids_of_items_being_processed = S]
      BY <2>3 DEF being_processed
    <3> HIDE DEF l, S, nq
    <3>3. Keeps(np[p], [np[p] EXCEPT !.ids_of_items_to_get = l, !.ids_of_items_being_processed = S])
      BY <2>1, <3>1, SetProcessing
    <3>4. QED BY <3>2, <3>3
  <2>4. CASE ~(p \in Active /\ offers(np, p, b))
    <3>1. nq[p] = np[p]
      BY <2>4 DEF being_processed
    <3>2. QED BY <2>1, <3>1 DEF Keeps
  <2>5. QED BY <2>3, <2>4
<1>2. nq = [p \in Peers |-> nq[p]]
  BY DEF being_processed
<1> HIDE DEF nq
<1>3. QED BY <1>1, <1>2 DEF NoMore, Keeps, nq

LEMMA RoundKeeps ==
  ASSUME NodeTypes, NEW st, RoundHolds(0, st)
  PROVE  RoundHolds(0, backlog_round(st))
<1> DEFINE next == {i \in DOMAIN st.received : \E p \in Active : offers(st.peer, p, st.received[i])}
           i == Min(next)
           b == st.received[i]
           started == IF b \in recent THEN st.started ELSE Append(st.started, b)
           left == IF b \in recent THEN st.received ELSE RemoveAt(st.received, i)
           full == in_progress + Len(started) >= MaxHandle
           np == being_processed(st.peer, b)
           again == b \notin recent /\ ~full
           susp == full /\ Len(left) >= MaxPrefetch
<1>1. /\ st.received \in Seq(Block) /\ st.started \in Seq(Block) /\ st.again \in BOOLEAN
      /\ NoMore(st.peer)
      /\ in_progress + Len(st.started) <= MaxHandle
      /\ st.again => in_progress + Len(st.started) < MaxHandle
  BY DEF RoundHolds
<1>2. in_progress \in Nat /\ MaxHandle \in Nat
  <2>1. in_progress = SyncCalls(calls) + SyncCalls(returns) /\ SyncCalls(calls) \in Nat /\ SyncCalls(returns) \in Nat
    BY InProgress DEF NodeTypes, in_progress, Busy
  <2>2. QED BY <2>1, NodeSyncAssumption
<1>3. CASE ~st.again
  <2>1. backlog_round(st) = st
    BY <1>3 DEF backlog_round
  <2>2. QED BY <2>1
<1>4. CASE st.again /\ next = {}
  <2> DEFINE e == [st EXCEPT !.again = FALSE]
  <2>1. backlog_round(st) = e
    BY <1>4 DEF backlog_round
  <2>2. /\ e \in [received : Seq(Block), peer : [Peers -> PeerConnection], started : Seq(Block),
                  again : BOOLEAN, suspended : BOOLEAN]
        /\ e.peer = st.peer /\ e.started = st.started /\ e.again = FALSE
    BY DEF RoundHolds
  <2> HIDE DEF e
  <2>3. QED BY <1>1, <2>1, <2>2 DEF RoundHolds
<1>5. CASE st.again /\ next # {}
  <2>1. i \in 1..Len(st.received)
    <3>1. next \in SUBSET (0..Len(st.received)) /\ next \in SUBSET (1..Len(st.received)) /\ Len(st.received) \in Nat
      BY <1>1
    <3> HIDE DEF next
    <3>2. i \in next
      BY <1>5, <3>1, Lowest
    <3>3. QED BY <3>1, <3>2
  <2> HIDE DEF i
  <2>2. b \in Block
    BY <1>1, <2>1, ElementOfSeq
  <2>3. left \in Seq(Block)
    BY <1>1, <2>1, RemoveAtTyped
  <2>4. NoMore(np)
    BY <1>1, <2>2, BeingProcessed
  <2> HIDE DEF b
  <2>5. /\ started \in Seq(Block) /\ Len(started) \in Nat
        /\ in_progress + Len(started) <= MaxHandle
    <3>1. Append(st.started, b) \in Seq(Block) /\ Len(Append(st.started, b)) = Len(st.started) + 1
      BY <1>1, <2>2
    <3>2. Len(st.started) \in Nat
      BY <1>1
    <3>3. CASE b \in recent
      <4>1. started = st.started
        BY <3>3
      <4>2. QED BY <1>1, <3>2, <4>1
    <3>4. CASE b \notin recent
      <4>1. started = Append(st.started, b)
        BY <3>4
      <4>2. in_progress + Len(st.started) < MaxHandle
        BY <1>1, <1>5
      <4>3. in_progress + (Len(st.started) + 1) <= MaxHandle
        BY <1>2, <3>2, <4>2
      <4>4. QED BY <3>1, <3>2, <4>1, <4>3
    <3>5. QED BY <3>3, <3>4
  <2> HIDE DEF started, left
  <2>6. again \in BOOLEAN /\ susp \in BOOLEAN
    BY Zenon
  <2>7. again => in_progress + Len(started) < MaxHandle
    BY <1>2, <2>5
  <2> DEFINE e == [received |-> left, peer |-> np, started |-> started, again |-> again, suspended |-> susp]
  <2>8. backlog_round(st) = e
    BY <1>5 DEF backlog_round, started, left, b, i
  <2> HIDE DEF again, susp, np
  <2>9. np \in [Peers -> PeerConnection]
    BY <2>4 DEF NoMore
  <2>10. /\ e \in [received : Seq(Block), peer : [Peers -> PeerConnection], started : Seq(Block),
                   again : BOOLEAN, suspended : BOOLEAN]
         /\ e.peer = np /\ e.started = started /\ e.again = again
    BY <2>3, <2>5, <2>6, <2>9
  <2> HIDE DEF e
  <2>11. QED BY <2>4, <2>5, <2>7, <2>8, <2>10 DEF RoundHolds
<1>6. QED BY <1>1, <1>3, <1>4, <1>5

LEMMA BacklogEnd ==
  ASSUME NodeTypes, ~all_handlers_busy
  PROVE  RoundHolds(0, FoldLeft(LAMBDA st, i : backlog_round(st), RoundStart(0), [i \in 1..MaxHandle |-> i]))
<1> DEFINE ts == [i \in 1..MaxHandle |-> i]
<1>1. MaxHandle \in Nat /\ ts \in Seq(Nat) /\ DOMAIN ts = 1..Len(ts)
  BY NodeSyncAssumption
<1>2. FoldLeft(LAMBDA st, i : backlog_round(st), RoundStart(0), ts) = Rounds!FoldOver(0, ts, DOMAIN ts)
  BY DEF FoldLeft, MapThenFoldSet, Rounds!FoldOver, Rounds!Folds, RoundStep, Rounds!Max, Max
<1> HIDE DEF ts
<1>3. Rounds!FoldOver(0, ts, DOMAIN ts) = Rounds!FoldTo(0, ts, Len(ts))
  BY <1>1 DEF Rounds!FoldTo
<1>4. RoundHolds(0, RoundStart(0))
  <2> DEFINE q == Reverse(new_received_sync_items) \o received_sync_items
             e == [received |-> q, peer |-> peer, started |-> <<>>, again |-> TRUE, suspended |-> FALSE]
  <2>1. q \in Seq(Block)
    <3>1. Reverse(new_received_sync_items) \in Seq(Block) /\ received_sync_items \in Seq(Block)
      BY ReverseTyped DEF NodeTypes
    <3>2. QED BY <3>1
  <2>2. RoundStart(0) = e
    BY DEF RoundStart
  <2>3. peer \in [Peers -> PeerConnection] /\ NoMore(peer)
    BY NoMorePeer DEF NodeTypes
  <2> HIDE DEF q
  <2>4. /\ e \in [received : Seq(Block), peer : [Peers -> PeerConnection], started : Seq(Block),
                  again : BOOLEAN, suspended : BOOLEAN]
        /\ e.peer = peer /\ e.started = <<>> /\ e.again = TRUE
    BY <2>1, <2>3
  <2>5. in_progress + Len(<<>>) < MaxHandle /\ in_progress + Len(<<>>) <= MaxHandle
    <3>1. in_progress = SyncCalls(calls) + SyncCalls(returns) /\ SyncCalls(calls) \in Nat /\ SyncCalls(returns) \in Nat
      BY InProgress DEF NodeTypes, in_progress, Busy
    <3>2. in_progress \in Nat
      BY <3>1
    <3>3. ~(in_progress >= MaxHandle)
      BY DEF all_handlers_busy
    <3>4. Len(<<>>) = 0
      OBVIOUS
    <3>5. QED BY <1>1, <3>2, <3>3, <3>4
  <2> HIDE DEF e
  <2>6. QED BY <2>2, <2>3, <2>4, <2>5 DEF RoundHolds
<1>5. ASSUME NEW i \in Nat, NEW st, RoundHolds(0, st)
      PROVE  RoundHolds(0, RoundStep(0, i, st))
  BY <1>5, RoundKeeps DEF RoundStep
<1>6. \A i \in 0..Len(ts) : RoundHolds(0, Rounds!FoldTo(0, ts, i))
  BY <1>1, <1>4, <1>5, Rounds!FoldHolds
<1>7. RoundHolds(0, Rounds!FoldTo(0, ts, Len(ts)))
  BY <1>1, <1>6
<1>8. QED BY <1>2, <1>3, <1>7 DEF ts

-----------------------------------------------------------------------------
(* What most steps have in common.                                         *)

LEMMA InitNode == Init => NodeInv
<1>1. SUFFICES ASSUME Init PROVE NodeInv
  OBVIOUS
<1>2. <<>> \in Seq(Msg) /\ <<>> \in Seq(Delivery) /\ <<>> \in Seq(Block)
      /\ <<>> \in Seq(CallRecord) /\ <<>> \in Seq(ReturnRecord)
  OBVIOUS
<1>3. known \in SUBSET Block /\ recent \in SUBSET known
  BY <1>1, NodeSyncAssumption DEF Init, Block
<1>4. NodeTypes
  BY <1>1, <1>2, <1>3, NewConnectionTyped, NodeSyncAssumption DEF Init, NodeTypes
<1>5. ReturnsStored
  BY <1>1 DEF Init, ReturnsStored
<1>6. HandlersBounded
  <2>1. Busy(calls, returns) = SyncCalls(calls) + SyncCalls(returns)
    BY <1>4, InProgress DEF NodeTypes
  <2>2. SyncCalls(<<>>) = 0
    <3>1. Sync(<<>>) = {}
      BY DEF Sync
    <3>2. QED BY <3>1, FS_EmptySet DEF SyncCalls
  <2>3. in_progress = 0
    BY <1>1, <2>1, <2>2 DEF Init, in_progress, Busy
  <2>4. QED BY <2>3, NodeSyncAssumption DEF HandlersBounded
<1>7. RequestedOnce
  BY <1>1, NewConnectionTyped DEF Init, RequestedOnce
<1>8. QED BY <1>4, <1>5, <1>6, <1>7 DEF NodeInv

LEMMA ClientSame ==
  ASSUME NodeInv, UNCHANGED client
  PROVE  /\ ReturnsStored' /\ HandlersBounded'
         /\ known' \in SUBSET Block /\ recent \in SUBSET known'
         /\ calls' \in Seq(CallRecord) /\ returns' \in Seq(ReturnRecord)
  BY DEF NodeInv, NodeTypes, client, ReturnsStored, HandlersBounded, in_progress

LEMMA OnceKept ==
  ASSUME NodeInv, NoMore(peer'), active_sync_requests' = active_sync_requests
  PROVE  RequestedOnce'
  BY DEF NodeInv, NoMore, RequestedOnce

LEMMA NodeParts ==
  ASSUME NodeInv
  PROVE  /\ NodeTypes /\ NoMore(peer)
         /\ \A p \in Peers : peer[p] \in PeerConnection /\ out[p] \in Seq(Msg)
                             /\ inbox[p] \in Seq(Delivery) /\ height[p] \in 0..MaxBlock
         /\ conn \in [Peers -> {"disconnected", "active", "closing", "terminating"}]
         /\ out \in [Peers -> Seq(Msg)] /\ inbox \in [Peers -> Seq(Delivery)]
         /\ height \in [Peers -> 0..MaxBlock]
         /\ items_to_fetch \in SUBSET Block /\ new_inventory \in SUBSET Block
  BY NoMorePeer DEF NodeInv, NodeTypes

(* A step without a call of the client, an accepted block or a new request *)
LEMMA QuietStep ==
  ASSUME NodeInv, UNCHANGED client, UNCHANGED recent,
         UNCHANGED <<active_sync_requests, new_received_sync_items, received_sync_items>>,
         conn' \in [Peers -> {"disconnected", "active", "closing", "terminating"}],
         NoMore(peer'), out' \in [Peers -> Seq(Msg)], inbox' \in [Peers -> Seq(Delivery)],
         height' \in [Peers -> 0..MaxBlock],
         items_to_fetch' \in SUBSET Block, new_inventory' \in SUBSET Block
  PROVE  NodeInv'
<1>1. ReturnsStored' /\ HandlersBounded' /\ known' \in SUBSET Block /\ recent \in SUBSET known'
      /\ calls' \in Seq(CallRecord) /\ returns' \in Seq(ReturnRecord)
  BY ClientSame
<1>2. RequestedOnce'
  BY OnceKept
<1>3. NodeTypes'
  BY <1>1 DEF NodeInv, NodeTypes, NoMore
<1>4. QED BY <1>1, <1>2, <1>3 DEF NodeInv

LEMMA MsgFields ==
  ASSUME NEW x \in Msg
  PROVE  x.items \in Seq(Block) /\ x.remaining \in Nat
  BY DEF Msg

LEMMA Received ==
  ASSUME NodeInv, NEW p \in Peers, NEW type, received_message(p, type)
  PROVE  /\ inbox' \in [Peers -> Seq(Delivery)]
         /\ Head(inbox[p]) \in Msg /\ Head(inbox[p]).items \in Seq(Block)
         /\ type \in {"block", "not_available", "inventory"} =>
              Head(inbox[p]).items # <<>> /\ Head(inbox[p]).items[1] \in Block
<1>1. inbox[p] \in Seq(Delivery) /\ inbox[p] # <<>> /\ inbox' = [inbox EXCEPT ![p] = Tail(inbox[p])]
      /\ Head(inbox[p]).type = type
  BY NodeParts DEF received_message
<1>2. Head(inbox[p]) \in Delivery /\ Tail(inbox[p]) \in Seq(Delivery)
  BY <1>1, HeadTailProperties
<1>3. inbox' \in [Peers -> Seq(Delivery)]
  BY <1>1, <1>2 DEF NodeInv, NodeTypes
<1>4. Head(inbox[p]) \in Msg
  BY <1>2 DEF Delivery
<1>5. Head(inbox[p]).items \in Seq(Block)
  BY <1>4, MsgFields
<1>6. type \in {"block", "not_available", "inventory"} => Head(inbox[p]).items # <<>>
  BY <1>1, <1>2 DEF Delivery
<1>7. Head(inbox[p]).items # <<>> => Head(inbox[p]).items[1] \in Block
  BY <1>5, SeqParts
<1>8. QED BY <1>3, <1>4, <1>5, <1>6, <1>7

LEMMA Disconnected ==
  ASSUME NodeInv, NEW ps
  PROVE  disconnected_from(ps) \in [Peers -> {"disconnected", "active", "closing", "terminating"}]
  BY DEF NodeInv, NodeTypes, disconnected_from

-----------------------------------------------------------------------------
(* The peers.                                                              *)

LEMMA PeerListsIds ==
  ASSUME NodeInv, NEW p \in Peers, peer_lists_ids(p)
  PROVE  NodeInv'
<1> DEFINE synopsis == Head(out[p]).items
           reply == get_item_ids(height[p], synopsis)
<1>1. out[p] \in Seq(Msg) /\ out[p] # <<>> /\ height[p] \in 0..MaxBlock /\ inbox[p] \in Seq(Delivery)
  BY NodeParts DEF peer_lists_ids
<1>2. Head(out[p]) \in Msg /\ Tail(out[p]) \in Seq(Msg)
  BY <1>1, HeadTailProperties
<1>3. synopsis \in Seq(Block)
  BY <1>2, MsgFields
<1> HIDE DEF synopsis
<1>4. reply \in Delivery
  BY <1>1, <1>3, ItemIdsTyped
<1> HIDE DEF reply
<1>5. Append(inbox[p], reply) \in Seq(Delivery)
  BY <1>1, <1>4
<1>6. inbox' = [inbox EXCEPT ![p] = Append(inbox[p], reply)] /\ out' = [out EXCEPT ![p] = Tail(out[p])]
  BY DEF peer_lists_ids, reply, synopsis
<1>7. inbox' \in [Peers -> Seq(Delivery)] /\ out' \in [Peers -> Seq(Msg)]
  BY <1>2, <1>5, <1>6, NodeParts
<1>8. /\ UNCHANGED <<conn, height, peer, recent, active_sync_requests, new_received_sync_items,
                     received_sync_items, items_to_fetch, new_inventory>>
      /\ UNCHANGED client
  BY DEF peer_lists_ids, download, inventory
<1>9. QED BY <1>7, <1>8, NodeParts, QuietStep

LEMMA PeerSendsItems ==
  ASSUME NodeInv, NEW p \in Peers, peer_sends_items(p)
  PROVE  NodeInv'
<1> DEFINE items == Head(out[p]).items
<1>1. out[p] \in Seq(Msg) /\ out[p] # <<>> /\ inbox[p] \in Seq(Delivery)
  BY NodeParts DEF peer_sends_items
<1>2. Head(out[p]) \in Msg /\ Tail(out[p]) \in Seq(Msg)
  BY <1>1, HeadTailProperties
<1>3. items \in Seq(Block)
  BY <1>2, MsgFields
<1>4. PICK missing \in SUBSET ToSet(items) :
        inbox' = [inbox EXCEPT ![p] = inbox[p] \o
          [i \in DOMAIN items |->
             Message(IF items[i] \in missing THEN "not_available" ELSE "block", <<items[i]>>, 0)]]
  BY DEF peer_sends_items
<1> HIDE DEF items
<1> DEFINE q == [i \in DOMAIN items |->
                   Message(IF items[i] \in missing THEN "not_available" ELSE "block", <<items[i]>>, 0)]
<1>5. ASSUME NEW i \in DOMAIN items
      PROVE  Message(IF items[i] \in missing THEN "not_available" ELSE "block", <<items[i]>>, 0) \in Delivery
  <2> DEFINE t == IF items[i] \in missing THEN "not_available" ELSE "block"
             s == <<items[i]>>
  <2>1. items[i] \in Block
    BY <1>3
  <2>2. s \in Seq(Block) /\ s # <<>> /\ 0 \in Nat
    BY <2>1
  <2>3. t \in {"fetch_ids", "fetch_items", "fetch_sync_items", "ids", "block", "not_available", "inventory"}
    OBVIOUS
  <2> HIDE DEF t, s
  <2>4. Message(t, s, 0) \in Delivery
    BY <2>2, <2>3, MsgRecord
  <2>5. QED BY <2>4 DEF t, s
<1>6. q \in Seq(Delivery)
  <2>1. q \in [1..Len(items) -> Delivery] /\ Len(items) \in Nat
    BY <1>3, <1>5
  <2> HIDE DEF q
  <2>2. QED BY <2>1
<1>7. inbox[p] \o q \in Seq(Delivery)
  <2> HIDE DEF q
  <2>1. QED BY <1>1, <1>6
<1>8. inbox' \in [Peers -> Seq(Delivery)]
  BY <1>4, <1>7 DEF NodeInv, NodeTypes
<1>9. out' \in [Peers -> Seq(Msg)]
  BY <1>2 DEF NodeInv, NodeTypes, peer_sends_items
<1>10. /\ UNCHANGED <<conn, height, peer, recent, active_sync_requests, new_received_sync_items,
                      received_sync_items, items_to_fetch, new_inventory>>
       /\ UNCHANGED client
  BY DEF peer_sends_items, links, download, inventory
<1>11. QED BY <1>8, <1>9, <1>10, NodeParts, QuietStep

LEMMA PeerGrows ==
  ASSUME NodeInv, NEW p \in Peers, peer_grows(p)
  PROVE  NodeInv'
<1> DEFINE h == height[p] + 1
<1>1. h \in Block /\ h \in 0..MaxBlock
  <2>1. height[p] \in 0..MaxBlock /\ height[p] < MaxBlock
    BY NodeParts DEF peer_grows
  <2>2. h \in Nat /\ 1 <= h /\ h <= MaxBlock
    BY <2>1, BlockFacts
  <2>3. QED BY <2>2, BlockFacts
<1>2. Message("inventory", <<h>>, 0) \in Delivery
  <2> HIDE DEF h
  <2>1. <<h>> \in Seq(Block) /\ <<h>> # <<>> /\ 0 \in Nat
    BY <1>1
  <2>2. QED BY <2>1, MsgRecord
<1>3. Append(inbox[p], Message("inventory", <<h>>, 0)) \in Seq(Delivery)
  <2>1. inbox[p] \in Seq(Delivery)
    BY NodeParts
  <2>2. QED BY <1>2, <2>1
<1>4. inbox' \in [Peers -> Seq(Delivery)]
  <2>1. inbox' = inbox \/ inbox' = [inbox EXCEPT ![p] = Append(inbox[p], Message("inventory", <<h>>, 0))]
    BY DEF peer_grows
  <2>2. QED BY <1>3, <2>1, NodeParts
<1>5. height' \in [Peers -> 0..MaxBlock]
  BY <1>1, NodeParts DEF peer_grows
<1>6. /\ UNCHANGED <<conn, peer, out, recent, active_sync_requests, new_received_sync_items,
                     received_sync_items, items_to_fetch, new_inventory>>
      /\ UNCHANGED client
  BY DEF peer_grows, download, inventory
<1>7. QED BY <1>4, <1>5, <1>6, NodeParts, QuietStep

LEMMA PeerAsks ==
  ASSUME NodeInv, NEW p \in Peers, peer_asks(p)
  PROVE  NodeInv'
<1> DEFINE m == Message("fetch_ids", halvings(height[p]), 0)
<1>1. halvings(height[p]) \in Seq(Block)
  BY NodeParts, SynopsisTyped
<1>2. m \in Delivery
  BY <1>1, MsgRecord
<1>3. inbox' = [inbox EXCEPT ![p] = Append(inbox[p], m)]
  BY DEF peer_asks
<1> HIDE DEF m
<1>4. Append(inbox[p], m) \in Seq(Delivery)
  <2>1. inbox[p] \in Seq(Delivery)
    BY NodeParts
  <2>2. QED BY <1>2, <2>1
<1>5. inbox' \in [Peers -> Seq(Delivery)]
  BY <1>3, <1>4, NodeParts
<1>6. /\ UNCHANGED <<conn, height, peer, out, recent, active_sync_requests, new_received_sync_items,
                     received_sync_items, items_to_fetch, new_inventory>>
      /\ UNCHANGED client
  BY DEF peer_asks, download, inventory
<1>7. QED BY <1>5, <1>6, NodeParts, QuietStep

-----------------------------------------------------------------------------
(* Connections and messages.                                               *)

LEMMA NewPeer ==
  ASSUME NodeInv, NEW p \in Peers, new_peer_just_added(p)
  PROVE  NodeInv'
<1> DEFINE e == start_synchronizing_with_peer(NewConnection)
           np == [peer EXCEPT ![p] = e]
<1>1. e \in PeerConnection /\ e.sync_items_requested = {}
  BY NewConnectionTyped, StartSynchronizing DEF Keeps
<1> HIDE DEF e
<1>2. NoMore(np)
  BY <1>1, NodeParts DEF NoMore
<1>3. peer' = asked(np, {p}) /\ out' = ask(np, {p})
  BY DEF new_peer_just_added, e
<1> HIDE DEF np
<1>4. NoMore(peer')
  BY <1>2, <1>3, AskedNoMore
<1>5. out' \in [Peers -> Seq(Msg)]
  <2>1. np \in [Peers -> PeerConnection]
    BY <1>2 DEF NoMore
  <2>2. QED BY <1>3, <2>1, NodeParts, AskTyped
<1>6. conn' \in [Peers -> {"disconnected", "active", "closing", "terminating"}]
  BY NodeParts DEF new_peer_just_added
<1>7. /\ UNCHANGED <<inbox, height, recent, active_sync_requests, new_received_sync_items,
                     received_sync_items, items_to_fetch, new_inventory>>
      /\ UNCHANGED client
  BY DEF new_peer_just_added, download, inventory
<1>8. QED BY <1>4, <1>5, <1>6, <1>7, NodeParts, QuietStep

LEMMA OnFetchIds ==
  ASSUME NodeInv, NEW p \in Peers, on_fetch_blockchain_item_ids_message(p)
  PROVE  NodeInv'
<1> DEFINE synopsis == Head(inbox[p]).items
           peer_needs == lacks(get_item_ids(head_num(known), synopsis), synopsis)
           restart == ~peer[p].we_need_sync_items_from_peer /\ synopsis # <<>> /\ Last(synopsis) \notin known
           r == [peer[p] EXCEPT !.peer_needs_sync_items_from_us = peer_needs]
           e == IF restart THEN start_synchronizing_with_peer(r) ELSE r
           np == [peer EXCEPT ![p] = e]
           ps == IF restart THEN {p} ELSE {}
<1>1. inbox' \in [Peers -> Seq(Delivery)]
  BY Received DEF on_fetch_blockchain_item_ids_message
<1>2. peer' = asked(np, ps) /\ out' = ask(np, ps)
  BY DEF on_fetch_blockchain_item_ids_message
<1>3. conn' \in [Peers -> {"disconnected", "active", "closing", "terminating"}]
  <2>1. \E qs : conn' = disconnected_from(qs)
    BY DEF on_fetch_blockchain_item_ids_message
  <2>2. QED BY <2>1, Disconnected
<1>4. peer_needs \in BOOLEAN
  BY DEF lacks
<1> HIDE DEF peer_needs, restart
<1>5. peer[p] \in PeerConnection
  BY NodeParts
<1>6. Keeps(peer[p], r)
  BY <1>4, <1>5, SetPeerNeeds
<1> HIDE DEF r
<1>7. Keeps(peer[p], e)
  BY <1>6, StartSynchronizing DEF Keeps
<1> HIDE DEF e
<1>8. NoMore(np)
  BY <1>7, NodeParts, NoMoreSet
<1> HIDE DEF np
<1>9. NoMore(peer')
  BY <1>2, <1>8, AskedNoMore
<1>10. out' \in [Peers -> Seq(Msg)]
  <2>1. np \in [Peers -> PeerConnection]
    BY <1>8 DEF NoMore
  <2>2. QED BY <1>2, <2>1, NodeParts, AskTyped
<1>11. /\ UNCHANGED <<height, recent, active_sync_requests, new_received_sync_items,
                      received_sync_items, items_to_fetch, new_inventory>>
       /\ UNCHANGED client
  BY DEF on_fetch_blockchain_item_ids_message, download, inventory
<1>12. QED BY <1>1, <1>3, <1>9, <1>10, <1>11, NodeParts, QuietStep

LEMMA OnInventory ==
  ASSUME NodeInv, NEW p \in Peers, on_item_ids_inventory_message(p)
  PROVE  NodeInv'
<1> DEFINE b == Head(inbox[p]).items[1]
           S == peer[p].inventory_advertised_to_us \union {b}
           e == [peer[p] EXCEPT !.inventory_advertised_to_us = S]
<1>1. inbox' \in [Peers -> Seq(Delivery)] /\ b \in Block
  BY Received DEF on_item_ids_inventory_message
<1>2. peer' = peer \/ peer' = [peer EXCEPT ![p] = e]
  BY NodeParts DEF on_item_ids_inventory_message, NoMore
<1>3. items_to_fetch' \in SUBSET Block
  BY <1>1, NodeParts DEF on_item_ids_inventory_message
<1>4. peer[p] \in PeerConnection
  BY NodeParts
<1>5. S \in SUBSET Block
  BY <1>1, <1>4, FieldsTyped
<1> HIDE DEF S
<1>6. Keeps(peer[p], e)
  BY <1>4, <1>5, SetAdvertisedToUs
<1> HIDE DEF e
<1>7. NoMore(peer')
  <2>1. NoMore([peer EXCEPT ![p] = e])
    BY <1>6, NodeParts, NoMoreSet
  <2>2. QED BY <1>2, <2>1, NodeParts
<1>8. /\ UNCHANGED <<conn, height, out, recent, active_sync_requests, new_received_sync_items,
                     received_sync_items, new_inventory>>
      /\ UNCHANGED client
  BY DEF on_item_ids_inventory_message, links, download
<1>9. QED BY <1>1, <1>3, <1>7, <1>8, NodeParts, QuietStep

LEMMA ItemNotAvailable ==
  ASSUME NodeInv, NEW p \in Peers, item_not_available(p)
  PROVE  NodeInv'
<1> DEFINE b == Head(inbox[p]).items[1]
           S == peer[p].items_requested \ {b}
           T == peer[p].inventory_advertised_to_us \ {b}
           d == [peer[p] EXCEPT !.items_requested = S]
           e == [d EXCEPT !.inventory_advertised_to_us = T]
<1>1. inbox' \in [Peers -> Seq(Delivery)] /\ b \in Block
  BY Received DEF item_not_available
<1>2. peer[p] \in PeerConnection
  BY NodeParts
<1>3. S \in SUBSET Block /\ T \in SUBSET Block
  BY <1>2, FieldsTyped
<1>4. peer' = [peer EXCEPT ![p] = e]
  BY <1>2, NodeParts DEF item_not_available, NoMore, PeerConnection
<1> HIDE DEF S, T
<1>5. Keeps(peer[p], d)
  BY <1>2, <1>3, SetItemsRequested
<1> HIDE DEF d
<1>6. Keeps(peer[p], e)
  BY <1>3, <1>5, SetAdvertisedToUs DEF Keeps
<1> HIDE DEF e
<1>7. NoMore(peer')
  BY <1>4, <1>6, NodeParts, NoMoreSet
<1>8. items_to_fetch' \in SUBSET Block
  BY <1>1, NodeParts DEF item_not_available
<1>9. /\ UNCHANGED <<conn, height, out, recent, active_sync_requests, new_received_sync_items,
                     received_sync_items, new_inventory>>
      /\ UNCHANGED client
  BY DEF item_not_available, links, download
<1>10. QED BY <1>1, <1>7, <1>8, <1>9, NodeParts, QuietStep

LEMMA SyncItemNotAvailable ==
  ASSUME NodeInv, NEW p \in Peers, sync_item_not_available(p)
  PROVE  NodeInv'
<1> DEFINE b == Head(inbox[p]).items[1]
           S == peer[p].sync_items_requested \ {b}
           v == peer[p].inhibit_fetching_sync_blocks \/ peer[p].peer_needs_sync_items_from_us
           e == [peer[p] EXCEPT !.sync_items_requested = S, !.inhibit_fetching_sync_blocks = v]
<1>1. inbox' \in [Peers -> Seq(Delivery)]
  BY Received DEF sync_item_not_available
<1>2. peer[p] \in PeerConnection
  BY NodeParts
<1>3. S \in SUBSET Block /\ S \subseteq peer[p].sync_items_requested
  BY <1>2, FieldsTyped
<1>v. v \in BOOLEAN
  OBVIOUS
<1>4. peer' = [peer EXCEPT ![p] = e]
  BY <1>2, NodeParts DEF sync_item_not_available, NoMore, PeerConnection
<1> HIDE DEF S, v
<1>5. e \in PeerConnection /\ e.sync_items_requested = S
  BY <1>2, <1>3, <1>v, SetSyncRequested
<1> HIDE DEF e
<1>6. NoMore(peer')
  BY <1>3, <1>4, <1>5, NodeParts DEF NoMore
<1>7. conn' \in [Peers -> {"disconnected", "active", "closing", "terminating"}]
  <2>1. \E qs : conn' = disconnected_from(qs)
    BY DEF sync_item_not_available
  <2>2. QED BY <2>1, Disconnected
<1>8. /\ UNCHANGED <<height, out, recent, active_sync_requests, new_received_sync_items,
                     received_sync_items, items_to_fetch, new_inventory>>
      /\ UNCHANGED client
  BY DEF sync_item_not_available, inventory
<1>9. QED BY <1>1, <1>6, <1>7, <1>8, NodeParts, QuietStep

(* The block leaves the requests and the set that counts them together *)
LEMMA BlockDuringSync ==
  ASSUME NodeInv, NEW p \in Peers, process_block_during_sync(p)
  PROVE  NodeInv'
<1> DEFINE b == Head(inbox[p]).items[1]
           S == peer[p].sync_items_requested \ {b}
           e == [peer[p] EXCEPT !.sync_items_requested = S]
           np == [peer EXCEPT ![p] = e]
<1>1. inbox' \in [Peers -> Seq(Delivery)] /\ b \in Block
  BY Received DEF process_block_during_sync
<1>2. peer[p] \in PeerConnection /\ b \in peer[p].sync_items_requested
  BY NodeParts DEF process_block_during_sync
<1>3. PICK ps : peer' = asked(np, ps) /\ out' = ask(np, ps)
  BY DEF process_block_during_sync
<1>4. /\ active_sync_requests' = active_sync_requests \ {b}
      /\ new_received_sync_items' = <<b>> \o new_received_sync_items
      /\ UNCHANGED client
      /\ UNCHANGED <<conn, height, recent, received_sync_items, items_to_fetch, new_inventory>>
  BY DEF process_block_during_sync, links, inventory
<1>5. S \in SUBSET Block
  BY <1>2, FieldsTyped
<1>6. e \in PeerConnection /\ e.sync_items_requested = S
  <2> HIDE DEF S
  <2>1. QED BY <1>2, <1>5, SetSyncRequested
<1> HIDE DEF e, b
<1>7. NoMore(np) /\ np[p].sync_items_requested = S
  BY <1>6, NodeParts DEF NoMore
<1> HIDE DEF np
<1>8. NoMore(peer')
  BY <1>3, <1>7, AskedNoMore
<1>9. out' \in [Peers -> Seq(Msg)]
  <2>1. np \in [Peers -> PeerConnection]
    BY <1>7 DEF NoMore
  <2>2. QED BY <1>3, <2>1, NodeParts, AskTyped
<1>10. b \notin peer'[p].sync_items_requested
  <2>1. peer'[p].sync_items_requested = np[p].sync_items_requested
    <3>1. np[p] \in PeerConnection
      BY <1>7 DEF NoMore
    <3>2. TRUE \in BOOLEAN
      OBVIOUS
    <3>3. Keeps(np[p], [np[p] EXCEPT !.item_ids_requested = TRUE])
      BY <3>1, <3>2, SetIdsRequested
    <3>4. peer'[p] = [np[p] EXCEPT !.item_ids_requested = TRUE] \/ peer'[p] = np[p]
      BY <1>3 DEF asked
    <3>5. QED BY <3>3, <3>4 DEF Keeps
  <2>2. QED BY <1>7, <2>1
<1>11. RequestedOnce'
  <2>1. ASSUME NEW q \in Peers, NEW c \in peer'[q].sync_items_requested
        PROVE  c # b /\ c \in peer[q].sync_items_requested
    <3>1. c \in peer[q].sync_items_requested
      BY <1>8, <2>1 DEF NoMore
    <3>2. q # p => b \notin peer[q].sync_items_requested
      BY <1>2 DEF NodeInv, RequestedOnce
    <3>3. QED BY <1>10, <2>1, <3>1, <3>2
  <2>2. QED BY <1>4, <2>1 DEF NodeInv, RequestedOnce
<1>12. ReturnsStored' /\ HandlersBounded' /\ known' \in SUBSET Block /\ recent \in SUBSET known'
       /\ calls' \in Seq(CallRecord) /\ returns' \in Seq(ReturnRecord)
  BY <1>4, ClientSame
<1>13. <<b>> \o new_received_sync_items \in Seq(Block)
  <2>1. <<b>> \in Seq(Block) /\ new_received_sync_items \in Seq(Block)
    BY <1>1 DEF NodeInv, NodeTypes
  <2>2. QED BY <2>1
<1>14. NodeTypes'
  BY <1>1, <1>4, <1>8, <1>9, <1>12, <1>13 DEF NodeInv, NodeTypes, NoMore
<1>15. QED BY <1>11, <1>12, <1>14 DEF NodeInv

-----------------------------------------------------------------------------
(* The loops that request blocks.                                          *)

LEMMA FetchSyncItems ==
  ASSUME NodeInv, fetch_sync_items_loop
  PROVE  NodeInv'
<1>1. PICK m :
        /\ Plan(m)
        /\ active_sync_requests' = active_sync_requests \union Planned(m)
        /\ peer' = [p \in Peers |-> [peer[p] EXCEPT !.sync_items_requested
                                       = peer[p].sync_items_requested \union ToSet(m[p])]]
        /\ out' = [p \in Peers |-> IF m[p] = <<>> THEN out[p]
                                   ELSE Append(out[p], Message("fetch_sync_items", m[p], 0))]
  <2>1. PICK m \in {IF suspended THEN [p \in Peers |-> <<>>] ELSE sync_requests(order) : order \in orders} :
          /\ active_sync_requests' = active_sync_requests \union UNION {ToSet(m[p]) : p \in Peers}
          /\ peer' = [p \in Peers |-> [peer[p] EXCEPT !.sync_items_requested = @ \union ToSet(m[p])]]
          /\ out' = [p \in Peers |-> IF m[p] = <<>> THEN out[p]
                                     ELSE Append(out[p], Message("fetch_sync_items", m[p], 0))]
    BY DEF fetch_sync_items_loop
  <2>2. PICK order \in orders : m = IF suspended THEN [p \in Peers |-> <<>>] ELSE sync_requests(order)
    BY <2>1
  <2>3. Plan(IF suspended THEN [p \in Peers |-> <<>>] ELSE sync_requests(order))
    BY EmptyPlan, RequestsPlan, NodeParts
  <2>4. QED BY <2>1, <2>2, <2>3 DEF Planned
<1>2. /\ UNCHANGED client
      /\ UNCHANGED <<conn, height, inbox, recent, new_received_sync_items, received_sync_items,
                     items_to_fetch, new_inventory>>
  BY DEF fetch_sync_items_loop, links, inventory
<1>3. ASSUME NEW p \in Peers
      PROVE  /\ m[p] \in Seq(Block) /\ ToSet(m[p]) \in SUBSET Block
             /\ peer'[p] \in PeerConnection
             /\ peer'[p].sync_items_requested = peer[p].sync_items_requested \union ToSet(m[p])
             /\ out'[p] \in Seq(Msg)
  <2>1. m[p] \in Seq(Block)
    BY <1>1 DEF Plan
  <2>2. ToSet(m[p]) \in SUBSET Block
    BY <2>1, SeqParts
  <2> DEFINE S == peer[p].sync_items_requested \union ToSet(m[p])
  <2>3. peer[p] \in PeerConnection /\ S \in SUBSET Block
    BY <2>2, NodeParts, FieldsTyped
  <2>4. peer'[p] = [peer[p] EXCEPT !.sync_items_requested = S]
    BY <1>1
  <2>5. peer'[p] \in PeerConnection /\ peer'[p].sync_items_requested = S
    <3> HIDE DEF S
    <3>1. /\ [peer[p] EXCEPT !.sync_items_requested = S] \in PeerConnection
          /\ [peer[p] EXCEPT !.sync_items_requested = S].sync_items_requested = S
      BY <2>3, SetSyncRequested
    <3>2. QED BY <2>4, <3>1
  <2>6. out'[p] \in Seq(Msg)
    <3>1. Message("fetch_sync_items", m[p], 0) \in Msg
      BY <2>1, MsgRecord
    <3>2. out[p] \in Seq(Msg)
      BY NodeParts
    <3>3. Append(out[p], Message("fetch_sync_items", m[p], 0)) \in Seq(Msg)
      BY <3>1, <3>2
    <3>4. QED BY <1>1, <3>2, <3>3
  <2>7. QED BY <2>1, <2>2, <2>5, <2>6
<1>4. peer' \in [Peers -> PeerConnection] /\ out' \in [Peers -> Seq(Msg)]
  BY <1>1, <1>3
<1>5. active_sync_requests' \in SUBSET Block
  BY <1>1, <1>3 DEF NodeInv, NodeTypes, Planned
<1>6. RequestedOnce'
  <2>1. ASSUME NEW p \in Peers, NEW b \in peer'[p].sync_items_requested
        PROVE  b \in active_sync_requests' /\ \A q \in Peers \ {p} : b \notin peer'[q].sync_items_requested
    <3>1. CASE b \in ToSet(m[p])
      <4>1. b \notin active_sync_requests /\ \A q \in Peers \ {p} : b \notin ToSet(m[q])
        BY <1>1, <3>1 DEF Plan
      <4>2. \A q \in Peers : b \notin peer[q].sync_items_requested
        BY <4>1 DEF NodeInv, RequestedOnce
      <4>3. b \in active_sync_requests'
        BY <1>1, <3>1 DEF Planned
      <4>4. QED BY <1>3, <4>1, <4>2, <4>3
    <3>2. CASE b \in peer[p].sync_items_requested
      <4>1. b \in active_sync_requests /\ \A q \in Peers \ {p} : b \notin peer[q].sync_items_requested
        BY <3>2 DEF NodeInv, RequestedOnce
      <4>2. \A q \in Peers : b \notin ToSet(m[q])
        BY <1>1, <4>1 DEF Plan
      <4>3. QED BY <1>1, <1>3, <4>1, <4>2
    <3>3. QED BY <1>3, <2>1, <3>1, <3>2
  <2>2. QED BY <2>1 DEF RequestedOnce
<1>7. ReturnsStored' /\ HandlersBounded' /\ known' \in SUBSET Block /\ recent \in SUBSET known'
      /\ calls' \in Seq(CallRecord) /\ returns' \in Seq(ReturnRecord)
  BY <1>2, ClientSame
<1>8. NodeTypes'
  BY <1>2, <1>4, <1>5, <1>7 DEF NodeInv, NodeTypes
<1>9. QED BY <1>6, <1>7, <1>8 DEF NodeInv

LEMMA FetchItems ==
  ASSUME NodeInv, fetch_items_loop
  PROVE  NodeInv'
<1>1. PICK m \in item_requests :
        /\ items_to_fetch' = {b \in items_to_fetch : m[b] = NoPeer}
        /\ peer' = [p \in Peers |-> [peer[p] EXCEPT !.items_requested
                      = peer[p].items_requested \union {b \in items_to_fetch : m[b] = p}]]
        /\ out' = [p \in Peers |-> IF {b \in items_to_fetch : m[b] = p} = {} THEN out[p]
                     ELSE Append(out[p], Message("fetch_items", SetToSeq({b \in items_to_fetch : m[b] = p}), 0))]
  BY DEF fetch_items_loop
<1>2. /\ UNCHANGED client
      /\ UNCHANGED <<conn, height, inbox, recent, active_sync_requests, new_received_sync_items,
                     received_sync_items, new_inventory>>
  BY DEF fetch_items_loop, links, download
<1>3. items_to_fetch' \in SUBSET Block
  BY <1>1, NodeParts
<1>4. ASSUME NEW p \in Peers PROVE Keeps(peer[p], peer'[p]) /\ out'[p] \in Seq(Msg)
  <2> DEFINE R == {b \in items_to_fetch : m[b] = p}
             S == peer[p].items_requested \union R
  <2>1. peer[p] \in PeerConnection /\ R \in SUBSET Block /\ S \in SUBSET Block
    BY NodeParts, FieldsTyped
  <2>2. peer'[p] = [peer[p] EXCEPT !.items_requested = S]
    BY <1>1
  <2>3. out'[p] = IF R = {} THEN out[p] ELSE Append(out[p], Message("fetch_items", SetToSeq(R), 0))
    BY <1>1
  <2> HIDE DEF R, S
  <2>4. Keeps(peer[p], [peer[p] EXCEPT !.items_requested = S])
    BY <2>1, SetItemsRequested
  <2>5. IsFiniteSet(R)
    <3>1. IsFiniteSet(Block)
      BY BlockFacts, FS_Interval DEF Block
    <3>2. QED BY <2>1, <3>1, FS_Subset
  <2>6. SetToSeq(R) \in Seq(Block)
    BY <2>1, <2>5, SetToSeqTyped
  <2>7. Message("fetch_items", SetToSeq(R), 0) \in Msg
    BY <2>6, MsgRecord
  <2>8. out[p] \in Seq(Msg)
    BY NodeParts
  <2>9. Append(out[p], Message("fetch_items", SetToSeq(R), 0)) \in Seq(Msg)
    BY <2>7, <2>8
  <2>10. QED BY <2>2, <2>3, <2>4, <2>8, <2>9
<1>5. NoMore(peer')
  BY <1>1, <1>4 DEF NoMore, Keeps
<1>6. out' \in [Peers -> Seq(Msg)]
  BY <1>1, <1>4
<1>7. QED BY <1>2, <1>3, <1>5, <1>6, NodeParts, QuietStep

LEMMA AdvertiseInventory ==
  ASSUME NodeInv, advertise_inventory_loop
  PROVE  NodeInv'
<1>1. ASSUME NEW p \in Peers PROVE Keeps(peer[p], peer'[p])
  <2> DEFINE S == peer[p].inventory_advertised_to_peer
                    \union (new_inventory \ peer[p].inventory_advertised_to_us)
  <2>1. peer[p] \in PeerConnection /\ S \in SUBSET Block
    BY NodeParts, FieldsTyped
  <2>2. peer'[p] = peer[p] \/ peer'[p] = [peer[p] EXCEPT !.inventory_advertised_to_peer = S]
    BY DEF advertise_inventory_loop
  <2> HIDE DEF S
  <2>3. Keeps(peer[p], [peer[p] EXCEPT !.inventory_advertised_to_peer = S])
    BY <2>1, SetAdvertisedToPeer
  <2>4. Keeps(peer[p], peer[p])
    BY <2>1 DEF Keeps
  <2>5. QED BY <2>2, <2>3, <2>4
<1>2. peer' = [p \in Peers |-> peer'[p]]
  BY DEF advertise_inventory_loop
<1>3. NoMore(peer')
  BY <1>1, <1>2 DEF NoMore, Keeps
<1>4. /\ UNCHANGED client /\ new_inventory' = {}
      /\ UNCHANGED <<conn, height, inbox, out, recent, active_sync_requests, new_received_sync_items,
                     received_sync_items, items_to_fetch>>
  BY DEF advertise_inventory_loop, links, download
<1>5. QED BY <1>3, <1>4, NodeParts, QuietStep

-----------------------------------------------------------------------------
(* The end of a connection.                                                *)

LEMMA Silent ==
  ASSUME NodeInv, NEW p \in Peers, request_ignored(p) \/ inactive(p)
  PROVE  NodeInv'
<1>1. conn' \in [Peers -> {"disconnected", "active", "closing", "terminating"}]
  BY NodeParts DEF request_ignored, inactive
<1>2. /\ UNCHANGED client
      /\ UNCHANGED <<height, peer, inbox, out, recent, active_sync_requests, new_received_sync_items,
                     received_sync_items, items_to_fetch, new_inventory>>
  BY DEF request_ignored, inactive, download, inventory
<1>3. QED BY <1>1, <1>2, NodeParts, QuietStep

LEMMA ConnectionClosed ==
  ASSUME NodeInv, NEW p \in Peers, on_connection_closed(p)
  PROVE  NodeInv'
<1>1. /\ peer' = [peer EXCEPT ![p] = NewConnection]
      /\ active_sync_requests' = active_sync_requests \ peer[p].sync_items_requested
      /\ out' = [out EXCEPT ![p] = <<>>] /\ inbox' = [inbox EXCEPT ![p] = <<>>]
      /\ conn' = [conn EXCEPT ![p] = "disconnected"]
      /\ UNCHANGED client
      /\ UNCHANGED <<height, recent, new_received_sync_items, received_sync_items, new_inventory>>
  BY DEF on_connection_closed, rescheduled
<1>2. items_to_fetch' \in SUBSET Block
  <2>1. peer[p].items_requested \in SUBSET Block
    BY NodeParts, FieldsTyped
  <2>2. QED BY <2>1, NodeParts DEF on_connection_closed
<1>3. peer' \in [Peers -> PeerConnection] /\ peer'[p].sync_items_requested = {}
      /\ \A q \in Peers \ {p} : peer'[q] = peer[q]
  BY <1>1, NodeParts, NewConnectionTyped DEF NoMore
<1>4. RequestedOnce'
  BY <1>1, <1>3 DEF NodeInv, RequestedOnce
<1>5. ReturnsStored' /\ HandlersBounded' /\ known' \in SUBSET Block /\ recent \in SUBSET known'
      /\ calls' \in Seq(CallRecord) /\ returns' \in Seq(ReturnRecord)
  BY <1>1, ClientSame
<1>6. <<>> \in Seq(Msg) /\ <<>> \in Seq(Delivery)
  OBVIOUS
<1>7. NodeTypes'
  BY <1>1, <1>2, <1>3, <1>5, <1>6 DEF NodeInv, NodeTypes
<1>8. QED BY <1>4, <1>5, <1>7 DEF NodeInv

-----------------------------------------------------------------------------
(* The calls of the client.                                                *)

ClientOK ==
  /\ calls \in Seq(CallRecord) /\ returns \in Seq(ReturnRecord)
  /\ ReturnsStored /\ HandlersBounded

LEMMA ClientStep ==
  ASSUME NodeInv, ClientOK', known' \in SUBSET Block, recent' \in SUBSET known',
         UNCHANGED <<conn, height, items_to_fetch, active_sync_requests>>,
         NoMore(peer'), out' \in [Peers -> Seq(Msg)], inbox' \in [Peers -> Seq(Delivery)],
         new_received_sync_items' \in Seq(Block), received_sync_items' \in Seq(Block),
         new_inventory' \in SUBSET Block
  PROVE  NodeInv'
<1>1. RequestedOnce'
  BY OnceKept
<1>2. NodeTypes'
  BY DEF NodeInv, NodeTypes, ClientOK, NoMore
<1>3. QED BY <1>1, <1>2 DEF NodeInv, ClientOK

LEMMA ClientParts ==
  ASSUME NodeInv
  PROVE  /\ ClientOK /\ known \in SUBSET Block /\ recent \in SUBSET known
         /\ new_received_sync_items \in Seq(Block) /\ received_sync_items \in Seq(Block)
         /\ SyncCalls(calls) + SyncCalls(returns) <= MaxHandle
         /\ SyncCalls(calls) \in Nat /\ SyncCalls(returns) \in Nat
<1>1. ClientOK /\ known \in SUBSET Block /\ recent \in SUBSET known
      /\ new_received_sync_items \in Seq(Block) /\ received_sync_items \in Seq(Block)
  BY DEF NodeInv, NodeTypes, ClientOK
<1>2. /\ Busy(calls, returns) = SyncCalls(calls) + SyncCalls(returns)
      /\ SyncCalls(calls) \in Nat /\ SyncCalls(returns) \in Nat
  BY <1>1, InProgress DEF ClientOK
<1>3. in_progress = Busy(calls, returns) /\ in_progress <= MaxHandle
  BY <1>1 DEF ClientOK, HandlersBounded, in_progress, Busy
<1>4. QED BY <1>1, <1>2, <1>3

LEMMA BoundedNext ==
  ASSUME calls' \in Seq(CallRecord), returns' \in Seq(ReturnRecord),
         SyncCalls(calls') + SyncCalls(returns') <= MaxHandle
  PROVE  HandlersBounded'
<1>1. Busy(calls', returns') = SyncCalls(calls') + SyncCalls(returns')
  BY InProgress
<1>2. in_progress' = Busy(calls', returns')
  BY DEF in_progress, Busy
<1>3. QED BY <1>1, <1>2 DEF HandlersBounded

LEMMA CallMade ==
  ASSUME NodeInv, NEW c \in CallRecord, c.op # "sync_block",
         calls' = Append(calls, c), UNCHANGED <<known, returns>>
  PROVE  ClientOK'
<1>1. calls \in Seq(CallRecord) /\ returns' \in Seq(ReturnRecord)
  BY ClientParts DEF ClientOK
<1>2. calls' \in Seq(CallRecord)
  BY <1>1
<1>3. SyncCalls(calls') = SyncCalls(calls) + 0
  BY <1>1, SyncAppend
<1>4. HandlersBounded'
  BY <1>1, <1>2, <1>3, ClientParts, BoundedNext
<1>5. ReturnsStored'
  BY ClientParts DEF ClientOK, ReturnsStored
<1>6. QED BY <1>1, <1>2, <1>4, <1>5 DEF ClientOK

LEMMA ReturnFields ==
  ASSUME NEW c \in ReturnRecord
  PROVE  /\ c.message \in Msg /\ c.has \in SUBSET Block
         /\ c.op # "sync_block" => c.peer \in Peers
         /\ c.op # "has_item" => c.message.items # <<>>
  BY DEF ReturnRecord

(* The fiber that made a call goes on *)
LEMMA CallReturned ==
  ASSUME NodeInv, NEW op, returned(op), UNCHANGED <<known, calls>>
  PROVE  /\ ClientOK'
         /\ Head(returns) \in ReturnRecord /\ Head(returns).op = op
         /\ op # "has_item" => /\ Head(returns).message.items[1] \in known
                               /\ Head(returns).message.items[1] \in Block
<1>1. returns \in Seq(ReturnRecord) /\ returns # <<>> /\ returns' = Tail(returns) /\ Head(returns).op = op
  BY ClientParts DEF ClientOK, returned
<1>2. Head(returns) \in ReturnRecord /\ Tail(returns) \in Seq(ReturnRecord) /\ Head(returns) = returns[1]
      /\ Len(Tail(returns)) = Len(returns) - 1 /\ Len(returns) \in Nat /\ 1 \in 1..Len(returns)
      /\ \A i \in 1..Len(Tail(returns)) : Tail(returns)[i] = returns[i + 1]
  <2>1. 1 \in 1..Len(returns) /\ Len(returns) \in Nat /\ Head(returns) = returns[1]
    BY <1>1
  <2>2. QED BY <1>1, <2>1, HeadTailProperties
<1>3. calls' \in Seq(CallRecord) /\ calls' = calls
  BY ClientParts DEF ClientOK
<1>4. SyncCalls(returns') \in Nat /\ SyncCalls(returns') <= SyncCalls(returns)
  <2>1. SyncCalls(Tail(returns)) \in Nat
    BY <1>2, SyncFinite
  <2>2. SyncCalls(returns) = SyncCalls(Tail(returns)) + (IF Head(returns).op = "sync_block" THEN 1 ELSE 0)
    BY <1>1, SyncTail
  <2>3. QED BY <1>1, <2>1, <2>2
<1>5. HandlersBounded'
  <2>1. SyncCalls(calls') + SyncCalls(returns') <= MaxHandle
    <3>1. MaxHandle \in Nat
      BY NodeSyncAssumption
    <3>2. QED BY <1>3, <1>4, <3>1, ClientParts
  <2>2. QED BY <1>1, <1>2, <1>3, <2>1, BoundedNext
<1>6. ReturnsStored'
  <2>1. ASSUME NEW i \in 1..Len(returns'), returns'[i].op # "has_item"
        PROVE  returns'[i].message.items[1] \in known'
    <3>1. i + 1 \in 1..Len(returns) /\ returns'[i] = returns[i + 1]
      BY <1>1, <1>2
    <3>2. QED BY <2>1, <3>1, ClientParts DEF ClientOK, ReturnsStored
  <2>2. QED BY <2>1 DEF ReturnsStored
<1>7. op # "has_item" => Head(returns).message.items[1] \in known
  BY <1>1, <1>2, ClientParts DEF ClientOK, ReturnsStored
<1>8. QED BY <1>1, <1>2, <1>3, <1>5, <1>6, <1>7, ClientParts DEF ClientOK

LEMMA CallTyped ==
  ASSUME NEW op \in {"has_item", "block"}, NEW p \in Peers, NEW message \in Msg, NEW first \in BOOLEAN,
         op = "has_item" \/ message.items # <<>>
  PROVE  Call(op, p, message, first) \in CallRecord /\ Call(op, p, message, first).op = op
  BY DEF Call, CallRecord

LEMMA OnIdsInventory ==
  ASSUME NodeInv, NEW p \in Peers, on_blockchain_item_ids_inventory_message(p)
  PROVE  NodeInv'
<1> DEFINE first == is_first_item_for_other_peer(p, Head(inbox[p]).items)
           c == Call("has_item", p, Head(inbox[p]), first)
           e == [peer[p] EXCEPT !.item_ids_requested = FALSE]
<1>1. inbox' \in [Peers -> Seq(Delivery)] /\ Head(inbox[p]) \in Msg
  BY Received DEF on_blockchain_item_ids_inventory_message
<1>2. first \in BOOLEAN
  BY DEF is_first_item_for_other_peer
<1> HIDE DEF first
<1>3. c \in CallRecord /\ c.op = "has_item"
  BY <1>1, <1>2, CallTyped
<1>4. calls' = Append(calls, c) \/ calls' = calls
  BY DEF on_blockchain_item_ids_inventory_message, first
<1> HIDE DEF c
<1>5. /\ UNCHANGED <<conn, height, out, known, returns, recent, active_sync_requests,
                     new_received_sync_items, received_sync_items, items_to_fetch, new_inventory>>
  BY DEF on_blockchain_item_ids_inventory_message, links, download, inventory
<1>6. ClientOK'
  <2>1. CASE calls' = Append(calls, c)
    BY <1>3, <1>5, <2>1, CallMade
  <2>2. CASE calls' = calls
    <3>1. UNCHANGED client
      BY <1>5, <2>2 DEF client
    <3>2. QED BY <3>1, ClientSame DEF ClientOK
  <2>3. QED BY <1>4, <2>1, <2>2
<1>7. peer[p] \in PeerConnection
  BY NodeParts
<1>8. peer' = [peer EXCEPT ![p] = e]
  BY NodeParts DEF on_blockchain_item_ids_inventory_message, NoMore
<1>9. Keeps(peer[p], e)
  <2>1. FALSE \in BOOLEAN
    OBVIOUS
  <2>2. QED BY <1>7, <2>1, SetIdsRequested
<1> HIDE DEF e
<1>10. NoMore(peer')
  BY <1>8, <1>9, NodeParts, NoMoreSet
<1>11. QED BY <1>1, <1>5, <1>6, <1>10, NodeParts, ClientParts, ClientStep

LEMMA Accepted ==
  ASSUME NodeInv, NEW np, NoMore(np), NEW p, NEW b \in Block, block_accepted(np, p, b)
  PROVE  /\ NoMore(peer') /\ recent' = recent \union {b}
         /\ new_inventory' \in SUBSET Block /\ UNCHANGED items_to_fetch
<1>1. ASSUME NEW q \in Peers PROVE Keeps(np[q], peer'[q])
  <2>1. np[q] \in PeerConnection /\ b \in 0..MaxBlock
    BY BlockFacts DEF NoMore
  <2>2. peer'[q] = [np[q] EXCEPT !.last_block_seen = b] \/ peer'[q] = np[q]
    BY DEF block_accepted
  <2>3. Keeps(np[q], [np[q] EXCEPT !.last_block_seen = b])
    BY <2>1, SetSeen
  <2>4. Keeps(np[q], np[q])
    BY <2>1 DEF Keeps
  <2>5. QED BY <2>2, <2>3, <2>4
<1>2. peer' = [q \in Peers |-> peer'[q]]
  BY DEF block_accepted
<1>3. NoMore(peer')
  BY <1>1, <1>2 DEF NoMore, Keeps
<1>4. QED BY <1>3, NodeParts DEF block_accepted

LEMMA BlockDuringNormal ==
  ASSUME NodeInv, NEW p \in Peers, process_block_during_normal_operation(p)
  PROVE  NodeInv'
<1> DEFINE b == Head(inbox[p]).items[1]
           S == peer[p].items_requested \ {b}
           e == [peer[p] EXCEPT !.items_requested = S]
           np == [peer EXCEPT ![p] = e]
           c == Call("block", p, Head(inbox[p]), FALSE)
<1>1. inbox' \in [Peers -> Seq(Delivery)] /\ b \in Block /\ Head(inbox[p]) \in Msg /\ Head(inbox[p]).items # <<>>
  BY Received DEF process_block_during_normal_operation
<1>2. peer[p] \in PeerConnection
  BY NodeParts
<1>3. S \in SUBSET Block
  BY <1>2, FieldsTyped
<1>4. UNCHANGED <<conn, height, out, known, returns, active_sync_requests, new_received_sync_items,
                  received_sync_items>>
  BY DEF process_block_during_normal_operation, links, download
<1>5. \/ b \in recent /\ block_accepted(np, p, b) /\ calls' = calls
      \/ peer' = np /\ calls' = Append(calls, c) /\ UNCHANGED <<recent, inventory>>
  BY DEF process_block_during_normal_operation
<1>6. c \in CallRecord /\ c.op = "block"
  <2>1. FALSE \in BOOLEAN
    OBVIOUS
  <2>2. QED BY <1>1, <2>1, CallTyped
<1> HIDE DEF b, S, c
<1>7. Keeps(peer[p], e)
  BY <1>2, <1>3, SetItemsRequested
<1> HIDE DEF e
<1>8. NoMore(np)
  BY <1>7, NodeParts, NoMoreSet
<1> HIDE DEF np
<1>9. CASE b \in recent /\ block_accepted(np, p, b) /\ calls' = calls
  <2>1. NoMore(peer') /\ recent' = recent \union {b} /\ new_inventory' \in SUBSET Block /\ UNCHANGED items_to_fetch
    BY <1>1, <1>8, <1>9, Accepted
  <2>2. ClientOK'
    <3>1. UNCHANGED client
      BY <1>4, <1>9 DEF client
    <3>2. QED BY <3>1, ClientSame DEF ClientOK
  <2>3. recent' \in SUBSET known' /\ known' \in SUBSET Block
    BY <1>4, <1>9, <2>1, ClientParts
  <2>4. QED BY <1>1, <1>4, <2>1, <2>2, <2>3, NodeParts, ClientParts, ClientStep
<1>10. CASE peer' = np /\ calls' = Append(calls, c) /\ UNCHANGED <<recent, inventory>>
  <2>1. ClientOK'
    BY <1>4, <1>6, <1>10, CallMade
  <2>2. UNCHANGED <<items_to_fetch, new_inventory, recent>>
    BY <1>10 DEF inventory
  <2>3. QED BY <1>1, <1>4, <1>8, <1>10, <2>1, <2>2, NodeParts, ClientParts, ClientStep
<1>11. QED BY <1>5, <1>9, <1>10

LEMMA BlockHandled ==
  ASSUME NodeInv, block_handled
  PROVE  NodeInv'
<1> DEFINE b == Head(returns).message.items[1]
<1>1. UNCHANGED <<conn, height, out, inbox, known, calls, active_sync_requests, new_received_sync_items,
                  received_sync_items>>
  BY DEF block_handled, links, download
<1>2. returned("block") /\ block_accepted(peer, Head(returns).peer, b)
  BY DEF block_handled
<1>3. ClientOK' /\ b \in known /\ b \in Block
  BY <1>1, <1>2, CallReturned
<1> HIDE DEF b
<1>4. NoMore(peer') /\ recent' = recent \union {b} /\ new_inventory' \in SUBSET Block /\ UNCHANGED items_to_fetch
  BY <1>2, <1>3, NodeParts, Accepted
<1>5. recent' \in SUBSET known' /\ known' \in SUBSET Block
  BY <1>1, <1>3, <1>4, ClientParts
<1>6. QED BY <1>1, <1>3, <1>4, <1>5, NodeParts, ClientParts, ClientStep

LEMMA ListChecked ==
  ASSUME NodeInv, list_checked
  PROVE  NodeInv'
<1> DEFINE c == Head(returns)
           p == c.peer
           r == peer[p]
           done == up_to_date(r, c.message, c.has)
           ids == extended_ids(r, c.message.items, c.has, is_first(c))
           seen == last_seen_of_list(r, c.message.items, c.has, is_first(c))
           d == [r EXCEPT !.we_need_sync_items_from_peer = FALSE]
           l == [r EXCEPT !.ids_of_items_to_get = ids, !.last_block_seen = seen,
                          !.number_of_unfetched_item_ids = c.message.remaining]
           e == IF done THEN d ELSE l
           np == [peer EXCEPT ![p] = e]
           ps == IF ~done /\ more_ids(np[p]) THEN {p} ELSE {}
<1>1. UNCHANGED <<conn, height, inbox, known, calls, recent, active_sync_requests,
                  new_received_sync_items, received_sync_items, items_to_fetch, new_inventory>>
  BY DEF list_checked, links, inventory
<1>2. returned("has_item") /\ peer' = asked(np, ps) /\ out' = ask(np, ps)
  BY DEF list_checked
<1>3. ClientOK' /\ c \in ReturnRecord /\ c.op = "has_item"
  BY <1>1, <1>2, CallReturned
<1>4. c.message \in Msg /\ p \in Peers
  BY <1>3, ReturnFields
<1>5. c.message.items \in Seq(Block) /\ c.message.remaining \in Nat
  BY <1>4, MsgFields
<1>6. r \in PeerConnection
  BY <1>4, NodeParts
<1> HIDE DEF c, p, ps, done
<1>7. ids \in Seq(Block) /\ seen \in 0..MaxBlock
  <2> HIDE DEF r
  <2>1. QED BY <1>5, <1>6, ExtendedTyped, LastSeenTyped
<1> HIDE DEF ids, seen
<1>8. Keeps(r, d) /\ Keeps(r, l)
  <2> HIDE DEF r
  <2>1. FALSE \in BOOLEAN
    OBVIOUS
  <2>2. QED BY <1>5, <1>6, <1>7, <2>1, SetWeNeed, SetList
<1> HIDE DEF d, l
<1>9. Keeps(peer[p], e)
  BY <1>8
<1> HIDE DEF e
<1>10. NoMore(np)
  BY <1>4, <1>9, NodeParts, NoMoreSet
<1> HIDE DEF np
<1>11. NoMore(peer')
  BY <1>2, <1>10, AskedNoMore
<1>12. out' \in [Peers -> Seq(Msg)]
  <2>1. np \in [Peers -> PeerConnection]
    BY <1>10 DEF NoMore
  <2>2. QED BY <1>2, <2>1, NodeParts, AskTyped
<1>13. QED BY <1>1, <1>3, <1>11, <1>12, NodeParts, ClientParts, ClientStep

LEMMA ProcessedNoMore ==
  ASSUME NodeInv, NEW b \in Block
  PROVE  NoMore([p \in Peers |-> IF p \in to_sync_to THEN start_synchronizing_with_peer(peer[p])
                                 ELSE processed(peer, b)[p]])
<1> DEFINE np == [p \in Peers |-> IF p \in to_sync_to THEN start_synchronizing_with_peer(peer[p])
                                  ELSE processed(peer, b)[p]]
<1>1. ASSUME NEW p \in Peers PROVE Keeps(peer[p], np[p])
  <2>1. peer[p] \in PeerConnection
    BY NodeParts
  <2> DEFINE S == peer[p].ids_of_items_being_processed \ {b}
             e == [peer[p] EXCEPT !.last_block_seen = b, !.ids_of_items_being_processed = S]
  <2>2. S \in SUBSET Block /\ b \in 0..MaxBlock
    BY <2>1, FieldsTyped, BlockFacts
  <2>3. processed(peer, b)[p] = e \/ processed(peer, b)[p] = peer[p]
    BY DEF processed
  <2> HIDE DEF S
  <2>4. Keeps(peer[p], e)
    BY <2>1, <2>2, SetProcessed
  <2> HIDE DEF e
  <2>5. Keeps(peer[p], peer[p])
    BY <2>1 DEF Keeps
  <2>6. Keeps(peer[p], start_synchronizing_with_peer(peer[p]))
    BY <2>1, StartSynchronizing
  <2>7. np[p] = start_synchronizing_with_peer(peer[p]) \/ np[p] = processed(peer, b)[p]
    OBVIOUS
  <2> HIDE DEF np
  <2>8. QED BY <2>3, <2>4, <2>5, <2>6, <2>7
<1>2. np = [p \in Peers |-> np[p]]
  OBVIOUS
<1> HIDE DEF np
<1>3. NoMore(np)
  BY <1>1, <1>2 DEF NoMore, Keeps
<1>4. QED BY <1>3 DEF np

LEMMA SyncBlockHandled ==
  ASSUME NodeInv, sync_block_handled
  PROVE  NodeInv'
<1> DEFINE b == Head(returns).message.items[1]
           np == [p \in Peers |-> IF p \in to_sync_to THEN start_synchronizing_with_peer(peer[p])
                                  ELSE processed(peer, b)[p]]
           ps == newly_empty(b) \union to_sync_to
<1>1. UNCHANGED <<height, inbox, known, calls, active_sync_requests, new_received_sync_items,
                  received_sync_items, items_to_fetch, new_inventory>>
  BY DEF sync_block_handled, inventory
<1>2. \/ recent' = recent \union {b} /\ peer' = asked(np, ps) /\ out' = ask(np, ps) /\ UNCHANGED conn
      \/ /\ UNCHANGED <<peer, out, recent>>
         /\ conn' = disconnected_from({p \in Active : b \in peer[p].ids_of_items_being_processed})
  BY DEF sync_block_handled
<1>3. returned("sync_block")
  BY DEF sync_block_handled
<1>4. ClientOK' /\ b \in known /\ b \in Block
  BY <1>1, <1>3, CallReturned
<1> HIDE DEF b, ps
<1>5. NoMore(np)
  BY <1>4, ProcessedNoMore
<1> HIDE DEF np
<1>6. CASE recent' = recent \union {b} /\ peer' = asked(np, ps) /\ out' = ask(np, ps) /\ UNCHANGED conn
  <2>1. NoMore(peer')
    BY <1>5, <1>6, AskedNoMore
  <2>2. out' \in [Peers -> Seq(Msg)]
    <3>1. np \in [Peers -> PeerConnection]
      BY <1>5 DEF NoMore
    <3>2. QED BY <1>6, <3>1, NodeParts, AskTyped
  <2>3. recent' \in SUBSET known' /\ known' \in SUBSET Block
    BY <1>1, <1>4, <1>6, ClientParts
  <2>4. QED BY <1>1, <1>4, <1>6, <2>1, <2>2, <2>3, NodeParts, ClientParts, ClientStep
<1>7. CASE /\ UNCHANGED <<peer, out, recent>>
           /\ conn' = disconnected_from({p \in Active : b \in peer[p].ids_of_items_being_processed})
  <2>1. conn' \in [Peers -> {"disconnected", "active", "closing", "terminating"}]
    BY <1>7, Disconnected
  <2>2. NoMore(peer')
    BY <1>7, NodeParts
  <2>3. RequestedOnce'
    BY <1>1, <2>2, OnceKept
  <2>4. NodeTypes'
    BY <1>1, <1>4, <1>7, <2>1 DEF NodeInv, NodeTypes, ClientOK
  <2>5. QED BY <1>4, <2>3, <2>4 DEF NodeInv, ClientOK
<1>8. QED BY <1>2, <1>6, <1>7

(* The client stores the block of a call before the call returns *)
LEMMA RunCall ==
  ASSUME NodeInv, run_call
  PROVE  NodeInv'
<1> DEFINE c == Head(calls)
           b == c.message.items[1]
<1>1. calls \in Seq(CallRecord) /\ returns \in Seq(ReturnRecord) /\ calls # <<>> /\ calls' = Tail(calls)
  BY ClientParts DEF ClientOK, run_call
<1>2. c \in CallRecord /\ Tail(calls) \in Seq(CallRecord)
  BY <1>1, HeadTailProperties
<1>3. /\ c.op \in {"has_item", "block", "sync_block"} /\ c.peer \in Peers \union {NoPeer}
      /\ c.message \in Msg /\ c.first \in BOOLEAN
      /\ c.op = "sync_block" \/ c.peer \in Peers
      /\ c.op = "has_item" \/ c.message.items # <<>>
  BY <1>2 DEF CallRecord
<1>4. c.op # "has_item" => b \in Block
  <2>1. c.message.items \in Seq(Block)
    BY <1>3, MsgFields
  <2>2. QED BY <1>3, <2>1, SeqParts
<1>5. PICK has \in SUBSET Block :
        /\ returns' = Append(returns, [op |-> c.op, peer |-> c.peer, message |-> c.message,
                                       first |-> c.first, has |-> has])
        /\ IF c.op = "has_item" THEN known' = known ELSE known' = known \union {b}
  <2>1. CASE c.op = "has_item"
    <3>1. known \in SUBSET Block
      BY ClientParts
    <3>2. QED BY <2>1, <3>1 DEF run_call
  <2>2. CASE c.op # "has_item"
    <3>1. (IF taken(c) THEN {b} ELSE {}) \in SUBSET Block
      BY <1>4, <2>2
    <3>2. QED BY <2>2, <3>1 DEF run_call
  <2>3. QED BY <2>1, <2>2
<1>6. UNCHANGED <<conn, height, peer, out, inbox, recent, active_sync_requests, new_received_sync_items,
                  received_sync_items, items_to_fetch, new_inventory>>
  BY DEF run_call, links, download, inventory
<1> DEFINE d == [op |-> c.op, peer |-> c.peer, message |-> c.message, first |-> c.first, has |-> has]
<1> HIDE DEF c
<1>7. d \in ReturnRecord /\ d.op = c.op /\ d.message = c.message
  BY <1>3 DEF ReturnRecord
<1> HIDE DEF d
<1>8. returns' \in Seq(ReturnRecord) /\ calls' \in Seq(CallRecord) /\ returns' = Append(returns, d)
  BY <1>1, <1>2, <1>5, <1>7 DEF d
<1>9. known' \in SUBSET Block /\ known \subseteq known'
  BY <1>4, <1>5, ClientParts
<1>10. HandlersBounded'
  <2> DEFINE k == IF c.op = "sync_block" THEN 1 ELSE 0
  <2>1. SyncCalls(returns') = SyncCalls(returns) + k
    BY <1>1, <1>7, <1>8, SyncAppend
  <2>2. SyncCalls(calls) = SyncCalls(calls') + k
    BY <1>1, SyncTail DEF c
  <2>3. SyncCalls(calls') \in Nat
    BY <1>8, SyncFinite
  <2>4. k \in Nat
    OBVIOUS
  <2> HIDE DEF k
  <2>5. SyncCalls(calls') + SyncCalls(returns') <= MaxHandle
    BY <2>1, <2>2, <2>3, <2>4, ClientParts
  <2>6. QED BY <1>8, <2>5, BoundedNext
<1>11. ReturnsStored'
  <2>1. ASSUME NEW i \in 1..Len(returns'), returns'[i].op # "has_item"
        PROVE  returns'[i].message.items[1] \in known'
    <3>1. /\ Len(returns') = Len(returns) + 1 /\ Len(returns) \in Nat
          /\ \A j \in 1..Len(returns) : returns'[j] = returns[j]
          /\ returns'[Len(returns) + 1] = d
      BY <1>1, <1>7, <1>8, AppendProperties
    <3>2. CASE i \in 1..Len(returns)
      BY <1>9, <2>1, <3>1, <3>2, ClientParts DEF ClientOK, ReturnsStored
    <3>3. CASE i = Len(returns) + 1
      <4>1. returns'[i] = d
        BY <3>1, <3>3
      <4>2. c.op # "has_item"
        BY <1>7, <2>1, <4>1
      <4>3. b \in known'
        BY <1>5, <4>2
      <4>4. QED BY <1>7, <4>1, <4>3
    <3>4. i \in 1..Len(returns) \/ i = Len(returns) + 1
      BY <3>1
    <3>5. QED BY <3>2, <3>3, <3>4
  <2>2. QED BY <2>1 DEF ReturnsStored
<1>12. ClientOK' /\ recent' \in SUBSET known'
  BY <1>6, <1>8, <1>9, <1>10, <1>11, ClientParts DEF ClientOK
<1>13. QED BY <1>6, <1>9, <1>12, NodeParts, ClientParts, ClientStep

LEMMA ProcessBacklog ==
  ASSUME NodeInv, process_backlog_of_sync_blocks
  PROVE  NodeInv'
<1>1. UNCHANGED <<conn, height, out, inbox, known, returns, recent, active_sync_requests,
                  items_to_fetch, new_inventory>>
  BY DEF process_backlog_of_sync_blocks, links, inventory
<1>2. CASE all_handlers_busy
  <2>1. UNCHANGED <<peer, calls, new_received_sync_items, received_sync_items>>
    BY <1>2 DEF process_backlog_of_sync_blocks
  <2>2. UNCHANGED client
    BY <1>1, <2>1 DEF client
  <2>3. QED BY <1>1, <2>1, <2>2, NodeParts, QuietStep
<1>3. CASE ~all_handlers_busy
  <2> DEFINE end == FoldLeft(LAMBDA st, i : backlog_round(st), RoundStart(0), [i \in 1..MaxHandle |-> i])
             new == [i \in DOMAIN end.started |->
                       Call("sync_block", NoPeer, Message("block", <<end.started[i]>>, 0), FALSE)]
  <2>1. /\ new_received_sync_items' = <<>> /\ received_sync_items' = end.received
        /\ peer' = end.peer /\ calls' = calls \o new
    BY <1>3 DEF process_backlog_of_sync_blocks, RoundStart
  <2>2. RoundHolds(0, end)
    BY <1>3, NodeParts, BacklogEnd
  <2> HIDE DEF end
  <2>3. /\ end.received \in Seq(Block) /\ end.started \in Seq(Block) /\ NoMore(end.peer)
        /\ in_progress + Len(end.started) <= MaxHandle
    BY <2>2 DEF RoundHolds
  <2>4. ASSUME NEW i \in 1..Len(end.started)
        PROVE  /\ Call("sync_block", NoPeer, Message("block", <<end.started[i]>>, 0), FALSE) \in CallRecord
               /\ Call("sync_block", NoPeer, Message("block", <<end.started[i]>>, 0), FALSE).op = "sync_block"
    <3> DEFINE s == <<end.started[i]>>
               x == Message("block", s, 0)
    <3>1. end.started[i] \in Block
      BY <2>3, ElementOfSeq
    <3>2. s \in Seq(Block) /\ s # <<>> /\ 0 \in Nat
      BY <3>1
    <3> HIDE DEF s
    <3>3. x \in Msg /\ x.items # <<>>
      BY <3>2, MsgRecord
    <3> HIDE DEF x
    <3>4. Call("sync_block", NoPeer, x, FALSE) \in CallRecord /\ Call("sync_block", NoPeer, x, FALSE).op = "sync_block"
      BY <3>3 DEF Call, CallRecord
    <3>5. QED BY <3>4 DEF x, s
  <2>5. /\ Len(end.started) \in Nat /\ DOMAIN end.started = 1..Len(end.started)
        /\ new \in [1..Len(end.started) -> CallRecord]
        /\ \A i \in 1..Len(end.started) : new[i].op = "sync_block"
    <3>1. Len(end.started) \in Nat /\ DOMAIN end.started = 1..Len(end.started)
      BY <2>3
    <3>2. new = [i \in 1..Len(end.started) |->
                   Call("sync_block", NoPeer, Message("block", <<end.started[i]>>, 0), FALSE)]
      BY <3>1
    <3>3. QED BY <2>4, <3>1, <3>2
  <2> HIDE DEF new
  <2>6. new \in Seq(CallRecord) /\ Len(new) = Len(end.started)
    BY <2>5
  <2>7. SyncCalls(new) = Len(end.started)
    <3>1. Sync(new) = 1..Len(end.started)
      BY <2>5, <2>6 DEF Sync
    <3>2. Cardinality(1..Len(end.started)) = Len(end.started)
      BY <2>5, FS_Interval
    <3>3. QED BY <3>1, <3>2 DEF SyncCalls
  <2>8. calls \in Seq(CallRecord) /\ returns' \in Seq(ReturnRecord) /\ returns' = returns
    BY <1>1, ClientParts DEF ClientOK
  <2>9. calls' \in Seq(CallRecord) /\ SyncCalls(calls') = SyncCalls(calls) + SyncCalls(new)
    BY <2>1, <2>6, <2>8, SyncConcat
  <2>10. in_progress = SyncCalls(calls) + SyncCalls(returns)
    BY <2>8, InProgress DEF in_progress, Busy
  <2>11. SyncCalls(calls') + SyncCalls(returns') <= MaxHandle
    <3>1. SyncCalls(calls) \in Nat /\ SyncCalls(returns) \in Nat /\ MaxHandle \in Nat
      BY ClientParts, NodeSyncAssumption
    <3>2. QED BY <2>3, <2>5, <2>7, <2>8, <2>9, <2>10, <3>1
  <2>12. HandlersBounded'
    BY <2>8, <2>9, <2>11, BoundedNext
  <2>13. ReturnsStored'
    BY <1>1, ClientParts DEF ClientOK, ReturnsStored
  <2>14. ClientOK'
    BY <2>8, <2>9, <2>12, <2>13 DEF ClientOK
  <2>15. <<>> \in Seq(Block)
    OBVIOUS
  <2>16. QED BY <1>1, <2>1, <2>3, <2>14, <2>15, NodeParts, ClientParts, ClientStep
<1>4. QED BY <1>2, <1>3

-----------------------------------------------------------------------------
LEMMA StepKeepsNode == NodeInv /\ [Next]_vars => NodeInv'
<1>1. SUFFICES ASSUME NodeInv, [Next]_vars PROVE NodeInv'
  OBVIOUS
<1>2. ASSUME NEW p \in Peers,
             \/ new_peer_just_added(p) \/ peer_lists_ids(p) \/ peer_sends_items(p) \/ peer_grows(p)
             \/ peer_asks(p) \/ request_ignored(p) \/ inactive(p) \/ on_connection_closed(p)
      PROVE  NodeInv'
  BY <1>1, <1>2, NewPeer, PeerListsIds, PeerSendsItems, PeerGrows, PeerAsks, Silent, ConnectionClosed
<1>3. ASSUME NEW p \in Peers, on_message(p) PROVE NodeInv'
  BY <1>1, <1>3, OnFetchIds, OnIdsInventory, BlockDuringNormal, BlockDuringSync, OnInventory,
     ItemNotAvailable, SyncItemNotAvailable DEF on_message
<1>4. CASE run_call
  BY <1>1, <1>4, RunCall
<1>5. CASE resume
  BY <1>1, <1>5, ListChecked, BlockHandled, SyncBlockHandled DEF resume
<1>6. CASE process_backlog_of_sync_blocks
  BY <1>1, <1>6, ProcessBacklog
<1>7. CASE fetch_sync_items_loop \/ fetch_items_loop \/ advertise_inventory_loop
  BY <1>1, <1>7, FetchSyncItems, FetchItems, AdvertiseInventory
<1>8. CASE UNCHANGED vars
  <2>1. /\ UNCHANGED client
        /\ UNCHANGED <<conn, height, peer, inbox, out, recent, active_sync_requests, new_received_sync_items,
                       received_sync_items, items_to_fetch, new_inventory>>
    BY <1>8 DEF vars, links, download, inventory
  <2>2. QED BY <1>1, <2>1, NodeParts, QuietStep
<1>9. QED BY <1>1, <1>2, <1>3, <1>4, <1>5, <1>6, <1>7, <1>8 DEF Next

(* The state of the node keeps the inductive invariant. *)
THEOREM NodeInvariant == Spec => []NodeInv
<1>1. Init => NodeInv
  BY InitNode
<1>2. NodeInv /\ [Next]_vars => NodeInv'
  BY StepKeepsNode
<1> QED BY <1>1, <1>2, PTL DEF Spec

(***************************************************************************)
(* A block is never requested from two connections at once, and what is    *)
(* requested is counted in _active_sync_requests: fetch_sync_items_loop    *)
(* skips what is counted or planned for another peer, and what arrives or  *)
(* is lost with its connection leaves both sets together.                  *)
(***************************************************************************)
THEOREM EachRequestedOnce == Spec => []RequestedOnce
<1>1. NodeInv => RequestedOnce
  BY DEF NodeInv
<1> QED BY <1>1, NodeInvariant, PTL

(***************************************************************************)
(* The state keeps its types.  Among them: a block counted as recently     *)
(* accepted is stored, and process_backlog_of_sync_blocks never hands the  *)
(* client more blocks than _maximum_number_of_blocks_to_handle_at_one_time.*)
(***************************************************************************)
THEOREM NodeTyped == Spec => []TypeOK
<1>1. NodeInv => TypeOK
  BY DEF NodeInv, NodeTypes, HandlersBounded, TypeOK
<1> QED BY <1>1, NodeInvariant, PTL

=============================================================================
