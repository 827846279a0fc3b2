------------------------------ MODULE NodeSync ------------------------------
(***************************************************************************)
(* How a node downloads the chain from its peers: NodeImpl of net/Node.cpp *)
(* (synchronisation, the fetching of advertised blocks, the backlog of     *)
(* received blocks, timeouts and closed connections), PeerConnection.cpp,  *)
(* and the calls the node makes to its client (client/Client.cpp).         *)
(*                                                                         *)
(* The node's fibers run on one thread and the client on another.  A call  *)
(* waits in calls until the client has run it, then in returns until the   *)
(* fiber that made it goes on; both are served in order.  While a handler  *)
(* waits, the node handles messages of the other peers.  The calls that    *)
(* only read the client's chain to write a message (get_item_ids,          *)
(* get_blockchain_synopsis) are part of the step that sends it.            *)
(*                                                                         *)
(* Every peer has a prefix of one chain of valid blocks 1, 2, 3...  A peer *)
(* answers late or never, in the order of the requests of a connection; a  *)
(* connection may break at any moment and be opened again.                 *)
(***************************************************************************)
EXTENDS Integers, Sequences, FiniteSets, FiniteSetsExt, SequencesExt

CONSTANTS
  Peers,
  Starts,        \* the heights of the node's and the peers' chains, and the
                 \* unasked events already spent, at the start
  Corrupt,       \* peers that may lack a block they listed
  IdsLimit,      \* limit of get_item_ids
  MinPrefetch,   \* ALP_NET_MIN_BLOCK_IDS_TO_PREFETCH
  MaxPerPeer,    \* _maximum_blocks_per_peer_during_syncing
  MaxHandle,     \* _maximum_number_of_blocks_to_handle_at_one_time
  MaxPrefetch,   \* _maximum_number_of_sync_blocks_to_prefetch
  MaxItems,      \* ALP_NET_MAX_ITEMS_PER_PEER_DURING_NORMAL_OPERATION
  NoPeer,        \* no peer
  MaxBlock,      \* bound: the highest block
  MaxConnects,   \* bound: connections made with each peer
  MaxEvents      \* bound: times that peers grow, ask for ids or close unasked

ASSUME NodeSyncAssumption ==
  /\ IdsLimit \in Nat \ {0, 1} /\ MinPrefetch \in Nat \ {0} /\ MaxPerPeer \in Nat \ {0}
  /\ MaxHandle \in Nat \ {0} /\ MaxPrefetch \in Nat \ {0} /\ MaxItems \in Nat \ {0}
  /\ IsFiniteSet(Peers) /\ MaxBlock \in Nat
  /\ Starts \subseteq [head : 0..MaxBlock, height : [Peers -> 0..MaxBlock], events : Nat]
  /\ Corrupt \subseteq Peers /\ NoPeer \notin Peers

VARIABLES
  conn,       \* the list that holds the connection: active, closing, terminating
  connects,   \* connections made with each peer
  peer,       \* the PeerConnection of each peer
  out,        \* messages from the node to each peer
  inbox,      \* messages from each peer to the node
  height,     \* height of each peer's chain
  events,     \* times that peers did something unasked
  needs,      \* peer_needs_sync_items_from_us as each peer sees this node
  known,      \* blocks the client has stored
  recent,     \* _most_recent_blocks_accepted
  active_sync_requests, new_received_sync_items, received_sync_items,
  calls,      \* calls the client has still to run
  returns,    \* calls it has run, whose fibers have still to go on
  backlog,    \* process_backlog_of_sync_blocks is scheduled
  suspended,  \* _suspend_fetching_sync_blocks
  sync_items_to_fetch_updated, items_to_fetch, items_to_fetch_updated, new_inventory

links == <<conn, connects, height, events, needs>>
client == <<known, calls, returns>>
download == <<active_sync_requests, new_received_sync_items, received_sync_items,
              backlog, suspended, sync_items_to_fetch_updated>>
inventory == <<items_to_fetch, items_to_fetch_updated, new_inventory>>
vars == <<links, peer, out, inbox, client, recent, download, inventory>>

Block == 1..MaxBlock

-----------------------------------------------------------------------------
(* Connections                                                             *)

PeerConnection ==
  [we_need_sync_items_from_peer : BOOLEAN, peer_needs_sync_items_from_us : BOOLEAN,
   ids_of_items_to_get : Seq(Block), ids_of_items_being_processed : SUBSET Block,
   number_of_unfetched_item_ids : Nat, item_ids_requested : BOOLEAN,
   sync_items_requested : SUBSET Block, items_requested : SUBSET Block,
   inventory_advertised_to_us : SUBSET Block, inventory_advertised_to_peer : SUBSET Block,
   inhibit_fetching_sync_blocks : BOOLEAN, last_block_seen : 0..MaxBlock]

NewConnection ==
  [we_need_sync_items_from_peer |-> TRUE, peer_needs_sync_items_from_us |-> TRUE,
   ids_of_items_to_get |-> <<>>, ids_of_items_being_processed |-> {},
   number_of_unfetched_item_ids |-> 0, item_ids_requested |-> FALSE,
   sync_items_requested |-> {}, items_requested |-> {},
   inventory_advertised_to_us |-> {}, inventory_advertised_to_peer |-> {},
   inhibit_fetching_sync_blocks |-> FALSE, last_block_seen |-> 0]

idle(r) == r.items_requested = {} /\ r.sync_items_requested = {} /\ ~r.item_ids_requested

Active == {p \in Peers : conn[p] = "active"}

Message(type, items, remaining) == [type |-> type, items |-> items, remaining |-> remaining]

(* The highest block of the main chain when the client has stored blocks bs *)
head_num(bs) == Max({n \in 0..MaxBlock : 1..n \subseteq bs})

(* get_blockchain_synopsis: block numbers from 1 to high, ever closer; a   *)
(* loop of at most high rounds, since low_block_num grows in each.         *)
halvings(high) ==
  LET low(s) == IF s = <<>> THEN 1 ELSE Last(s) + (high - Last(s) + 2) \div 2
  IN FoldLeft(LAMBDA s, i : IF low(s) > high THEN s ELSE Append(s, low(s)),
              <<>>, [i \in 1..high |-> i])

(* Of the ids the peer still has to deliver only the last decides: it is   *)
(* on the peer's chain.                                                    *)
create_blockchain_synopsis_for_peer(r) ==
  IF r.ids_of_items_to_get # <<>> THEN <<Last(r.ids_of_items_to_get)>>
  ELSE halvings(IF r.last_block_seen = 0 THEN head_num(known) ELSE r.last_block_seen)

(* What the owner of a chain of height h answers to a synopsis *)
get_item_ids(h, synopsis) ==
  LET common == {n \in ToSet(synopsis) : n <= h}
      last_seen == IF common = {} THEN 1 ELSE Max(common)
      count == Min({IdsLimit, h - last_seen + 1})
  IN IF h = 0 THEN Message("ids", <<>>, 0)
     ELSE Message("ids", [i \in 1..count |-> last_seen + i - 1], h - last_seen + 1 - count)

(* Whether the owner of the answer thinks that the other side lacks blocks *)
lacks(reply, synopsis) ==
  ~(\/ reply.items = <<>>
    \/ synopsis # <<>> /\ Len(reply.items) = 1 /\ reply.items[1] \in ToSet(synopsis))

(* fetch_next_batch_of_item_ids_from_peer for the peers in ps *)
asked(peers, ps) ==
  [p \in Peers |-> IF p \in ps THEN [peers[p] EXCEPT !.item_ids_requested = TRUE] ELSE peers[p]]
ask(peers, ps) ==
  [p \in Peers |-> IF p \in ps
     THEN Append(out[p], Message("fetch_ids", create_blockchain_synopsis_for_peer(peers[p]), 0))
     ELSE out[p]]

start_synchronizing_with_peer(r) ==
  [r EXCEPT !.ids_of_items_to_get = <<>>, !.number_of_unfetched_item_ids = 0,
            !.we_need_sync_items_from_peer = TRUE, !.last_block_seen = 0,
            !.inhibit_fetching_sync_blocks = FALSE]

trigger_fetch_sync_items_loop(condition) ==
  sync_items_to_fetch_updated' = (sync_items_to_fetch_updated \/ condition)
trigger_fetch_items_loop(condition) ==
  items_to_fetch_updated' = (items_to_fetch_updated \/ condition)

new_peer_just_added(p) ==
  /\ conn[p] = "disconnected" /\ connects[p] < MaxConnects
  /\ conn' = [conn EXCEPT ![p] = "active"]
  /\ connects' = [connects EXCEPT ![p] = @ + 1]
  /\ LET started == [peer EXCEPT ![p] = start_synchronizing_with_peer(NewConnection)] IN
     /\ peer' = asked(started, {p})
     /\ out' = ask(started, {p})
  /\ needs' = [needs EXCEPT ![p] = TRUE]
  /\ UNCHANGED <<inbox, height, events, client, recent, download, inventory>>

(* The fiber that reads from p waits for the client *)
waiting(p) == \E i \in DOMAIN (calls \o returns) : (calls \o returns)[i].peer = p

-----------------------------------------------------------------------------
(* The peers                                                               *)

peer_lists_ids(p) ==
  /\ out[p] # <<>> /\ Head(out[p]).type = "fetch_ids"
  /\ LET synopsis == Head(out[p]).items
         reply == get_item_ids(height[p], synopsis)
     IN /\ inbox' = [inbox EXCEPT ![p] = Append(@, reply)]
        /\ needs' = [needs EXCEPT ![p] = lacks(reply, synopsis)]
  /\ out' = [out EXCEPT ![p] = Tail(@)]
  /\ UNCHANGED <<conn, connects, height, events, peer, client, recent, download, inventory>>

(* The cache that serves advertised blocks forgets them; a block listed by *)
(* its own id is missing only from a damaged database.                     *)
peer_sends_items(p) ==
  /\ out[p] # <<>> /\ Head(out[p]).type \in {"fetch_items", "fetch_sync_items"}
  /\ \E missing \in SUBSET ToSet(Head(out[p]).items) :
       /\ Head(out[p]).type = "fetch_items" \/ p \in Corrupt \/ missing = {}
       /\ inbox' = [inbox EXCEPT ![p] = @ \o
            [i \in DOMAIN Head(out[p]).items |->
               LET b == Head(out[p]).items[i] IN
               Message(IF b \in missing THEN "not_available" ELSE "block", <<b>>, 0)]]
  /\ out' = [out EXCEPT ![p] = Tail(@)]
  /\ UNCHANGED <<links, peer, client, recent, download, inventory>>

(* Something a peer does unasked *)
unasked == events < MaxEvents /\ events' = events + 1

(* A peer gets a block and advertises it when it thinks we are in sync *)
peer_grows(p) ==
  /\ height[p] < MaxBlock /\ unasked
  /\ height' = [height EXCEPT ![p] = @ + 1]
  /\ inbox' = IF conn[p] = "active" /\ ~needs[p]
                /\ height[p] + 1 \notin peer[p].inventory_advertised_to_peer
              THEN [inbox EXCEPT ![p] = Append(@, Message("inventory", <<height[p] + 1>>, 0))]
              ELSE inbox
  /\ UNCHANGED <<conn, connects, needs, peer, out, client, recent, download, inventory>>

(* A peer synchronises with us *)
peer_asks(p) ==
  /\ conn[p] = "active" /\ unasked
  /\ inbox' = [inbox EXCEPT ![p] = Append(@, Message("fetch_ids", halvings(height[p]), 0))]
  /\ UNCHANGED <<conn, connects, height, needs, peer, out, client, recent, download, inventory>>

-----------------------------------------------------------------------------
(* Messages                                                                *)

received_message(p, type) ==
  /\ conn[p] \in {"active", "closing"} /\ ~waiting(p)
  /\ inbox[p] # <<>> /\ Head(inbox[p]).type = type
  /\ inbox' = [inbox EXCEPT ![p] = Tail(@)]

Call(op, p, message, first) == [op |-> op, peer |-> p, message |-> message, first |-> first]

(* disconnect_from_peer for the peers in ps *)
disconnected_from(ps) == [p \in Peers |-> IF p \in ps THEN "closing" ELSE conn[p]]

on_fetch_blockchain_item_ids_message(p) ==
  /\ received_message(p, "fetch_ids")
  /\ LET synopsis == Head(inbox[p]).items
         peer_needs == lacks(get_item_ids(head_num(known), synopsis), synopsis)
         restart == ~peer[p].we_need_sync_items_from_peer /\ synopsis # <<>> /\ Last(synopsis) \notin known
         noted == [peer EXCEPT ![p] =
                     IF restart THEN start_synchronizing_with_peer([@ EXCEPT !.peer_needs_sync_items_from_us = peer_needs])
                     ELSE [@ EXCEPT !.peer_needs_sync_items_from_us = peer_needs]]
     IN /\ peer' = asked(noted, IF restart THEN {p} ELSE {})
        /\ out' = ask(noted, IF restart THEN {p} ELSE {})
        /\ conn' = disconnected_from(IF ~peer_needs /\ get_item_ids(head_num(known), synopsis).items # <<>>
                                       /\ peer[p].inhibit_fetching_sync_blocks THEN {p} ELSE {})
  /\ UNCHANGED <<connects, height, events, needs, client, recent, download, inventory>>

is_first_item_for_other_peer(p, items) ==
  items # <<>> /\ \E q \in Active \ {p} :
    peer[q].ids_of_items_to_get # <<>> /\ Head(peer[q].ids_of_items_to_get) = items[1]

(* A list nobody asked for is ignored; for another the client is asked     *)
(* which of the blocks it has.                                             *)
on_blockchain_item_ids_inventory_message(p) ==
  /\ received_message(p, "ids")
  /\ IF peer[p].item_ids_requested
     THEN calls' = Append(calls, Call("has_item", p, Head(inbox[p]),
                                      is_first_item_for_other_peer(p, Head(inbox[p]).items)))
     ELSE UNCHANGED calls
  /\ peer' = [peer EXCEPT ![p].item_ids_requested = FALSE]
  /\ UNCHANGED <<links, out, known, returns, recent, download, inventory>>

(* items without the blocks at its front that the client has *)
flush(items, has) ==
  SubSeq(items, 1 + Max({n \in 0..Len(items) : \A i \in 1..n : items[i] \in has}), Len(items))

(* The list of ids to get, with the list just received *)
extended_ids(r, items, has, first) ==
  LET old == r.ids_of_items_to_get
      kept == SubSeq(old, 1, Max({n \in 0..Len(old) : n = 0 \/ (items # <<>> /\ old[n] = items[1])}))
  IN IF items = <<>> THEN old
     ELSE IF old = <<>> THEN IF first THEN items ELSE flush(items, has)
     ELSE IF kept = <<>> THEN Tail(items)
     ELSE Front(kept) \o items

(* The last block of the peer's list that the client has *)
last_seen_of_list(r, items, has, first) ==
  LET n == Len(items) - Len(flush(items, has))
      old == r.ids_of_items_to_get
  IN IF items = <<>> THEN r.last_block_seen
     ELSE IF old = <<>> THEN IF first \/ n = 0 THEN r.last_block_seen ELSE items[n]
     ELSE IF items[1] \in ToSet(old) THEN r.last_block_seen
     ELSE items[1]

returned(op) == returns # <<>> /\ Head(returns).op = op /\ returns' = Tail(returns)

up_to_date(r, message, has) ==
  /\ message.remaining = 0
  /\ message.items = <<>> \/ (Len(message.items) = 1 /\ message.items[1] \in has)
  /\ r.ids_of_items_to_get = <<>> /\ r.number_of_unfetched_item_ids = 0

(* Whether the node goes on asking for ids rather than for blocks *)
more_ids(r) ==
  IF r.number_of_unfetched_item_ids # 0 THEN Len(r.ids_of_items_to_get) <= MinPrefetch
  ELSE r.ids_of_items_to_get = <<>>

(* The other peers' lists are looked at after the client was asked only    *)
(* when the list may say that we are up to date.                           *)
is_first(c) ==
  IF Len(c.message.items) = 1 /\ c.message.remaining = 0
  THEN is_first_item_for_other_peer(c.peer, c.message.items) ELSE c.first

(* The rest of on_blockchain_item_ids_inventory_message *)
list_checked ==
  /\ returned("has_item")
  /\ LET c == Head(returns)
         p == c.peer
         r == peer[p]
         done == up_to_date(r, c.message, c.has)
         listed == [peer EXCEPT ![p] =
           IF done THEN [r EXCEPT !.we_need_sync_items_from_peer = FALSE]
           ELSE [r EXCEPT
             !.ids_of_items_to_get = extended_ids(r, c.message.items, c.has, is_first(c)),
             !.last_block_seen = last_seen_of_list(r, c.message.items, c.has, is_first(c)),
             !.number_of_unfetched_item_ids = c.message.remaining]]
         more == IF ~done /\ more_ids(listed[p]) THEN {p} ELSE {}
     IN /\ peer' = asked(listed, more)
        /\ out' = ask(listed, more)
        /\ trigger_fetch_sync_items_loop(~done /\ more = {})
  /\ UNCHANGED <<links, inbox, known, calls, recent, active_sync_requests,
                 new_received_sync_items, received_sync_items, backlog, suspended, inventory>>

(* What follows when the client takes a block requested during normal      *)
(* operation, and the node advertises it.                                  *)
block_accepted(peers, p, b) ==
  /\ recent' = recent \union {b}
  /\ peer' = [q \in Peers |-> IF q \in Active /\ b \in peers[q].inventory_advertised_to_us
                              THEN [peers[q] EXCEPT !.last_block_seen = b] ELSE peers[q]]
  /\ new_inventory' = new_inventory \union {b}
  /\ trigger_fetch_items_loop(idle(peers[p]))
  /\ UNCHANGED items_to_fetch

(* process_block_message, for a block requested during normal operation *)
process_block_during_normal_operation(p) ==
  /\ received_message(p, "block")
  /\ LET b == Head(inbox[p]).items[1]
         erased == [peer EXCEPT ![p].items_requested = @ \ {b}]
     IN /\ b \in peer[p].items_requested
        /\ \/ b \in recent /\ block_accepted(erased, p, b) /\ UNCHANGED calls
           \/ /\ b \notin recent
              /\ peer' = erased
              /\ calls' = Append(calls, Call("block", p, Head(inbox[p]), FALSE))
              /\ UNCHANGED <<recent, inventory>>
  /\ UNCHANGED <<links, out, known, returns, download>>

(* The rest of process_block_during_normal_operation *)
block_handled ==
  /\ returned("block")
  /\ block_accepted(peer, Head(returns).peer, Head(returns).message.items[1])
  /\ UNCHANGED <<links, out, inbox, known, calls, download>>

(* process_block_message, for a block requested during synchronisation *)
process_block_during_sync(p) ==
  /\ received_message(p, "block")
  /\ LET b == Head(inbox[p]).items[1]
         erased == [peer EXCEPT ![p].sync_items_requested = @ \ {b}]
         r == erased[p]
         more == IF /\ idle(r) /\ r.number_of_unfetched_item_ids > 0
                    /\ Len(r.ids_of_items_to_get) < MinPrefetch THEN {p} ELSE {}
     IN /\ b \notin peer[p].items_requested /\ b \in peer[p].sync_items_requested
        /\ active_sync_requests' = active_sync_requests \ {b}
        /\ new_received_sync_items' = <<b>> \o new_received_sync_items
        /\ backlog' = TRUE
        /\ peer' = asked(erased, more)
        /\ out' = ask(erased, more)
        /\ trigger_fetch_sync_items_loop(idle(r) /\ more = {})
  /\ UNCHANGED <<links, client, recent, received_sync_items, suspended, inventory>>

on_item_ids_inventory_message(p) ==
  /\ received_message(p, "inventory")
  /\ LET b == Head(inbox[p]).items[1]
         we_advertised == \E q \in Active : b \in peer[q].inventory_advertised_to_peer
         wanted == ~we_advertised /\ b \notin items_to_fetch
                   /\ \A q \in Active : b \notin peer[q].items_requested
     IN /\ peer' = IF we_advertised THEN peer
                   ELSE [peer EXCEPT ![p].inventory_advertised_to_us = @ \union {b}]
        /\ items_to_fetch' = IF wanted THEN items_to_fetch \union {b} ELSE items_to_fetch
        /\ trigger_fetch_items_loop(wanted)
  /\ UNCHANGED <<links, out, client, recent, download, new_inventory>>

is_item_in_any_peers_inventory(peers, ps, b) ==
  \E q \in ps : b \in peers[q].inventory_advertised_to_us

item_not_available(p) ==
  /\ received_message(p, "not_available")
  /\ LET b == Head(inbox[p]).items[1]
         erased == [peer EXCEPT ![p].items_requested = @ \ {b}, ![p].inventory_advertised_to_us = @ \ {b}]
     IN /\ b \in peer[p].items_requested
        /\ peer' = erased
        /\ items_to_fetch' = IF is_item_in_any_peers_inventory(erased, Active, b)
                             THEN items_to_fetch \union {b} ELSE items_to_fetch
  /\ trigger_fetch_items_loop(TRUE)
  /\ UNCHANGED <<links, out, client, recent, download, new_inventory>>

sync_item_not_available(p) ==
  /\ received_message(p, "not_available")
  /\ LET b == Head(inbox[p]).items[1]
         needed == peer[p].peer_needs_sync_items_from_us
     IN /\ b \notin peer[p].items_requested /\ b \in peer[p].sync_items_requested
        /\ peer' = [peer EXCEPT ![p].sync_items_requested = @ \ {b},
                                ![p].inhibit_fetching_sync_blocks = @ \/ needed]
        /\ conn' = disconnected_from(IF needed THEN {} ELSE {p})
  /\ trigger_fetch_sync_items_loop(TRUE)
  /\ UNCHANGED <<connects, height, events, needs, out, client, recent, active_sync_requests,
                 new_received_sync_items, received_sync_items, backlog, suspended, inventory>>

-----------------------------------------------------------------------------
(* The client's thread                                                     *)

(* on_new_block: in sync mode a block that does not link is refused *)
taken(c) ==
  LET b == c.message.items[1] IN
  c.op = "block" \/ 1..b \subseteq known \union {b}

run_call ==
  /\ calls # <<>>
  /\ calls' = Tail(calls)
  /\ LET c == Head(calls)
         b == c.message.items[1]
     IN IF c.op = "has_item"
        THEN /\ returns' = Append(returns, [op |-> c.op, peer |-> c.peer, message |-> c.message,
                                            first |-> c.first, has |-> known])
             /\ UNCHANGED known
        ELSE /\ returns' = Append(returns, [op |-> c.op, peer |-> c.peer, message |-> c.message,
                                            first |-> c.first, has |-> IF taken(c) THEN {b} ELSE {}])
             /\ known' = known \union {b}
  /\ UNCHANGED <<links, peer, out, inbox, recent, download, inventory>>

-----------------------------------------------------------------------------
(* The backlog of blocks received during synchronisation                   *)

in_progress == Cardinality({i \in DOMAIN (calls \o returns) : (calls \o returns)[i].op = "sync_block"})

(* Mutant: one call too many *)
all_handlers_busy_late == in_progress > MaxHandle

all_handlers_busy == in_progress >= MaxHandle

offers(peers, p, b) ==
  peers[p].ids_of_items_to_get # <<>> /\ Head(peers[p].ids_of_items_to_get) = b

(* The block b leaves the lists of all peers that have it in front *)
being_processed(peers, b) ==
  [p \in Peers |-> IF p \in Active /\ offers(peers, p, b)
     THEN [peers[p] EXCEPT !.ids_of_items_to_get = Tail(@),
                           !.ids_of_items_being_processed = @ \union {b}]
     ELSE peers[p]]

(* One round of the loop of process_backlog_of_sync_blocks *)
backlog_round(st) ==
  LET next == {i \in DOMAIN st.received : \E p \in Active : offers(st.peer, p, st.received[i])}
      i == Min(next)
      b == st.received[i]
      started == IF b \in recent THEN st.started ELSE Append(st.started, b)
      left == IF b \in recent THEN st.received ELSE RemoveAt(st.received, i)
      full == in_progress + Len(started) >= MaxHandle
  IN IF ~st.again THEN st
     ELSE IF next = {} THEN [st EXCEPT !.again = FALSE]
     ELSE [received |-> left, peer |-> being_processed(st.peer, b), started |-> started,
           again |-> b \notin recent /\ ~full,
           suspended |-> full /\ Len(left) >= MaxPrefetch]

process_backlog_of_sync_blocks ==
  /\ backlog
  /\ backlog' = FALSE
  /\ IF all_handlers_busy
     THEN UNCHANGED <<peer, calls, new_received_sync_items, received_sync_items, suspended,
                      sync_items_to_fetch_updated>>
     ELSE LET begin == [received |-> Reverse(new_received_sync_items) \o received_sync_items,
                        peer |-> peer, started |-> <<>>, again |-> TRUE, suspended |-> FALSE]
          IN \E end \in {FoldLeft(LAMBDA st, i : backlog_round(st), begin, [i \in 1..MaxHandle |-> i])} :
             /\ new_received_sync_items' = <<>>
             /\ received_sync_items' = end.received
             /\ peer' = end.peer
             /\ calls' = calls \o [i \in DOMAIN end.started |->
                           Call("sync_block", NoPeer, Message("block", <<end.started[i]>>, 0), FALSE)]
             /\ suspended' = end.suspended
             /\ trigger_fetch_sync_items_loop(~end.suspended)
  /\ UNCHANGED <<links, out, inbox, known, returns, recent, active_sync_requests, inventory>>

(* Peers that listed block b, once it is accepted *)
processed(peers, b) ==
  [p \in Peers |-> IF p \in Active /\ b \in peers[p].ids_of_items_being_processed
     THEN [peers[p] EXCEPT !.last_block_seen = b, !.ids_of_items_being_processed = @ \ {b}]
     ELSE peers[p]]

nothing_listed(r) == r.ids_of_items_to_get = <<>> /\ r.ids_of_items_being_processed = {}

(* Mutant: the lists are looked at before the block is taken out *)
newly_empty_early(b) ==
  {p \in Active : /\ b \in peer[p].ids_of_items_being_processed
                  /\ nothing_listed(peer[p])
                  /\ peer[p].number_of_unfetched_item_ids = 0}

newly_empty(b) ==
  {p \in Active : /\ b \in peer[p].ids_of_items_being_processed
                  /\ nothing_listed(processed(peer, b)[p])
                  /\ peer[p].number_of_unfetched_item_ids = 0}

(* Peers in sync with us that may lack the block *)
to_sync_to ==
  {p \in Active : /\ nothing_listed(peer[p])
                  /\ ~peer[p].peer_needs_sync_items_from_us
                  /\ ~peer[p].we_need_sync_items_from_peer}

(* The rest of send_sync_block_to_node_delegate *)
sync_block_handled ==
  /\ returned("sync_block")
  /\ LET b == Head(returns).message.items[1]
         synced == [p \in Peers |-> IF p \in to_sync_to THEN start_synchronizing_with_peer(peer[p])
                                    ELSE processed(peer, b)[p]]
     IN IF b \in Head(returns).has
        THEN /\ recent' = recent \union {b}
             /\ peer' = asked(synced, newly_empty(b) \union to_sync_to)
             /\ out' = ask(synced, newly_empty(b) \union to_sync_to)
             /\ UNCHANGED conn
        ELSE /\ conn' = disconnected_from({p \in Active : b \in peer[p].ids_of_items_being_processed})
             /\ UNCHANGED <<peer, out, recent>>
  /\ backlog' = TRUE
  /\ UNCHANGED <<connects, height, events, needs, inbox, known, calls, active_sync_requests,
                 new_received_sync_items, received_sync_items, suspended,
                 sync_items_to_fetch_updated, inventory>>

-----------------------------------------------------------------------------
(* The loops that request blocks                                           *)

have_already_received(b) == b \in ToSet(received_sync_items) \union ToSet(new_received_sync_items)

(* Mutant: only the requests of this round of the loop count *)
already_requested_now(requested) == requested

already_requested(requested) == requested \union active_sync_requests

(* Blocks to request from peer p when requested are asked from others *)
sync_items_to_request(p, requested) ==
  LET r == peer[p]
      wanted(s, b) == /\ Len(s) < MaxPerPeer
                      /\ ~have_already_received(b)
                      /\ b \notin already_requested(requested \union ToSet(s))
  IN IF r.we_need_sync_items_from_peer /\ idle(r) /\ ~r.inhibit_fetching_sync_blocks
     THEN FoldLeft(LAMBDA s, b : IF wanted(s, b) THEN Append(s, b) ELSE s,
                   <<>>, r.ids_of_items_to_get)
     ELSE <<>>

(* The active peers, in the order in which the loop meets them *)
orders == {s \in [1..Cardinality(Active) -> Active] : IsInjective(s)}

sync_requests(order) ==
  FoldLeft(LAMBDA m, p : [m EXCEPT ![p] =
             sync_items_to_request(p, UNION {ToSet(m[q]) : q \in Peers})],
           [p \in Peers |-> <<>>], order)

fetch_sync_items_loop ==
  /\ sync_items_to_fetch_updated
  /\ sync_items_to_fetch_updated' = FALSE
  /\ \E m \in {IF suspended THEN [p \in Peers |-> <<>>] ELSE sync_requests(order) : order \in orders} :
       /\ active_sync_requests' = active_sync_requests \union UNION {ToSet(m[p]) : p \in Peers}
       /\ peer' = [p \in Peers |->
                     [peer[p] EXCEPT !.sync_items_requested = @ \union ToSet(m[p])]]
       /\ out' = [p \in Peers |-> IF m[p] = <<>> THEN out[p]
                                  ELSE Append(out[p], Message("fetch_sync_items", m[p], 0))]
  /\ UNCHANGED <<links, inbox, client, recent, new_received_sync_items, received_sync_items,
                 backlog, suspended, inventory>>

can_fetch(p, b) == p \in Active /\ idle(peer[p]) /\ b \in peer[p].inventory_advertised_to_us

(* Which peer each wanted block is requested from *)
item_requests ==
  {m \in [items_to_fetch -> Peers \union {NoPeer}] :
     \A b \in items_to_fetch :
       LET load(p) == Cardinality({c \in items_to_fetch : m[c] = p}) IN
       IF m[b] = NoPeer THEN \A p \in Peers : can_fetch(p, b) => load(p) >= MaxItems
       ELSE can_fetch(m[b], b) /\ load(m[b]) <= MaxItems}

fetch_items_loop ==
  /\ items_to_fetch_updated
  /\ items_to_fetch_updated' = FALSE
  /\ \E m \in item_requests :
       LET requested(p) == {b \in items_to_fetch : m[b] = p} IN
       /\ items_to_fetch' = requested(NoPeer)
       /\ peer' = [p \in Peers |-> [peer[p] EXCEPT !.items_requested = @ \union requested(p)]]
       /\ out' = [p \in Peers |-> IF requested(p) = {} THEN out[p]
                    ELSE Append(out[p], Message("fetch_items", SetToSeq(requested(p)), 0))]
  /\ UNCHANGED <<links, inbox, client, recent, download, new_inventory>>

advertise_inventory_loop ==
  /\ new_inventory # {}
  /\ new_inventory' = {}
  /\ peer' = [p \in Peers |->
       IF p \in Active /\ ~peer[p].peer_needs_sync_items_from_us
       THEN [peer[p] EXCEPT !.inventory_advertised_to_peer =
               @ \union (new_inventory \ peer[p].inventory_advertised_to_us)]
       ELSE peer[p]]
  /\ UNCHANGED <<links, out, inbox, client, recent, download, items_to_fetch, items_to_fetch_updated>>

-----------------------------------------------------------------------------
(* The end of a connection                                                 *)

(* terminate_inactive_connections_loop: a request was not answered in time *)
request_ignored(p) ==
  /\ conn[p] = "active" /\ ~idle(peer[p])
  /\ conn' = [conn EXCEPT ![p] = "terminating"]
  /\ UNCHANGED <<connects, height, events, needs, peer, out, inbox, client, recent, download, inventory>>

(* ... the peer sent nothing for long; or did not close when asked to *)
inactive(p) ==
  /\ (conn[p] = "active" /\ unasked) \/ (conn[p] = "closing" /\ UNCHANGED events)
  /\ conn' = [conn EXCEPT ![p] = IF @ = "active" THEN "closing" ELSE "terminating"]
  /\ UNCHANGED <<connects, height, needs, peer, out, inbox, client, recent, download, inventory>>

(* Requests of a closed connection that other peers may now be asked for *)
rescheduled(p) == peer[p].sync_items_requested

on_connection_closed(p) ==
  /\ conn[p] # "disconnected" /\ ~waiting(p)
  /\ IF conn[p] = "active" THEN unasked ELSE UNCHANGED events
  /\ conn' = [conn EXCEPT ![p] = "disconnected"]
  /\ active_sync_requests' = active_sync_requests \ rescheduled(p)
  /\ trigger_fetch_sync_items_loop(peer[p].sync_items_requested # {})
  /\ items_to_fetch' = items_to_fetch \union
       {b \in peer[p].items_requested : is_item_in_any_peers_inventory(peer, Active \ {p}, b)}
  /\ trigger_fetch_items_loop(peer[p].items_requested # {})
  /\ peer' = [peer EXCEPT ![p] = NewConnection]
  /\ out' = [out EXCEPT ![p] = <<>>]
  /\ inbox' = [inbox EXCEPT ![p] = <<>>]
  /\ UNCHANGED <<connects, height, needs, client, recent, new_received_sync_items,
                 received_sync_items, backlog, suspended, new_inventory>>

-----------------------------------------------------------------------------
Init ==
  /\ conn = [p \in Peers |-> "disconnected"]
  /\ connects = [p \in Peers |-> 0]
  /\ peer = [p \in Peers |-> NewConnection]
  /\ out = [p \in Peers |-> <<>>]
  /\ inbox = [p \in Peers |-> <<>>]
  /\ \E start \in Starts :
       /\ height = start.height
       /\ events = start.events
       /\ known = 1..start.head
       /\ recent = {start.head} \ {0}
  /\ needs = [p \in Peers |-> TRUE]
  /\ active_sync_requests = {}
  /\ new_received_sync_items = <<>> /\ received_sync_items = <<>>
  /\ calls = <<>> /\ returns = <<>>
  /\ backlog = FALSE /\ suspended = FALSE
  /\ sync_items_to_fetch_updated = FALSE
  /\ items_to_fetch = {} /\ items_to_fetch_updated = FALSE
  /\ new_inventory = {}

on_message(p) ==
  \/ on_fetch_blockchain_item_ids_message(p)
  \/ on_blockchain_item_ids_inventory_message(p)
  \/ process_block_during_normal_operation(p)
  \/ process_block_during_sync(p)
  \/ on_item_ids_inventory_message(p)
  \/ item_not_available(p)
  \/ sync_item_not_available(p)

resume == list_checked \/ block_handled \/ sync_block_handled

Next ==
  \/ \E p \in Peers :
       \/ new_peer_just_added(p)
       \/ peer_lists_ids(p) \/ peer_sends_items(p) \/ peer_grows(p) \/ peer_asks(p)
       \/ on_message(p)
       \/ request_ignored(p) \/ inactive(p) \/ on_connection_closed(p)
  \/ run_call \/ resume
  \/ process_backlog_of_sync_blocks
  \/ fetch_sync_items_loop \/ fetch_items_loop \/ advertise_inventory_loop

Spec == Init /\ [][Next]_vars

(* What the node and its client do without waiting for a peer or a timeout *)
Progress ==
  \/ \E p \in Peers : \/ on_message(p)
                      \/ conn[p] = "closing" /\ inactive(p)
                      \/ conn[p] = "terminating" /\ on_connection_closed(p)
  \/ run_call \/ resume
  \/ process_backlog_of_sync_blocks
  \/ fetch_sync_items_loop \/ fetch_items_loop \/ advertise_inventory_loop

(***************************************************************************)
(* Fibers and the client's thread do not stop while one of them can go on, *)
(* and a request that is not answered is noticed.  Nothing is assumed of   *)
(* the peers.                                                              *)
(***************************************************************************)
Fairness == WF_vars(Progress) /\ WF_vars(\E p \in Peers : request_ignored(p))

FairSpec == Spec /\ Fairness

-----------------------------------------------------------------------------
TypeOK ==
  /\ conn \in [Peers -> {"disconnected", "active", "closing", "terminating"}]
  /\ peer \in [Peers -> PeerConnection]
  /\ height \in [Peers -> 0..MaxBlock]
  /\ known \subseteq Block /\ recent \subseteq known
  /\ active_sync_requests \subseteq Block /\ items_to_fetch \subseteq Block
  /\ in_progress <= MaxHandle

(* A block is never requested twice at once: what is requested from a      *)
(* connection is counted as requested, and from no other connection.       *)
RequestedOnce ==
  \A p \in Peers : \A b \in peer[p].sync_items_requested :
    /\ b \in active_sync_requests
    /\ \A q \in Peers \ {p} : b \notin peer[q].sync_items_requested

(* The network is calm while no connection ends, no peer advertises a      *)
(* block and no peer lacks a block it listed.                              *)
Calm ==
  /\ \A p \in Peers : conn[p] = "active" \/ connects[p] = 0
  /\ \A p \in Peers : peer[p].inventory_advertised_to_us = {} /\ ~peer[p].inhibit_fetching_sync_blocks

CaughtUp(p) == connects[p] > 0 ~> ~peer[p].we_need_sync_items_from_peer

(* A block that was accepted before is still counted as being processed:   *)
(* process_backlog_of_sync_blocks skips it and never takes it out.         *)
Leftover == \E p \in Active : peer[p].ids_of_items_being_processed \intersect recent # {}

(* The node has handled every block that a peer listed, the peer has ids   *)
(* still to list, and it is asked for nothing: the last of those blocks    *)
(* came from another peer, and a list that is not the peer's last is not   *)
(* followed by a request for more when it runs out.                        *)
Drained ==
  \E p \in Active : /\ peer[p].number_of_unfetched_item_ids # 0
                    /\ nothing_listed(peer[p]) /\ idle(peer[p])

(* In a calm network the node ends in sync with every peer, through lists  *)
(* that come in several parts, unless it receives a block that it has      *)
(* accepted before or the other peers drain a peer's unfinished list.      *)
SyncCompletes == [](Calm /\ ~Leftover /\ ~Drained) => \A p \in Peers : CaughtUp(p)

(* A peer whose blocks we still need is asked for more ids at some point *)
StillNeededIsAsked ==
  \A p \in Peers :
    conn[p] = "active" /\ peer[p].we_need_sync_items_from_peer ~>
      \/ conn[p] # "active" \/ ~peer[p].we_need_sync_items_from_peer
      \/ peer[p].item_ids_requested
=============================================================================
