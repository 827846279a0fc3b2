----------------------------- MODULE MCNodeSync -----------------------------
(* Two peers with chains of different heights for NodeSync. *)
EXTENDS NodeSync

TwoPeers == {"a", "b"}
Heights(ha, hb) == [p \in TwoPeers |-> IF p = "a" THEN ha ELSE hb]

(* The node has the first block and a peer may do something unasked *)
Behind == [head |-> 1, height |-> Heights(3, 2), events |-> 0]
(* The node has no block, and no peer does anything unasked: a's list is   *)
(* longer than MinPrefetch and still not its last, so that the node turns  *)
(* to fetching blocks and has to come back for the rest of the ids.        *)
Empty == [head |-> 0, height |-> Heights(4, 3), events |-> MaxEvents]

BehindOrEmpty == {Behind, Empty}
OnlyBehind == {Behind}
=============================================================================
