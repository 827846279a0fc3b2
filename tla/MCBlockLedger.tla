---------------------------- MODULE MCBlockLedger ----------------------------
(* A main chain of two blocks with a sibling of the second one. *)
EXTENDS BlockLedger

LeBlock == {"a1", "a2", "b2"}
LePrev == [b \in LeBlock |-> IF b = "a1" THEN "g" ELSE "a1"]
LeNum == [b \in LeBlock \union {"g"} |->
            CASE b = "g" -> 0 [] b = "a1" -> 1 [] OTHER -> 2]
LeBranch == BranchOf(LePrev, "g", LeBlock)

LeKey == {"k1", "k2"}
LeLedger == [k \in LeKey |-> IF k = "k1" THEN 1 ELSE 0]

(* Nothing is claimed once a block overtook a repair; such states are not  *)
(* explored further.                                                       *)
Followed == ~overtaken

=============================================================================
