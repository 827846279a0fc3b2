--------------------------- MODULE MCChainDatabase ---------------------------
(* Small block trees for ChainDatabase. *)
EXTENDS ChainDatabaseProps

(***************************************************************************)
(* fork_choice: two branches from a1, one of them ending in a block that   *)
(* fails its checks (b5), a block with a wrong number (m5), and a first    *)
(* block that fails its checks (x1).                                       *)
(***************************************************************************)
FcBlock == {"a1", "a2", "a3", "b2", "b3", "b4", "b5", "c3", "m5", "x1"}
FcPrev == [b \in FcBlock |->
             CASE b \in {"a1", "x1"} -> "g" [] b = "a2" -> "a1" [] b = "a3" -> "a2"
               [] b = "b2" -> "a1" [] b = "b3" -> "b2" [] b = "b4" -> "b3"
               [] b = "b5" -> "b4" [] b = "c3" -> "a2" [] b = "m5" -> "a2"]
FcNum == [b \in FcBlock \union {"g"} |->
             CASE b = "g" -> 0 [] b \in {"a1", "x1"} -> 1 [] b \in {"a2", "b2"} -> 2
               [] b \in {"a3", "b3", "c3"} -> 3 [] b = "b4" -> 4
               [] b \in {"b5", "m5"} -> 5]
FcGood == FcBlock \ {"b5", "x1"}
FcBranch == BranchOf(FcPrev, "g", FcBlock)

(***************************************************************************)
(* future: a branch with timestamps the clock may not have reached (f2,    *)
(* f3), next to a branch on which the numbers start again at 1 (y1, y2)    *)
(* and then leave one out (m3).                                            *)
(***************************************************************************)
FuBlock == {"a1", "a2", "f2", "f3", "m3", "y1", "y2"}
FuPrev == [b \in FuBlock |->
             CASE b = "a1" -> "g"  [] b \in {"a2", "f2"} -> "a1" [] b = "f3" -> "f2"
               [] b = "y1" -> "a2" [] b \in {"y2", "m3"} -> "y1"]
FuNum == [b \in FuBlock \union {"g"} |->
             CASE b = "g" -> 0 [] b \in {"a1", "y1"} -> 1
               [] b \in {"a2", "f2", "y2"} -> 2 [] b \in {"f3", "m3"} -> 3]
FuTime == [b \in FuBlock \union {"g"} |->
             CASE b = "f2" -> 3 [] b = "f3" -> 4 [] OTHER -> FuNum[b]]
FuBranch == BranchOf(FuPrev, "g", FuBlock)

(***************************************************************************)
(* deep: two branches from genesis, both longer than the undo window of    *)
(* two blocks and each growing while the other is the main chain.          *)
(***************************************************************************)
DeBlock == {"a1", "a2", "a3", "b1", "b2", "b3", "b4"}
DePrev == [b \in DeBlock |->
             CASE b \in {"a1", "b1"} -> "g" [] b = "a2" -> "a1" [] b = "a3" -> "a2"
               [] b = "b2" -> "b1" [] b = "b3" -> "b2" [] b = "b4" -> "b3"]
DeNum == [b \in DeBlock \union {"g"} |->
             CASE b = "g" -> 0 [] b \in {"a1", "b1"} -> 1 [] b \in {"a2", "b2"} -> 2
               [] b \in {"a3", "b3"} -> 3 [] b = "b4" -> 4]
DeBranch == BranchOf(DePrev, "g", DeBlock)

=============================================================================
