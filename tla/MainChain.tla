------------------------------ MODULE MainChain ------------------------------
(***************************************************************************)
(* What the chain database promises to the rest of the node about its      *)
(* head: seen between two calls of push_block, the head only ever moves to *)
(* the tip of a branch that is acceptable from genesis on and that is not  *)
(* shorter than the branch it leaves.                                      *)
(***************************************************************************)
EXTENDS Naturals

CONSTANTS Block, Genesis, Prev, Num, Time, Branch, Good

VARIABLE tip

Acceptable(b) ==
  /\ b \in Good
  /\ Num[b] = Num[Prev[b]] + 1
  /\ Num[b] > 1 => Time[b] > Time[Prev[b]]

AcceptableBranch(t) == \A b \in Branch[t] \ {Genesis} : Acceptable(b)

Adopt(t) ==
  /\ AcceptableBranch(t)
  /\ Num[t] >= Num[tip]
  /\ tip' = t

Init == tip = Genesis
Next == \E t \in Block : Adopt(t)
Spec == Init /\ [][Next]_tip

=============================================================================
