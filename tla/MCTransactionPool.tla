-------------------------- MODULE MCTransactionPool --------------------------
(***************************************************************************)
(* Three balances and four transactions: 1 passes on what 2 brings, 3      *)
(* competes with 2 for the units at "a", and 4 returns what 1 or 3 passed  *)
(* on.  2 expires while the chain grows and has a result that makes it     *)
(* larger, 4 is acceptable only later, and the delegate excludes 3.        *)
(***************************************************************************)
EXTENDS TransactionPool

PoKey == {"a", "b", "c"}
PoLedger == [k \in PoKey |-> IF k = "a" THEN 1 ELSE Absent]
PoFrom == <<"b", "a", "a", "c">>
PoTo == <<"c", "b", "c", "a">>
PoFee == <<3, 2, 2, 4>>
PoExpiration == <<5, 2, 5, 6>>
PoSize == <<1, 1, 1, 2>>
PoBlockSize == <<1, 2, 1, 2>>

(* Enough at "a" for the same transfer twice *)
DuLedger == [k \in PoKey |-> IF k = "a" THEN 2 ELSE Absent]

=============================================================================
