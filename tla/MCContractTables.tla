--------------------------- MODULE MCContractTables ---------------------------
(***************************************************************************)
(* Two contracts compete for one name and pass through registration, first *)
(* and later writes of their storage, feeding, upgrade and destruction, in *)
(* one block or in several, with blocks popped and the node restarted.     *)
(***************************************************************************)
EXTENDS ContractTables, TLC

Symmetry == Permutations(Contract) \union Permutations(Storage)

=============================================================================
