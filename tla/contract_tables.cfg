SPECIFICATION Spec
CONSTANTS
  Contract = {c1, c2}
  ContractName = {n1}
  Storage = {s1, s2}
  Absent = Absent
  NoName = NoName
  Owner = Owner
  CollectedFees = CollectedFees
  Margin = 1
  Fee = 1
  Supply = 7
  MaxOps = 2
  MaxBlocks = 2
INVARIANTS TypeOK NamesUnique NameIndexed SupplyConserved MarginHeld NoneStranded
PROPERTIES TablesRevert StorageReverts
SYMMETRY Symmetry
