SPECIFICATION Spec
CONSTANTS
  Key <- PoKey
  Value = {0, 1, 2, 3}
  Absent = Absent
  Trx = {1, 2, 3, 4}
  From <- PoFrom
  To <- PoTo
  Fee <- PoFee
  Expiration <- PoExpiration
  Size <- PoSize
  BlockSize <- PoBlockSize
  Excluded = {3}
  OldLedger <- DuLedger
  MaxAhead = 5
  RelayFee = 2
  MinFee = 2
  MaxQueue = 1
  MaxRevalidate = 1
  MaxBlockTrx = 2
  MaxBlockSize = 2
  MaxTime = 4
  MaxLen = 3
INVARIANT NoDuplicate
