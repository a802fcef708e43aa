SPECIFICATION Spec
CONSTANTS
  p = p
  q = q
  r = r
  create = create
  both = both
  swap = swap
  Pools = {p, q, r}
  Txs = {create, both, swap}
  Creates <- MCCreates
  Touches <- MCTouches
  Windows = {1, 2, 3}
  Ends <- MCEnds
  MaxPools = 2
  MaxTransactions = 2
  MaxAge = 1
  MaxEvents = 2
PROPERTIES WindowsBeginAtReceipt
