SPECIFICATION Spec
CONSTANTS
  None = None
  L = L
  M = M
  C = C
  u = u
  x = x
  uBase = uBase
  uQuote = uQuote
  vBase = vBase
  vQuote = vQuote
  xBase = xBase
  xQuote = xQuote
  baseMint = baseMint
  quoteMint = quoteMint
  Payer = u
  Targets <- MCTargets
  MintOf <- MCMintOf
  Owner <- MCOwner
  LaunchLab = TRUE
  OuterIx <- MCTrades
  InnerIx <- MCTransfers
  MaxOuter = 1
  MaxInner = 4
INVARIANTS UnrelatedMovementsRejected
CHECK_DEADLOCK FALSE
