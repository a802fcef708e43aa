SPECIFICATION Spec
CONSTANTS
  None = None
  L = L
  M = M
  C = C
  u = u
  x = x
  uBase = uBase
  uQuote = uQuote
  vBase = vBase
  vQuote = vQuote
  xBase = xBase
  xQuote = xQuote
  baseMint = baseMint
  quoteMint = quoteMint
  Payer = u
  Targets <- MCTargets
  MintOf <- MCMintOf
  Owner <- MCOwner
  LaunchLab = TRUE
  OuterIx <- MCOuter
  InnerIx <- MCInner
  MaxOuter = 2
  MaxInner = 1
INVARIANTS RowsAreInstructionScoped
CHECK_DEADLOCK FALSE
