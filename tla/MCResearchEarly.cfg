SPECIFICATION Spec
CONSTANTS
  a = a
  b = b
  c = c
  d = d
  e = e
  None = None
  NoTime = NoTime
  Sig = {a, b, c, d, e}
  Histories <- MCHistories
  PriceOf <- MCPriceOf
  Horizons <- MCHorizons
  Window = 4
  PageSize = 2
  MaxPages = 2
  MaxRuns = 2
  Imports <- MCImports
  Replacements <- MCEarly
INVARIANTS LabelsDoNotLookAhead
CHECK_DEADLOCK FALSE
