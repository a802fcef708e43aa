SPECIFICATION Spec
CONSTANTS
  l1 = l1
  l2 = l2
  a = a
  b = b
  None = None
  Listeners = {l1, l2}
  Sigs = {a, b}
  HistoryCap = 1
  Capacity = 1
  MaxAge = 1
  Limit = 1
  MaxReceived = 4
  MaxTime = 2
SYMMETRY Symmetry
INVARIANT GaugeBounded
