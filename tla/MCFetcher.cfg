SPECIFICATION FairSpec
CONSTANTS
  s1 = s1
  s2 = s2
  a = a
  b = b
  bad = bad
  None = None
  Slots = {s1, s2}
  Sigs = {a, b, bad}
  Malformed = {bad}
  HistoryCap = 1
  MaxAge = 3
  Spacing = 1
  Timeout = 1
  Attempts = 3
  Backoff <- MCBackoff
  RetryAfters = {1, 4}
  OutCap = 1
  MaxSubmitted = 3
  MaxDuplicates = 1
INVARIANTS TypeOK OneJobPerSignature JobsAccounted
PROPERTIES StartsSpaced CooldownRespected JobsFinish DrainsAndReturns
