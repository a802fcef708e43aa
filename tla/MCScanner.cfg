SPECIFICATION FairSpec
CONSTANTS
  c = c
  t = t
  u = u
  Sig = {c, t, u}
  Creation = c
  HistoryCap = 2
  Capacity = 1
  Limit = 1
  OutCap = 1
  MaxFetchAge = 1
  MaxMomentumAge = 1
  MaxTransactions = 2
  Ends <- MCEnds
  LaunchLab = TRUE
  MaxReceived = 4
  MaxTime = 3
INVARIANT CleanFeatureExplained
PROPERTIES LedgerKept UnderwaySettles
CHECK_DEADLOCK FALSE
