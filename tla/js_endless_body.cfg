SPECIFICATION FairSpec
CONSTANTS
  Future = 0
  Timeout = 1
  AgeCap = 2
  Past = 3
  MaxTime = 4
  MaxSnapshots = 2
  Lags = {0}
  MaxAges = {Absent}
  Faults = {}
  Absent = Absent
  Proxy = {1}
  RowAge <- MCRowAge
  Caller = {c1}
  Sources = {"api"}
  Filters <- MCFilters
  DefaultWithin = 1
  MaxWithin = 10
PROPERTIES
  EveryCallSettles
