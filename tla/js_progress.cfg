SPECIFICATION LiveSpec
CONSTANTS
  Future = 1
  Timeout = 2
  AgeCap = 3
  Past = 4
  MaxTime = 5
  MaxSnapshots = 2
  Lags = {0}
  MaxAges = {Absent}
  Faults = {"refused", "Malformed"}
  Absent = Absent
  Proxy = {1}
  RowAge <- MCRowAge
  Caller = {c1, c2}
  Sources = {"api", "github"}
  Filters <- MCFilters
  DefaultWithin = 1
  MaxWithin = 10
PROPERTIES
  EveryCallSettles
