SPECIFICATION Spec
CONSTANTS
  Future = 1
  Timeout = 2
  AgeCap = 3
  Past = 4
  MaxTime = 4
  MaxSnapshots = 2
  Lags = {0}
  MaxAges = {Absent}
  Faults = {}
  Absent = Absent
  Proxy = {1}
  RowAge <- MCRowAge
  Caller = {c1}
  Sources = {"api"}
  Filters <- MCFilters
  DefaultWithin = 1
  MaxWithin = 10
PROPERTIES
  NoFreshSnapshotRejected
