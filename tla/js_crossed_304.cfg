SPECIFICATION Spec
CONSTANTS
  Future = 0
  Timeout = 1
  AgeCap = 2
  Past = 3
  MaxTime = 5
  MaxSnapshots = 2
  Lags = {0}
  MaxAges = {Absent}
  Faults = {}
  Absent = Absent
  Proxy = {1}
  RowAge <- MCRowAge
  Caller = {c1, c2}
  Sources = {"api"}
  Filters <- MCFilters
  DefaultWithin = 1
  MaxWithin = 10
INVARIANTS
  RetainedAtMostCap
