SPECIFICATION FairSpec
CONSTANTS
  Future = 0
  Timeout = 1
  AgeCap = 2
  Past = 3
  MaxTime = 4
  MaxSnapshots = 2
  Lags = {0}
  MaxAges = {0, Absent}
  Faults = {"broken", "Malformed", "NoTag", "panic"}
  Absent = Absent
  Proxy = {1, 2}
  RowAge <- MCRowAge
  Caller = {t1, t2}
  Nobody = Nobody
  Sources = {"api"}
  Filters <- MCFilters
  DefaultWithin = 3
  MaxWithin = 3
PROPERTIES
  ImplementsService
  MutexComesFree
