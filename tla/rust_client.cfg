SPECIFICATION Spec
CONSTANTS
  Future = 0
  Timeout = 1
  AgeCap = 2
  Past = 3
  MaxTime = 4
  MaxSnapshots = 2
  Lags = {0}
  MaxAges = {0, Absent}
  Faults = {"refused", "broken", "Malformed", "Truncated", "BadRow", "NoTag", "Spurious304", "panic"}
  Absent = Absent
  Proxy = {1}
  RowAge <- MCRowAge
  Caller = {t1, t2}
  Nobody = Nobody
  Sources = {"api", "github"}
  Filters <- MCFilters
  DefaultWithin = 1
  MaxWithin = 10
SYMMETRY Threads
INVARIANTS
  TypeOK
  OneRequestAtATime
  EtagStaysCached
  RetainedAtMostCap
