SPECIFICATION Spec
CONSTANTS
  Future = 0
  Timeout = 1
  AgeCap = 2
  Past = 3
  MaxTime = 4
  MaxSnapshots = 2
  Lags = {1}
  MaxAges = {0, 9}
  Faults = {"refused", "broken", "Malformed", "Truncated", "BadRow", "NoTag", "Spurious304"}
  Absent = Absent
  Proxy = {1}
  RowAge <- MCRowAge
  Thread = {t1, t2}
  ThreadSources = {"api", "github"}
SYMMETRY ThreadSymmetry
CHECK_DEADLOCK FALSE
INVARIANTS
  TypeOK
  WindowUnlessTorn
  RetainedUnlessCrossedOrTorn
  FetchedIsCurrent
PROPERTIES
  CacheWrittenOnlyBySuccess
