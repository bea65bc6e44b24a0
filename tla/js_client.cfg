SPECIFICATION Spec
CONSTANTS
  Future = 0
  Timeout = 1
  AgeCap = 2
  Past = 3
  MaxTime = 4
  MaxSnapshots = 2
  Lags = {1}
  MaxAges = {0, 9}
  Faults = {"refused", "broken", "Malformed", "Truncated", "BadRow", "NoTag", "Spurious304"}
  Absent = Absent
  Proxy = {1, 2}
  RowAge <- MCRowAge
  Caller = {c1, c2}
  Sources = {"api", "github"}
  Filters <- MCFilters
  DefaultWithin = 4
  MaxWithin = 4
SYMMETRY CallerSymmetry
INVARIANTS
  TypeOK
  WindowOnEveryPath
  RetainedUnlessCrossed
  FetchedIsCurrent
  ExpiryBounded
PROPERTIES
  CacheWrittenOnlyBySuccess
  NoRowAgedOut
  ImplementsService
