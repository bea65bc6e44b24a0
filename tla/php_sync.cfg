SPECIFICATION Spec
CONSTANTS
  Job = {j1, j2}
  Version = {v1, v2}
  Tree = {t1, t2}
  Empty = Empty
  MaxStarts = 4
  MaxPushes = 1
SYMMETRY Symmetry
CHECK_DEADLOCK FALSE
INVARIANTS
  TypeOK
  TagHoldsPackage
  DoneMeansPublished
  TagsOnBranch
  QuietRunPublishes
