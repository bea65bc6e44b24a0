SPECIFICATION Spec
CONSTANTS
  Designs = {"skip", "remove"}
  Future = 1
  Within = 2
  MaxMembers = 4
  MaxCalls = 9
  MaxTime = 4
CHECK_DEADLOCK FALSE
INVARIANTS
  TypeOK
  EndsOnlyStale
  OneRound
  NotStarved
