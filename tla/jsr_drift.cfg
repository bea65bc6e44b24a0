SPECIFICATION Spec
CONSTANTS
  MaxSourceEdits = 2
CHECK_DEADLOCK FALSE
INVARIANTS
  DriftIsCaught
