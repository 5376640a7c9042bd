SPECIFICATION Spec
CONSTANTS
  N = 2
CHECK_DEADLOCK FALSE
INVARIANTS AddsItsOwnId
