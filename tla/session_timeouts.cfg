\* Both nodes run into their own timer.
CONSTANTS
  Pairs     <- MCRealPair
  LinesCap  = 5
  StdoutCap = 2
  MaxStray  = 0
SPECIFICATION Spec
INVARIANTS
  TwoTimeoutsAreNoConflict
