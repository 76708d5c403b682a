\* A node that hangs holds its run up for ever, in Close.
CONSTANTS
  Pairs     <- MCRealPair
  LinesCap  = 5
  StdoutCap = 1
  MaxStray  = 0
SPECIFICATION FairSpec
PROPERTIES
  RunIsBounded
