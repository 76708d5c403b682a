\* Everything ends, as far as the nodes keep stepping and say no more than they
\* have to.
CONSTANTS
  Pairs     <- MCForeign
  LinesCap  = 1
  StdoutCap = 1
  MaxStray  = 0
SPECIFICATION FairSpec
PROPERTIES
  VerdictReached
  SessionReturns
  ReaderExits
  OrphansExit
