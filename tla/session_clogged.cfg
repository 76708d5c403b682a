\* SessionReturns with a foreign node that prints more than the channel and
\* the pipe hold: longer than session_live, and not among the runs.
CONSTANTS
  Pairs     <- MCForeign
  LinesCap  = 1
  StdoutCap = 1
  MaxStray  = 3
SPECIFICATION FairSpec
PROPERTY SessionReturns
