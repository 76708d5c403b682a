\* A node that prints more than the channel and the pipe hold while its
\* test runs blocks Close for ever.
CONSTANTS
  Pairs     <- MCForeign
  LinesCap  = 1
  StdoutCap = 1
  MaxStray  = 3
SPECIFICATION Spec
INVARIANTS
  CloseNeverDeadlocks
