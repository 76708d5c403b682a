\* One run of a pair, with every failure the code handles.
CONSTANTS
  Pairs     <- MCPairs
  LinesCap  = 3
  StdoutCap = 2
  MaxStray  = 1
SPECIFICATION Spec
INVARIANTS
  TypeOK
  CompatibleIsEarned
  SkipHasCause
  TestAfterBootstrap
  NoLiveProcessLeft
  ReaderNeverBlocks
PROPERTIES
  VerdictFinal
  ConflictHasCause
  ImplementsPairVerdict
  RunIsFinite
