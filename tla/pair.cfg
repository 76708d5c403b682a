\* The composition of TestSession and FeatureTests on one feature between a
\* Go or C initiator and a C responder. Only the file transfer depends on
\* Chunks, only the friend request on MaxRequests.
CONSTANTS
  Pairs       <- MCPairs
  LinesCap    = 3
  StdoutCap   = 2
  MaxStray    = 0
  Features    = {"friend_request"}
  MaxRequests = 1
  Chunks      = 1
SPECIFICATION Spec
INVARIANTS
  TypeOK
  CompatibleIsExchanged
  AnswerIsOutcome
  TestIsWired
  SkipIsTrue
  Link
  Begun
