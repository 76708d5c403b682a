SPECIFICATION Spec
CONSTANTS
  Pairs <- MCPairs
  Features <- Feature
  MaxRequests = 2
  Chunks = 3
INVARIANTS
  TypeOK
  CompatibleIsReal
  VerifiedIsWhole
  AcceptedIsFriend
  OneBallInPlay
PROPERTIES
  WorkingPairSucceeds
  TestsEnd
