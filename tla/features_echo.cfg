SPECIFICATION Spec
CONSTANTS
  Pairs <- MCWorkflowPair
  Features <- Feature
  MaxRequests = 2
  Chunks = 3
INVARIANT OnlyResponderEchoes
