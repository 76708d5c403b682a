\* Four cases on a fresh runner.
CONSTANTS
  Cases    = {c1, c2, c3, c4}
  Leftover <- MCFresh
SPECIFICATION Spec
INVARIANTS
  TypeOK
  FileHasAll
  FullReport
  LogReconstructs
  GateIsRight
  PublishedAnyway
PROPERTY WorkflowEnds
