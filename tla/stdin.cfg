\* All streams of 8 bytes against a buffer of 3 and a drain of 2.
CONSTANTS
  Size     <- MCSize
  Streams  <- MCStreams
  BufCap   = 3
  DrainCap = 2
SPECIFICATION Spec
INVARIANTS
  TypeOK
  NothingStranded
  LinesIntact
  NothingAfterShutdown
  TailHasCause
PROPERTIES
  LineReached
  HangupEnds
  ImplementsLineStream
  NeverSpins
