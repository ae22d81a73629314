\* A descriptor that takes fewer bytes than it is given, as pipes and sockets do.
SPECIFICATION Spec
CONSTANTS
  Terms <- MCInts
  Sinks = {"stream"}
  BufferLengths = {}
  ShortWrites = TRUE
  MaxTokens = 3
INVARIANT TotalIsWritten
