\* The terms of Encode.cfg and a negative integer.
SPECIFICATION Spec
CONSTANTS
  Terms <- MCSignedTerms
  Sinks = {"stream"}
  BufferLengths = {}
  ShortWrites = FALSE
  MaxTokens = 3
INVARIANT SizeofEnough
