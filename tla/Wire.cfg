\* Two terms of every kind one after the other, writes that fail, and pulls at any time
\* between the pushes.
SPECIFICATION WireSpec
CONSTANTS
  Terms <- MCTerms
  Sinks = {"stream"}
  BufferLengths = {}
  ShortWrites = FALSE
  MaxTokens = 20
  MaxPushes = 2
INVARIANTS Arrives NoneLeftOver PrintsOneTerm
PROPERTIES PullConsumes OneWithoutTerm
CHECK_DEADLOCK FALSE
