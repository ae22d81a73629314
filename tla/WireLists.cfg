\* A list of one integer and an integer, pushed in any order.
SPECIFICATION WireSpec
CONSTANTS
  Terms <- MCLists
  Sinks = {"stream"}
  BufferLengths = {}
  ShortWrites = FALSE
  MaxTokens = 100
  MaxPushes = 2
INVARIANT EveryTermArrives
