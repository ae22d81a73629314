\* Every type of term, whole and partly invalid, one after another into changing sinks
\* that may refuse at any write.
SPECIFICATION Spec
CONSTANTS
  Terms <- MCTerms
  Sinks = {"stream", "callback", "buffer"}
  BufferLengths = {3, 22}
  ShortWrites = FALSE
  MaxTokens = 4
INVARIANTS TypeOK SuccessIsOneTerm MagicOnce TotalIsWritten SizeofEnough SizeofExact
PROPERTY ShortWriteWhenNoRoom
