\* Terms of every kind, whole, cut off or malformed; reads fail and malloc fails.  The
\* input ends between terms or amid the bytes of one, and locals never set hold NULL.
SPECIFICATION FairSpec
CONSTANTS
  Inputs <- MCInputs
  ReadErrors <- MCShortRead
  MallocFails = TRUE
  EndsInside = FALSE
  Uninitialised <- MCNullLocals
INVARIANTS TypeOK OneOwner NothingElseLost NoFault OneMeansDecoded
PROPERTIES PullReturns
CHECK_DEADLOCK FALSE
