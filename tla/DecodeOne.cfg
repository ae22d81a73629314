\* The input ends between the elements of a tuple, or between those of any compound term.
SPECIFICATION Spec
CONSTANTS
  Inputs <- MCInputs
  ReadErrors <- MCShortRead
  MallocFails = FALSE
  EndsInside = TRUE
  Uninitialised <- MCNullLocals
INVARIANT OneMeansDecoded
CHECK_DEADLOCK FALSE
