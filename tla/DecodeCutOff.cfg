\* The input also ends between the terms of a compound term, and locals never set may hold
\* anything.
SPECIFICATION Spec
CONSTANTS
  Inputs <- MCInputs
  ReadErrors <- MCShortRead
  MallocFails = TRUE
  EndsInside = TRUE
  Uninitialised <- MCAnyLocals
INVARIANTS NothingElseLost FaultsOfTwoKinds
CHECK_DEADLOCK FALSE
