\* Terms of every kind made, given, replaced and destroyed in any order; malloc fails at any
\* call.  Texts have two sizes of length in place of 2^16 and 2^32.
SPECIFICATION Spec
CONSTANTS
  DataTypes = {"int", "atom", "regex", "list", "tuple", "dict"}
  Sizes <- MCSizes
  Indices <- MCIndices
  ShortSizes = 2
  LongSizes = 4
  MaxBlocks = 7
INVARIANTS TypeOK TailIsLast OneOwner OnlySourcesLost TextsTerminated
PROPERTY ImplementsSequences
CHECK_DEADLOCK FALSE
