SPECIFICATION PostersSpec
CONSTANTS
  small = small
  large = large
  huge = huge
  Keys <- MCKeys
  Size <- MCSize
  Budget = 2
  RetryAfter = 1
  MaxTime = 1
  Referenced = {small}
  NoFailure = NoFailure
  Never = Never
INVARIANTS RamIsBounded FilesAreWhole
PROPERTIES AskedSparingly LoadEnds
