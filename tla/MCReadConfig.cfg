SPECIFICATION Spec
CONSTANTS
  Component = component
  A = a  B = b  C = c
  Files <- MCFiles
  Included <- MCIncluded
  Bodies <- MCBodies
  MaxPasses = 3
  None = None
INVARIANTS
  NothingLeaks
  MemoHoldsWhatItCalled
  LocalsSettle
PROPERTIES
  ReadsEnd
