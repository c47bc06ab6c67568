SPECIFICATION Spec
CONSTANTS
  Width = 3
  MaxPasses = 2
  Programs <- OperatorPrograms
INVARIANT
  NeverPanics
