SPECIFICATION Spec
CONSTANTS
  Width = 3
  MaxPasses = 2
  Programs <- AllPrograms
INVARIANTS
  TruncationReported
  ReduceIdempotent
  LocalsAgree
  NoGuess
  SubstitutionFaithful
  FunctionsBounded
  ConfigFollowsChain
