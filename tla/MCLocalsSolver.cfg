SPECIFICATION Spec
CONSTANTS
  N = 4
  Env = env
  Inherited = {env}
  Programs <- MCPrograms
  None = None
INVARIANTS
  CycleIffReported
  SolvedIsClosure
