SPECIFICATION Spec
CONSTANTS
  Component = component
  A = a  B = b  C = c  D = d
  main = main  k1 = k1  k2 = k2
  twice = twice  both = both  mixed = mixed  long = long
  Modules <- MCModules
  Bodies <- MCBodies
  Aliases = {main}
  Keys = {k1, k2}
  Lists = {twice, both, mixed, long}
  Items <- MCItems
  BadKeys = {k2}
  MaxDepth = 3
  MaxExpansion = 2
  MaxSegments = 2
  VarX = VarX
  Plain = Plain
  NoKey = NoKey
  None = None
INVARIANTS
  AddressesUnique
  NothingDropped
  InputsReachUnboundModules
  ExplicitRefsRewritten
