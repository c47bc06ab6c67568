SPECIFICATION Spec
CONSTANTS
  Child = child
  Parent = parent
  Grand = grand
  Files <- MCFiles
  MaxDepth = 2
  Contents <- MCContents
  Shared = shared
  None = None
INVARIANTS
  IncludesAccountedFor
  IncludedBeforeIncluder
  ChildLiteralWins
  BindingsSurvive
PROPERTIES
  ResolveEnds
