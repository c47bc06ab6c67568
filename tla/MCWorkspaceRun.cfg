SPECIFICATION Spec
CONSTANTS
  Width = 3
  Profiles <- MCProfiles
  Accounts = {"a1", "a2"}
  Regions = {"r1", "r2"}
  MaxHops = 2
  ConfigFiles <- MCConfigFiles
  DefaultRegion = "r1"
  Refused = {"b[*]", "a b"}
  WorkspaceRoot <- MCRoot
  RowGroupRows = 3
  RowGroupBytes = 7
  Inputs <- AllInputs
INVARIANTS
  MapMatchesChains
  AccountFromNamedProvider
  UnresolvedReported
  EdgesAreReferences
  RowsAllWritten
  TablesAgree
