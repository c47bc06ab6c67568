SPECIFICATION Spec
CONSTANTS
  MaxTotalFiles = 5
  MaxDepth = 2
  MaxFileSize = 2
  MaxChanges = 2
  Workspaces <- MCWorkspaces
  CallerVars = {"region"}
  TerragruntInputs = {"region", "name"}
INVARIANTS
  DiscoveryOrderFree
  EveryFileAccountedFor
  OnlyLimitsFail
  ComponentsSurvive
