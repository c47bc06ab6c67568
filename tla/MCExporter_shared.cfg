SPECIFICATION VerifySpec
CONSTANTS
  r1 = r1  r2 = r2
  Runs = {r1, r2}
  Resources = resources
  ManifestFile = manifest
  Dependencies = dependencies
  SecondaryTables <- MCTables
  TableLists <- MCTableLists
  OverwriteModes = {TRUE, FALSE}
  Full = 2
  Exclusive = FALSE
  None = None
PROPERTIES
  NeverVanishes
