CONSTANTS
  g1 = g1
  g2 = g2
  Gateways = {g1, g2}
  Databases <- OldDatabases
  MaxCrashes = 1
SPECIFICATION Spec
SYMMETRY Perms
VIEW WithoutRecords
INVARIANTS
  GatewaysStart
  ServingSchemaIsWhole
  UpgradeCopiesRows
