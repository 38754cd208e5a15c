\* Three attempts, from any revision to any, that may overlap.
CONSTANTS
  Attempts = {a1, a2, a3}
  LegacyRows <- SampleRows
  Goals = {0, 2, 3, 4, 5}
  Starts = {0, 3}
SYMMETRY Symmetry
SPECIFICATION Spec
INVARIANTS
  SchemaOfVersion
  HeadFitsModels
  SchemaInv
PROPERTIES
  UpgradeKeepsMemories
  NoStaleMove
  FailsForAReason
