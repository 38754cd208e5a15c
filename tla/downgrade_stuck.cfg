\* Up, down and up again, one attempt after the other or at once.
CONSTANTS
  Attempts = {a1, a2, a3}
  LegacyRows <- SampleRows
  Goals = {4, 5}
  Starts = {4}
SPECIFICATION Spec
PROPERTIES
  UpgradeApplies
