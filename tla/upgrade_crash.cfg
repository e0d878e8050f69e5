SPECIFICATION Spec
CONSTANTS
  Originals <- MCOriginals
  Blob = "reading"
  MaxRuns = 2
  MaxCrashes = 1
  Recording = FALSE
INVARIANT UncleanUpgradeIsRefused
CHECK_DEADLOCK FALSE
