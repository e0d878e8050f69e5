SPECIFICATION FairSpec
CONSTANTS
  Originals <- MCOriginals
  Blob = "reading"
  MaxRuns = 2
  MaxCrashes = 1
  Recording = TRUE
INVARIANTS TypeOK NoRowLost UnsupportedStaysPut
PROPERTY UpgradeCompletes
