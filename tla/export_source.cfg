CONSTANTS
  Base = 4
  MaxHumidity = 1
  MaxPercent = 3
  MaxSource = 8
  Dates <- MCDates
  Local <- MCLocal
  Marker <- MCMarker
  Foundings <- TwoSources
  Additions <- Nothing
  BatchSize = 2
  MaxTerms = 2
  MaxCrashes = 0
  Window = 2
  Unbounded = Unbounded
  Bounds <- MCBounds
SPECIFICATION Spec
INVARIANT ExportIsComplete
CHECK_DEADLOCK FALSE
