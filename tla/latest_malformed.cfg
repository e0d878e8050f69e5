CONSTANTS
  Base = 4
  MaxHumidity = 1
  MaxPercent = 3
  MaxSource = 8
  Dates <- MCDates
  Local <- MCLocal
  Marker <- MCMarker
  Foundings <- OneReading
  Additions <- OnlyMalformed
  BatchSize = 2
  MaxTerms = 4
  MaxCrashes = 1
  Window = 2
  Unbounded = Unbounded
  Bounds <- MCBounds
SPECIFICATION Spec
INVARIANT UsableLatestReturned
CHECK_DEADLOCK FALSE
