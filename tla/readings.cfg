CONSTANTS
  Base = 4
  MaxHumidity = 1
  MaxPercent = 3
  MaxSource = 8
  Dates <- MCDates
  Local <- MCLocal
  Marker <- MCMarker
  Foundings <- MCFoundings
  Additions <- MCAdditions
  BatchSize = 2
  MaxTerms = 5
  MaxCrashes = 2
  Window = 2
  Unbounded = Unbounded
  Bounds <- MCBounds
SPECIFICATION Spec
INVARIANTS ReadingsTypeOK ReadingsSurvive NothingMisread NoSaveRefused RangeIsExact ExportIsChronological LatestIsNewest LookupsAgree ExportRestores
PROPERTY IndexMirrorsReadings
CHECK_DEADLOCK FALSE
