CONSTANTS
  Base = 4
  MaxHumidity = 10
  MaxPercent = 3
  MaxSource = 8
  Dates <- MCDates
  Samples <- MCSamples
  Counts = {5, 6}
  Threshold = 35000
  Steps = 3
  Drift = 1
SPECIFICATION Spec
INVARIANTS AverageTypeOK OneNoisyFieldNeverStarves MinorityCannotDistort PathsDifferOnlyOnTies
