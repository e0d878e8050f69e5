SPECIFICATION PollingSpec
CONSTANTS
  l1 = l1
  l2 = l2
  Load = {l1, l2}
  MaxTime = 2
  Window = 1
  Retention = 2
  Custom <- Second
  Storage = TRUE
  LocalFirst = FALSE
  MaxFaults = 0
  MaxEdits = 0
PROPERTY ViewReconciles
