SPECIFICATION Spec
CONSTANTS
  l1 = l1
  l2 = l2
  Load = {l1, l2}
  MaxTime = 2
  Window = 1
  Retention = 1
  Custom <- First
  Storage = TRUE
  LocalFirst = TRUE
  MaxFaults = 1
  MaxEdits = 1
SYMMETRY Loads
INVARIANTS TypeOK RecoverableAfterClose ViewIsCurrent
