SPECIFICATION PagesSpec
CONSTANTS
  s1 = s1
  s2 = s2
  b1 = b1
  p1 = p1
  None = None
  SettingsSaved = TRUE
  MaxDeletes = 1
  Scans = {s1, s2}
  Buckets = {b1}
  Owner <- OneBucket
  Faults = {"store", "kill"}
SYMMETRY ScanSymmetry
CHECK_DEADLOCK FALSE
INVARIANTS CompletedRowsHaveTotals CompletedRowsOpen DeletionIsComplete
