CONSTANTS
  Upload = {u1}
  Original = Original
  Previous = Previous
  Absent = Absent
  Torn = Torn
  Serial = TRUE
  Lossy = FALSE
  LossyReads = FALSE
  MaxFaults = 0
  MaxCrashes = 0
  MaxSaves = 0
SPECIFICATION ReadsSpec
INVARIANTS
  CutArchiveDoesNotOpen
CHECK_DEADLOCK FALSE
