CONSTANTS
  Upload = {u1, u2}
  Original = Original
  Previous = Previous
  Absent = Absent
  Torn = Torn
  Serial = FALSE
  Lossy = FALSE
  MaxFaults = 0
  MaxCrashes = 0
  MaxSaves = 0
SPECIFICATION Spec
INVARIANTS
  BackupKept
CHECK_DEADLOCK FALSE
