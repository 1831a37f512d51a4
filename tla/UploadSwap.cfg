CONSTANTS
  Upload = {u1}
  Original = Original
  Previous = Previous
  Absent = Absent
  Torn = Torn
  Serial = TRUE
  Lossy = TRUE
  MaxFaults = 0
  MaxCrashes = 0
  MaxSaves = 0
SPECIFICATION Spec
PROPERTIES
  SwapsReleasedProject
CHECK_DEADLOCK FALSE
