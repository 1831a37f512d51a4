CONSTANTS
  Upload = {u1, u2, u3}
  Original = Original
  Previous = Previous
  Absent = Absent
  Torn = Torn
  Serial = TRUE
  Lossy = TRUE
  LossyReads = FALSE
  MaxFaults = 2
  MaxCrashes = 1
  MaxSaves = 1
SPECIFICATION ReadsSpec
SYMMETRY UploadSymmetry
INVARIANTS
  BackupIsPrevious
  HeldIsOnDisk
  ReadsTypeOK
  DownloadIsOneVersion
  ArchiveIsWhole
  ListingIsEarned
PROPERTIES
  RefinesStore
  AnsweredSwapsReleasedProject
  FailureKeepsProject
  SuccessServesUpload
CHECK_DEADLOCK FALSE
