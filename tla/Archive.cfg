CONSTANTS
  Part = {"HOME.db", "tagdb.db", "a b.db", "img", "old.bak"}
  Up = ".."
  Staging = "staging"
  Project = {"HOME", "tagdb", "a b"}
  NoProject = ""
  GenericDBName = "tagdb"
  Proper = {"HOME", "tagdb"}
  Db <- MCDb
  Backup = {"old.bak"}
  Archives <- MCArchives
  MaxUnpackedBytes = 2
  MaxArchiveEntries = 3
  MaxLength = 3
SPECIFICATION Spec
INVARIANTS
  TypeOK
  InsideStaging
  DiskIsBounded
  AcceptedExactly
  UnpacksWhatItHolds
  AcceptedIsProject
  GoesStraightBackIn
CHECK_DEADLOCK FALSE
