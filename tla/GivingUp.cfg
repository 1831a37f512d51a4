CONSTANTS
  Request = {q1, q2}
  Maintainer = Maintainer
  NoOwner = NoOwner
  Banner = Banner
  Project = {p1, p2}
  NoName = NoName
  DialTimeout = 5
  DrainTimeout = 2
  ReadDeadline = 5
  Grace = 5
  MaxContinuation = 0
  MaxFaults = 1
  MaxLoads = 0
SPECIFICATION CallsSpec
PROPERTIES
  GivesUpWithoutLockOnly
