CONSTANTS
  Request = {q1, q2}
  Maintainer = Maintainer
  NoOwner = NoOwner
  Banner = Banner
  Project = {p1, p2}
  NoName = NoName
  DialTimeout = 2
  DrainTimeout = 1
  ReadDeadline = 2
  Grace = 2
  MaxContinuation = 1
  MaxFaults = 1
  MaxLoads = 1
SPECIFICATION FairCallsSpec
INVARIANTS
  CallsTypeOK
  AnswersAgree
  GivingUpIsEarned
  NamedWhenHealthy
PROPERTIES
  CallsEnd
