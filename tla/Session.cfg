CONSTANTS
  Request = {r1, r2}
  Maintainer = Maintainer
  NoOwner = NoOwner
  Banner = Banner
  MaxContinuation = 1
  MaxFaults = 3
SPECIFICATION FairSpec
INVARIANTS
  TypeOK
  FlagTellsSession
  AtMostOnce
  ReplyIsOwed
PROPERTIES
  CleanConnectionAnswersOwn
  RefinesService
  RequestsAnswered
  Recovers
