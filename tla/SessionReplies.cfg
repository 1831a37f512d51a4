CONSTANTS
  Request = {r1, r2}
  Maintainer = Maintainer
  NoOwner = NoOwner
  Banner = Banner
  MaxContinuation = 1
  MaxFaults = 1
SPECIFICATION Spec
INVARIANTS
  ReplyMatches
