CONSTANTS
  Request = {}
  Maintainer = Maintainer
  NoOwner = NoOwner
  Banner = Banner
  MaxContinuation = 0
  MaxFaults = 1
SPECIFICATION BridgeFairSpec
INVARIANTS
  BridgeTypeOK
  ReadyIsEarned
PROPERTIES
  BecomesReady
  OutageShows
