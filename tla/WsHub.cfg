CONSTANTS
  Client = {c1, c2}
  Broadcaster = {event, command}
  NoWriter = NoWriter
  NoClient = NoClient
  MaxLines = 1
  MaxStalls = 1
SPECIFICATION FairSpec
INVARIANTS
  TypeOK
  NoWriteAfterClose
  ClosedOnce
  RegisteredIsWatched
PROPERTIES
  BroadcastEnds
  GoneIsClosed
CHECK_DEADLOCK FALSE
