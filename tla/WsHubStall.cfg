CONSTANTS
  Client = {c1, c2}
  Broadcaster = {event, command}
  NoWriter = NoWriter
  NoClient = NoClient
  MaxLines = 1
  MaxStalls = 1
SPECIFICATION StallSpec
PROPERTIES
  StreamsInRealTime
CHECK_DEADLOCK FALSE
