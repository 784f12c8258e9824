CONSTANTS
  Channel = {"debug-event", "debug-command"}
  QueueMax = 1
  MaxStops = 1
  MaxCommands = 1
SPECIFICATION FairDebugSpec
PROPERTIES SessionEnds
CHECK_DEADLOCK FALSE
