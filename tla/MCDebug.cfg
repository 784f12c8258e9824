CONSTANTS
  Channel = {"debug-event", "debug-command"}
  QueueMax = 1
  MaxStops = 2
  MaxCommands = 2
SPECIFICATION LoopSpec
INVARIANTS DebugTypeOK OneReader ViewIsCurrent
PROPERTIES TakesTurns ResumeReaches PauseIsSeen
CHECK_DEADLOCK FALSE
