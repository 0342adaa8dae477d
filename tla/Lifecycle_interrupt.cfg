SPECIFICATION LifeSpec
CONSTANTS
  Modes = {"mcp"}
  Signalled = {"mcp"}
  MaxLines = 3
INVARIANT JoinsAFinishedReader
CHECK_DEADLOCK FALSE
